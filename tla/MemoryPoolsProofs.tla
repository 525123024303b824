-------------------------- MODULE MemoryPoolsProofs --------------------------
(***************************************************************************)
(* Theorems about MemoryPools, for every heap, budget, size class, ceiling *)
(* and setting, any requests and any failures.                             *)
(*                                                                         *)
(* One invariant, Inv, says that a context is Fine: its fields have their  *)
(* types (Contexts), each live buffer holds its request and is not too     *)
(* large for it (Owned), the counters of both pools are what the pools     *)
(* hold and within the ceilings of the settings (PoolFine, StageFine), and *)
(* no more than two fences exist.  The other properties follow from it.    *)
(*                                                                         *)
(* What a pool holds is a sum over a bag, and evictions, retries and       *)
(* returns are recursive functions.  So the module begins with induction   *)
(* and recursion over the naturals, sums over finite sets, bags and what   *)
(* they weigh, powers of two and size classes.  Then it follows the calls, *)
(* each a composition of steps that keep a context Sound.                  *)
(***************************************************************************)
EXTENDS MemoryPools, Integers, FiniteSetTheorems, WellFoundedInduction, TLAPS

(* Induction and recursion over the naturals, for sets and functions.      *)

LEMMA NatOrderWellFounded ==
  IsWellFoundedOn({ss \in Nat \X Nat : ss[1] < ss[2]}, Nat)
  BY NatLessThanWellFounded DEF OpToRel

LEMMA SetInduction ==
  ASSUME NEW T, T \subseteq Nat, 0 \in T, \A n \in T : n + 1 \in T
  PROVE  T = Nat
  <1> SUFFICES ASSUME Nat \ T # {} PROVE FALSE
    OBVIOUS
  <1> DEFINE R == {ss \in Nat \X Nat : ss[1] < ss[2]}
  <1>1. IsWellFoundedOn(R, Nat)
    BY NatOrderWellFounded
  <1> HIDE DEF R
  <1>2. PICK x \in Nat \ T : \A y \in Nat \ T : ~(<<y, x>> \in R)
    BY <1>1, WFMin
  <1>3. \A y \in Nat \ T : ~(y < x)
    BY <1>2 DEF R
  <1>4. x # 0 /\ x - 1 \in Nat /\ x - 1 < x /\ (x - 1) + 1 = x
    OBVIOUS
  <1>5. x - 1 \in T
    BY <1>3, <1>4
  <1> QED
    BY <1>4, <1>5

(* The least of some naturals. *)
LEMMA MinOf ==
  ASSUME NEW T, T \subseteq Nat, T # {}
  PROVE  Min(T) \in T /\ \A n \in T : Min(T) <= n
  <1> DEFINE R == {ss \in Nat \X Nat : ss[1] < ss[2]}
  <1>1. IsWellFoundedOn(R, Nat)
    BY NatOrderWellFounded
  <1> HIDE DEF R
  <1>2. PICK x \in T : \A y \in T : ~(<<y, x>> \in R)
    BY <1>1, WFMin
  <1>3. x \in Nat /\ \A y \in T : y \in Nat /\ ~(<<y, x>> \in R)
    BY <1>2
  <1>4. \A y \in T : ~(y < x)
    BY <1>3 DEF R
  <1>5. \A y \in T : x <= y
    BY <1>3, <1>4
  <1> QED
    BY <1>5 DEF Min

(* A recursion over 0 .. N that stays within a set. *)
Unrolled(x, N, G, f) ==
  /\ f[0] = x
  /\ \A n \in 1 .. N : f[n] = G[<<n, f[n-1]>>]

LEMMA RecursionTo ==
  ASSUME NEW X, NEW x \in X, NEW G \in [Nat \X X -> X], NEW N \in Nat
  PROVE  \E f \in [0 .. N -> X] : Unrolled(x, N, G, f)
  <1> DEFINE T == {m \in Nat : \E f \in [0 .. m -> X] : Unrolled(x, m, G, f)}
  <1>1. 0 \in T
    <2> DEFINE f == [n \in 0 .. 0 |-> x]
    <2>1. f \in [0 .. 0 -> X] /\ Unrolled(x, 0, G, f)
      BY DEF Unrolled
    <2> QED
      BY <2>1
  <1>2. ASSUME NEW m \in T PROVE m + 1 \in T
    <2>1. PICK f \in [0 .. m -> X] : Unrolled(x, m, G, f)
      OBVIOUS
    <2>2. m \in Nat /\ m + 1 \in Nat /\ m \in 0 .. m /\ f[m] \in X
      OBVIOUS
    <2>3. G[<<m+1, f[m]>>] \in X
      BY <2>2
    <2> DEFINE h == [n \in 0 .. m+1 |-> IF n = m+1 THEN G[<<m+1, f[m]>>] ELSE f[n]]
    <2>4. h \in [0 .. m+1 -> X]
      BY <2>2, <2>3
    <2>5. \A n \in 0 .. m : h[n] = f[n]
      BY <2>2
    <2>6. h[m+1] = G[<<m+1, h[m]>>]
      <3>1. h[m] = f[m]
        BY <2>2, <2>5
      <3>2. h[m+1] = G[<<m+1, f[m]>>]
        BY <2>2
      <3> QED
        BY <3>1, <3>2, Zenon
    <2>7. ASSUME NEW n \in 1 .. m+1 PROVE h[n] = G[<<n, h[n-1]>>]
      <3>1. CASE n = m + 1
        BY <2>2, <2>6, <3>1
      <3>2. CASE n # m + 1
        <4>1. n \in 1 .. m /\ n \in 0 .. m /\ n - 1 \in 0 .. m
          BY <2>2, <3>2
        <4>2. f[n] = G[<<n, f[n-1]>>]
          BY <2>1, <4>1 DEF Unrolled
        <4> HIDE DEF h
        <4> QED
          BY <2>5, <4>1, <4>2
      <3> QED
        BY <3>1, <3>2
    <2>8. h[0] = x
      BY <2>1, <2>2, <2>5 DEF Unrolled
    <2> HIDE DEF h
    <2>9. Unrolled(x, m+1, G, h)
      BY <2>7, <2>8 DEF Unrolled
    <2> QED
      BY <2>2, <2>4, <2>9
  <1>3. T \subseteq Nat
    OBVIOUS
  <1> HIDE DEF T
  <1>4. T = Nat
    BY <1>1, <1>2, <1>3, SetInduction
  <1> QED
    BY <1>4 DEF T

-----------------------------------------------------------------------------
(* Sums over finite sets.                                                  *)

Chosen(s) == CHOOSE x \in s : TRUE
Summand(f, g, s) == IF s = {} THEN 0 ELSE f[Chosen(s)] + g[s \ {Chosen(s)}]
Summing(f, S, g) == g = [s \in SUBSET S |-> Summand(f, g, s)]

(* Subsets by their number of elements. *)
LEMMA Smaller ==
  ASSUME NEW S, IsFiniteSet(S), S # {}
  PROVE  /\ Chosen(S) \in S
         /\ \A x \in S : /\ IsFiniteSet(S \ {x})
                         /\ Cardinality(S \ {x}) = Cardinality(S) - 1
         /\ Cardinality(S) \in Nat \ {0}
  <1>1. Chosen(S) \in S
    BY DEF Chosen
  <1>2. Cardinality(S) \in Nat /\ Cardinality(S) # 0
    BY FS_CardinalityType, FS_EmptySet
  <1> QED
    BY <1>1, <1>2, FS_RemoveElement

LEMMA SummingExists ==
  ASSUME NEW f, NEW S, IsFiniteSet(S)
  PROVE  \E g : Summing(f, S, g)
  <1> DEFINE Upto(n, g) == \A s \in SUBSET S :
                             Cardinality(s) <= n => g[s] = Summand(f, g, s)
             T == {n \in Nat : \E g : Upto(n, g)}
  <1>1. \A s \in SUBSET S : IsFiniteSet(s) /\ Cardinality(s) \in Nat
                              /\ Cardinality(s) <= Cardinality(S)
    BY FS_Subset, FS_CardinalityType
  <1>2. 0 \in T
    <2> DEFINE g == [s \in SUBSET S |-> 0]
    <2>1. \A s \in SUBSET S : Cardinality(s) <= 0 => s = {}
      BY <1>1, FS_EmptySet
    <2>2. Upto(0, g)
      BY <2>1 DEF Summand
    <2> QED
      BY <2>2
  <1>3. ASSUME NEW n \in T PROVE n + 1 \in T
    <2>1. PICK g : Upto(n, g)
      OBVIOUS
    <2> DEFINE h == [s \in SUBSET S |-> Summand(f, g, s)]
    <2>2. n \in Nat
      OBVIOUS
    <2>3. ASSUME NEW s \in SUBSET S, Cardinality(s) <= n + 1
          PROVE  h[s] = Summand(f, h, s)
      <3>1. CASE s = {}
        BY <3>1 DEF Summand
      <3>2. CASE s # {}
        <4> DEFINE r == s \ {Chosen(s)}
        <4>1. r \in SUBSET S /\ Cardinality(r) <= n
          BY <1>1, <2>2, <2>3, <3>2, Smaller
        <4>2. g[r] = Summand(f, g, r) /\ h[r] = Summand(f, g, r)
          BY <2>1, <4>1
        <4> HIDE DEF h
        <4>3. Summand(f, h, s) = Summand(f, g, s)
          BY <3>2, <4>2 DEF Summand
        <4> QED
          BY <4>3 DEF h
      <3> QED
        BY <3>1, <3>2
    <2> HIDE DEF h
    <2>4. Upto(n+1, h)
      BY <2>3
    <2> QED
      BY <2>2, <2>4
  <1>4. T \subseteq Nat
    OBVIOUS
  <1>5. Cardinality(S) \in T
    <2> HIDE DEF T
    <2> QED
      BY <1>1, <1>2, <1>3, <1>4, SetInduction
  <1>6. PICK g : Upto(Cardinality(S), g)
    BY <1>5
  <1> DEFINE h == [s \in SUBSET S |-> g[s]]
  <1>7. \A s \in SUBSET S : g[s] = Summand(f, g, s)
    BY <1>1, <1>6
  <1>8. \A s \in SUBSET S : Summand(f, h, s) = Summand(f, g, s)
    <2>1. \A s \in SUBSET S : s # {} => s \ {Chosen(s)} \in SUBSET S
      OBVIOUS
    <2> QED
      BY <2>1 DEF Summand
  <1>9. h = [s \in SUBSET S |-> Summand(f, h, s)]
    BY <1>7, <1>8
  <1> HIDE DEF h
  <1> QED
    BY <1>9 DEF Summing

LEMMA SumTaken ==
  ASSUME NEW f, NEW S, IsFiniteSet(S)
  PROVE  \E g : Summing(f, S, g) /\ SumFunctionOnSet(f, S) = g[S]
  <1> DEFINE g == CHOOSE iter : Summing(f, S, iter)
  <1>1. Summing(f, S, g)
    BY SummingExists
  <1>2. SumFunctionOnSet(f, S) = g[S]
    BY DEF SumFunctionOnSet, FoldFunctionOnSet, MapThenFoldSet, Summing, Summand, Chosen
  <1> QED
    BY <1>1, <1>2

LEMMA SumsAgree ==
  ASSUME NEW f, NEW S, IsFiniteSet(S), NEW g, Summing(f, S, g), NEW R \in SUBSET S
  PROVE  SumFunctionOnSet(f, R) = g[R]
  <1>1. IsFiniteSet(R)
    BY FS_Subset
  <1>2. PICK h : Summing(f, R, h) /\ SumFunctionOnSet(f, R) = h[R]
    BY <1>1, SumTaken
  <1> DEFINE T == {n \in Nat : \A s \in SUBSET R : Cardinality(s) = n => h[s] = g[s]}
  <1>3. \A s \in SUBSET R : /\ IsFiniteSet(s) /\ Cardinality(s) \in Nat
                            /\ h[s] = Summand(f, h, s)
                            /\ g[s] = Summand(f, g, s)
    <2>1. \A s \in SUBSET R : IsFiniteSet(s) /\ Cardinality(s) \in Nat
      BY <1>1, FS_Subset, FS_CardinalityType
    <2>2. \A s \in SUBSET R : h[s] = Summand(f, h, s)
      BY <1>2 DEF Summing
    <2>3. \A s \in SUBSET R : g[s] = Summand(f, g, s)
      BY DEF Summing
    <2> QED
      BY <2>1, <2>2, <2>3
  <1>4. 0 \in T
    <2>1. \A s \in SUBSET R : Cardinality(s) = 0 => s = {}
      BY <1>3, FS_EmptySet
    <2> QED
      BY <1>3, <2>1 DEF Summand
  <1>5. ASSUME NEW n \in T PROVE n + 1 \in T
    <2>1. ASSUME NEW s \in SUBSET R, Cardinality(s) = n + 1 PROVE h[s] = g[s]
      <3>1. s # {}
        <4>1. n \in Nat
          OBVIOUS
        <4>2. n + 1 # 0 /\ Cardinality({}) = 0
          BY <4>1, FS_EmptySet
        <4> QED
          BY <2>1, <4>2, Zenon
      <3> DEFINE r == s \ {Chosen(s)}
      <3>2. r \in SUBSET R /\ Cardinality(r) = n
        BY <1>3, <2>1, <3>1, Smaller
      <3>3. h[r] = g[r]
        BY <3>2
      <3> QED
        BY <1>3, <3>1, <3>3 DEF Summand
    <2> QED
      BY <2>1
  <1>6. T \subseteq Nat
    OBVIOUS
  <1>7. Cardinality(R) \in T
    <2> HIDE DEF T
    <2> QED
      BY <1>3, <1>4, <1>5, <1>6, SetInduction
  <1> QED
    BY <1>2, <1>7

LEMMA SumOfNone == \A f : SumFunctionOnSet(f, {}) = 0
  BY DEF SumFunctionOnSet, FoldFunctionOnSet, MapThenFoldSet

LEMMA SumUnfolds ==
  ASSUME NEW f, NEW S, IsFiniteSet(S), S # {}
  PROVE  SumFunctionOnSet(f, S)
           = f[Chosen(S)] + SumFunctionOnSet(f, S \ {Chosen(S)})
  <1>1. PICK g : Summing(f, S, g) /\ SumFunctionOnSet(f, S) = g[S]
    BY SumTaken
  <1>2. g[S] = Summand(f, g, S)
    BY <1>1 DEF Summing
  <1>3. SumFunctionOnSet(f, S \ {Chosen(S)}) = g[S \ {Chosen(S)}]
    BY <1>1, SumsAgree
  <1> QED
    BY <1>1, <1>2, <1>3 DEF Summand

LEMMA SumIsNat ==
  ASSUME NEW f, NEW S, IsFiniteSet(S), \A x \in S : f[x] \in Nat
  PROVE  SumFunctionOnSet(f, S) \in Nat
  <1> DEFINE T == {n \in Nat : \A s \in SUBSET S :
                     Cardinality(s) = n => SumFunctionOnSet(f, s) \in Nat}
  <1>1. \A s \in SUBSET S : IsFiniteSet(s) /\ Cardinality(s) \in Nat
    BY FS_Subset, FS_CardinalityType
  <1>2. 0 \in T
    <2>1. \A s \in SUBSET S : Cardinality(s) = 0 => s = {}
      BY <1>1, FS_EmptySet
    <2> QED
      BY <2>1, SumOfNone
  <1>3. ASSUME NEW n \in T PROVE n + 1 \in T
    <2>1. ASSUME NEW s \in SUBSET S, Cardinality(s) = n + 1
          PROVE  SumFunctionOnSet(f, s) \in Nat
      <3>1. s # {}
        BY <2>1, FS_EmptySet
      <3> DEFINE r == s \ {Chosen(s)}
      <3>2. r \in SUBSET S /\ Cardinality(r) = n /\ Chosen(s) \in S
        BY <1>1, <2>1, <3>1, Smaller
      <3>3. SumFunctionOnSet(f, r) \in Nat /\ f[Chosen(s)] \in Nat
        BY <3>2
      <3> QED
        BY <1>1, <3>1, <3>3, SumUnfolds
    <2> QED
      BY <2>1
  <1>4. T \subseteq Nat
    OBVIOUS
  <1>5. Cardinality(S) \in T
    <2> HIDE DEF T
    <2> QED
      BY <1>1, <1>2, <1>3, <1>4, SetInduction
  <1> QED
    BY <1>5

(* Whichever summand is taken out first, the sum is the same. *)
LEMMA SumRemoves ==
  ASSUME NEW f, NEW S, IsFiniteSet(S), \A x \in S : f[x] \in Nat
  PROVE  \A x \in S : SumFunctionOnSet(f, S) = f[x] + SumFunctionOnSet(f, S \ {x})
  <1> DEFINE T == {n \in Nat : \A s \in SUBSET S : Cardinality(s) = n =>
                     \A x \in s : SumFunctionOnSet(f, s)
                                    = f[x] + SumFunctionOnSet(f, s \ {x})}
  <1>1. \A s \in SUBSET S : /\ IsFiniteSet(s) /\ Cardinality(s) \in Nat
                            /\ SumFunctionOnSet(f, s) \in Nat
    BY FS_Subset, FS_CardinalityType, SumIsNat
  <1>2. 0 \in T
    <2>1. \A s \in SUBSET S : Cardinality(s) = 0 => s = {}
      BY <1>1, FS_EmptySet
    <2> QED
      BY <2>1
  <1>3. ASSUME NEW n \in T PROVE n + 1 \in T
    <2>1. ASSUME NEW s \in SUBSET S, Cardinality(s) = n + 1, NEW x \in s
          PROVE  SumFunctionOnSet(f, s) = f[x] + SumFunctionOnSet(f, s \ {x})
      <3> DEFINE c == Chosen(s)
                 Total(r) == SumFunctionOnSet(f, r)
      <3>1. /\ c \in s
            /\ Cardinality(s \ {c}) = n /\ Cardinality(s \ {x}) = n
            /\ Total(s) = f[c] + Total(s \ {c})
        BY <1>1, <2>1, Smaller, SumUnfolds
      <3>2. CASE x = c
        BY <3>1, <3>2
      <3>3. CASE x # c
        <4>1. x \in s \ {c} /\ c \in s \ {x} /\ s \ {c} \in SUBSET S /\ s \ {x} \in SUBSET S
          BY <3>1, <3>3
        <4>2. Total(s \ {c}) = f[x] + Total((s \ {c}) \ {x})
          BY <3>1, <4>1
        <4>3. Total(s \ {x}) = f[c] + Total((s \ {x}) \ {c})
          BY <3>1, <4>1
        <4>4. (s \ {c}) \ {x} = (s \ {x}) \ {c} /\ (s \ {c}) \ {x} \in SUBSET S
          OBVIOUS
        <4>5. f[x] \in Nat /\ f[c] \in Nat /\ Total((s \ {c}) \ {x}) \in Nat
          BY <1>1, <3>1, <4>4
        <4>6. \A i, j, k \in Nat : i + (j + k) = j + (i + k)
          OBVIOUS
        <4> DEFINE rest == Total((s \ {c}) \ {x})
        <4> HIDE DEF T, c, Total
        <4>7. Total(s) = f[c] + (f[x] + rest)
          BY <3>1, <4>2, Zenon
        <4>8. f[x] + Total(s \ {x}) = f[x] + (f[c] + rest)
          BY <4>3, <4>4, Zenon
        <4>9. f[c] + (f[x] + rest) = f[x] + (f[c] + rest)
          BY <4>5, <4>6, Zenon
        <4>10. Total(s) = f[x] + Total(s \ {x})
          BY <4>7, <4>8, <4>9, Zenon
        <4> QED
          BY <4>10 DEF Total
      <3> QED
        BY <3>2, <3>3
    <2> QED
      BY <2>1
  <1>4. T \subseteq Nat
    OBVIOUS
  <1>5. Cardinality(S) \in T
    <2> HIDE DEF T
    <2> QED
      BY <1>1, <1>2, <1>3, <1>4, SetInduction
  <1> QED
    BY <1>5

LEMMA SumsEqual ==
  ASSUME NEW f, NEW g, NEW S, IsFiniteSet(S), \A x \in S : f[x] = g[x]
  PROVE  SumFunctionOnSet(f, S) = SumFunctionOnSet(g, S)
  <1> DEFINE T == {n \in Nat : \A s \in SUBSET S : Cardinality(s) = n =>
                     SumFunctionOnSet(f, s) = SumFunctionOnSet(g, s)}
  <1>1. \A s \in SUBSET S : IsFiniteSet(s) /\ Cardinality(s) \in Nat
    BY FS_Subset, FS_CardinalityType
  <1>2. 0 \in T
    <2>1. \A s \in SUBSET S : Cardinality(s) = 0 => s = {}
      BY <1>1, FS_EmptySet
    <2> QED
      BY <2>1, SumOfNone
  <1>3. ASSUME NEW n \in T PROVE n + 1 \in T
    <2>1. ASSUME NEW s \in SUBSET S, Cardinality(s) = n + 1
          PROVE  SumFunctionOnSet(f, s) = SumFunctionOnSet(g, s)
      <3>1. s # {}
        BY <2>1, FS_EmptySet
      <3> DEFINE r == s \ {Chosen(s)}
      <3>2. r \in SUBSET S /\ Cardinality(r) = n /\ Chosen(s) \in S
        BY <1>1, <2>1, <3>1, Smaller
      <3>3. SumFunctionOnSet(f, r) = SumFunctionOnSet(g, r) /\ f[Chosen(s)] = g[Chosen(s)]
        BY <3>2
      <3>4. /\ SumFunctionOnSet(f, s) = f[Chosen(s)] + SumFunctionOnSet(f, r)
            /\ SumFunctionOnSet(g, s) = g[Chosen(s)] + SumFunctionOnSet(g, r)
        BY <1>1, <3>1, SumUnfolds
      <3> QED
        BY <3>3, <3>4
    <2> QED
      BY <2>1
  <1>4. T \subseteq Nat
    OBVIOUS
  <1>5. Cardinality(S) \in T
    <2> HIDE DEF T
    <2> QED
      BY <1>1, <1>2, <1>3, <1>4, SetInduction
  <1> QED
    BY <1>5

-----------------------------------------------------------------------------
(* Bags with finitely many elements, and what they weigh.                  *)

BagsOver(S) ==
  {B \in UNION {[D -> Nat \ {0}] : D \in SUBSET S} : IsFiniteSet(DOMAIN B)}

LEMMA BagShape ==
  ASSUME NEW S, NEW B \in BagsOver(S)
  PROVE  /\ DOMAIN B \subseteq S /\ IsFiniteSet(DOMAIN B)
         /\ B \in [DOMAIN B -> Nat \ {0}]
  BY DEF BagsOver

LEMMA BagMade ==
  ASSUME NEW S, NEW D \in SUBSET S, IsFiniteSet(D), NEW B \in [D -> Nat \ {0}]
  PROVE  B \in BagsOver(S)
  BY DEF BagsOver

LEMMA EmptyOnly ==
  ASSUME NEW S
  PROVE  /\ EmptyBag \in BagsOver(S) /\ DOMAIN EmptyBag = {}
         /\ \A B \in BagsOver(S) : DOMAIN B = {} => B = EmptyBag
  <1>1. DOMAIN EmptyBag = {} /\ EmptyBag \in [{} -> Nat \ {0}]
    BY DEF EmptyBag, SetToBag
  <1>2. EmptyBag \in BagsOver(S)
    BY <1>1, FS_EmptySet, BagMade
  <1>3. ASSUME NEW B \in BagsOver(S), DOMAIN B = {} PROVE B = EmptyBag
    <2>1. B \in [{} -> Nat \ {0}]
      BY <1>3, BagShape
    <2> QED
      BY <1>1, <2>1
  <1> QED
    BY <1>1, <1>2, <1>3

(* One more, or one less, of an element and as many of the others. *)
OneMore(N, B, x) ==
  /\ DOMAIN N = DOMAIN B \cup {x}
  /\ N[x] = CopiesOf(x, B) + 1
  /\ \A y \in DOMAIN B : y # x => N[y] = B[y]

OneLess(N, B, x) ==
  /\ DOMAIN N = (IF CopiesOf(x, B) = 1 THEN DOMAIN B \ {x} ELSE DOMAIN B)
  /\ CopiesOf(x, B) > 1 => N[x] = B[x] - 1
  /\ \A y \in DOMAIN B : y # x => N[y] = B[y]

LEMMA AddedOne ==
  ASSUME NEW S, NEW B \in BagsOver(S), NEW x \in S
  PROVE  With(B, x) \in BagsOver(S) /\ OneMore(With(B, x), B, x)
  <1> DEFINE N == With(B, x)
  <1>1. DOMAIN B \subseteq S /\ IsFiniteSet(DOMAIN B) /\ B \in [DOMAIN B -> Nat \ {0}]
    BY BagShape
  <1>2. /\ DOMAIN N = DOMAIN B \cup {x}
        /\ N = [y \in DOMAIN B \cup {x} |->
                  (IF y \in DOMAIN B THEN B[y] ELSE 0) + (IF y \in {x} THEN 1 ELSE 0)]
    BY DEF With, SetToBag, (+)
  <1>3. CopiesOf(x, B) = (IF x \in DOMAIN B THEN B[x] ELSE 0) /\ CopiesOf(x, B) \in Nat
    BY <1>1 DEF CopiesOf, BagIn, BagToSet
  <1>4. N[x] = CopiesOf(x, B) + 1
    BY <1>2, <1>3
  <1>5. \A y \in DOMAIN B : y # x => N[y] = B[y]
    BY <1>1, <1>2
  <1>6. \A y \in DOMAIN B \cup {x} : N[y] \in Nat \ {0}
    BY <1>1, <1>3, <1>4, <1>5
  <1>7. N \in [DOMAIN B \cup {x} -> Nat \ {0}]
    BY <1>2, <1>6
  <1>8. IsFiniteSet(DOMAIN B \cup {x})
    BY <1>1, FS_AddElement
  <1>9. N \in BagsOver(S)
    BY <1>1, <1>7, <1>8, BagMade
  <1> QED
    BY <1>2, <1>4, <1>5, <1>9 DEF OneMore

LEMMA RemovedOne ==
  ASSUME NEW S, NEW B \in BagsOver(S), NEW x
  PROVE  Without(B, x) \in BagsOver(S) /\ OneLess(Without(B, x), B, x)
  <1> DEFINE N == Without(B, x)
             Kept == {y \in DOMAIN B : (IF y \in {x} THEN B[y] - 1 ELSE B[y]) > 0}
  <1>1. DOMAIN B \subseteq S /\ IsFiniteSet(DOMAIN B) /\ B \in [DOMAIN B -> Nat \ {0}]
    BY BagShape
  <1>2. \A y \in DOMAIN B : B[y] \in Nat /\ B[y] > 0
    BY <1>1
  <1>3. /\ DOMAIN N = Kept
        /\ N = [y \in Kept |-> IF y \in {x} THEN B[y] - 1 ELSE B[y]]
    <2> DEFINE L == [y \in DOMAIN B |-> IF y \in DOMAIN SetToBag({x}) THEN B[y] - SetToBag({x})[y] ELSE B[y]]
    <2>1. DOMAIN SetToBag({x}) = {x} /\ SetToBag({x})[x] = 1
      BY DEF SetToBag
    <2>2. N = [y \in {d \in DOMAIN L : L[d] > 0} |-> L[y]]
      BY DEF Without, (-)
    <2>3. L = [y \in DOMAIN B |-> IF y \in {x} THEN B[y] - 1 ELSE B[y]]
      BY <2>1
    <2>4. {d \in DOMAIN L : L[d] > 0} = Kept
      BY <2>3
    <2> QED
      BY <2>2, <2>3, <2>4
  <1>4. CopiesOf(x, B) = (IF x \in DOMAIN B THEN B[x] ELSE 0) /\ CopiesOf(x, B) \in Nat
    BY <1>1 DEF CopiesOf, BagIn, BagToSet
  <1>5. Kept = (IF CopiesOf(x, B) = 1 THEN DOMAIN B \ {x} ELSE DOMAIN B)
    BY <1>2, <1>4
  <1>6. \A y \in DOMAIN B : y # x => y \in Kept /\ N[y] = B[y]
    BY <1>2, <1>3
  <1>7. CopiesOf(x, B) > 1 => N[x] = B[x] - 1
    BY <1>2, <1>3, <1>4
  <1>8. \A y \in Kept : N[y] \in Nat \ {0}
    BY <1>2, <1>3
  <1>9. N \in [Kept -> Nat \ {0}]
    BY <1>3, <1>8
  <1>10. IsFiniteSet(Kept)
    BY <1>1, FS_Subset
  <1>11. N \in BagsOver(S)
    BY <1>1, <1>9, <1>10, BagMade
  <1> QED
    BY <1>3, <1>5, <1>6, <1>7, <1>11 DEF OneLess

(* Taking out and putting back. *)
LEMMA PutBack ==
  ASSUME NEW S, NEW B \in BagsOver(S), NEW x \in DOMAIN B
  PROVE  With(Without(B, x), x) = B
  <1> DEFINE N == Without(B, x)
             M == With(N, x)
  <1>1. DOMAIN B \subseteq S /\ B \in [DOMAIN B -> Nat \ {0}]
    BY BagShape
  <1>2. CopiesOf(x, B) = B[x] /\ B[x] \in Nat /\ B[x] > 0
    BY <1>1 DEF CopiesOf, BagIn, BagToSet
  <1>3. N \in BagsOver(S) /\ OneLess(N, B, x)
    BY RemovedOne
  <1>4. x \in S
    BY <1>1
  <1> HIDE DEF N
  <1>5. M \in BagsOver(S) /\ OneMore(M, N, x)
    BY <1>3, <1>4, AddedOne
  <1>6. CopiesOf(x, N) = B[x] - 1
    BY <1>2, <1>3 DEF OneLess, CopiesOf, BagIn, BagToSet
  <1> HIDE DEF M
  <1>7. M[x] = B[x]
    BY <1>2, <1>5, <1>6 DEF OneMore
  <1>8. DOMAIN M = DOMAIN B
    BY <1>3, <1>5 DEF OneMore, OneLess
  <1>9. \A y \in DOMAIN B : y # x => M[y] = B[y]
    BY <1>3, <1>5 DEF OneMore, OneLess
  <1>10. M \in [DOMAIN B -> Nat \ {0}]
    BY <1>5, <1>8, BagShape
  <1>11. M = B
    BY <1>1, <1>7, <1>9, <1>10
  <1> QED
    BY <1>11 DEF M, N

-----------------------------------------------------------------------------

LEMMA WeighsNat ==
  ASSUME NEW S, NEW w \in [S -> Nat], NEW B \in BagsOver(S)
  PROVE  Weigh(B, w) \in Nat
  <1> DEFINE f == [x \in DOMAIN B |-> B[x] * w[x]]
  <1>1. DOMAIN B \subseteq S /\ IsFiniteSet(DOMAIN B) /\ B \in [DOMAIN B -> Nat \ {0}]
    BY BagShape
  <1>2. \A x \in DOMAIN B : B[x] \in Nat /\ w[x] \in Nat
    BY <1>1
  <1>3. \A i, j \in Nat : i * j \in Nat
    OBVIOUS
  <1>4. \A x \in DOMAIN B : f[x] \in Nat
    BY <1>2, <1>3
  <1>5. Weigh(B, w) = SumFunctionOnSet(f, DOMAIN B)
    BY DEF Weigh, SumFunction
  <1> HIDE DEF f
  <1> QED
    BY <1>1, <1>4, <1>5, SumIsNat

LEMMA EmptyWeighsNothing ==
  \A w : Weigh(EmptyBag, w) = 0
  <1>1. DOMAIN EmptyBag = {}
    BY DEF EmptyBag, SetToBag
  <1> QED
    BY <1>1, SumOfNone DEF Weigh, SumFunction

LEMMA WeighsMore ==
  ASSUME NEW S, NEW w \in [S -> Nat], NEW B \in BagsOver(S), NEW x \in S
  PROVE  Weigh(With(B, x), w) = Weigh(B, w) + w[x]
  <1>0. With(B, x) \in BagsOver(S) /\ OneMore(With(B, x), B, x)
    BY AddedOne
  <1> DEFINE D == DOMAIN B
             N == With(B, x)
             f == [y \in D |-> B[y] * w[y]]
             g == [y \in D \cup {x} |-> N[y] * w[y]]
             Rest == SumFunctionOnSet(f, D \ {x})
  <1>1. D \subseteq S /\ IsFiniteSet(D) /\ B \in [D -> Nat \ {0}]
    BY BagShape
  <1>2. /\ N \in BagsOver(S)
        /\ DOMAIN N = D \cup {x}
        /\ N[x] = CopiesOf(x, B) + 1
        /\ \A y \in D : y # x => N[y] = B[y]
    BY <1>0 DEF OneMore
  <1> HIDE DEF N
  <1>3. IsFiniteSet(D \cup {x}) /\ N \in [D \cup {x} -> Nat \ {0}]
    BY <1>2, BagShape
  <1>4. \A i, j \in Nat : i * j \in Nat /\ (i + 1) * j = i * j + j
    OBVIOUS
  <1>5. \A y \in D : f[y] \in Nat
    BY <1>1, <1>4
  <1>6. \A y \in D \cup {x} : g[y] \in Nat
    BY <1>1, <1>3, <1>4
  <1>7. SumFunctionOnSet(g, D \cup {x}) = g[x] + SumFunctionOnSet(g, (D \cup {x}) \ {x})
    <2> HIDE DEF g
    <2> QED
      BY <1>3, <1>6, SumRemoves
  <1>8. SumFunctionOnSet(g, (D \cup {x}) \ {x}) = Rest
    <2>1. (D \cup {x}) \ {x} = D \ {x}
      OBVIOUS
    <2>2. \A y \in D \ {x} : g[y] = f[y]
      BY <1>2
    <2>3. IsFiniteSet(D \ {x})
      BY <1>1, FS_Subset
    <2> HIDE DEF f, g
    <2> QED
      BY <2>1, <2>2, <2>3, SumsEqual
  <1>9. /\ Rest \in Nat /\ w[x] \in Nat
    <2>1. IsFiniteSet(D \ {x}) /\ \A y \in D \ {x} : f[y] \in Nat
      BY <1>1, <1>5, FS_Subset
    <2> HIDE DEF f
    <2> QED
      BY <2>1, SumIsNat
  <1>10. SumFunctionOnSet(g, D \cup {x}) = SumFunctionOnSet(f, D) + w[x]
    <2>1. CASE x \in D
      <3>1. SumFunctionOnSet(f, D) = f[x] + Rest
        <4> HIDE DEF f
        <4> QED
          BY <1>1, <1>5, <2>1, SumRemoves
      <3>2. N[x] = B[x] + 1 /\ B[x] \in Nat
        BY <1>1, <1>2, <2>1 DEF CopiesOf, BagIn, BagToSet
      <3>3. g[x] = f[x] + w[x]
        BY <1>4, <1>9, <2>1, <3>2
      <3>4. f[x] \in Nat
        BY <1>5, <2>1
      <3> HIDE DEF f, g, Rest
      <3> QED
        BY <1>7, <1>8, <1>9, <3>1, <3>3, <3>4
    <2>2. CASE x \notin D
      <3>1. D \ {x} = D
        BY <2>2
      <3>2. N[x] = 1
        BY <1>2, <2>2 DEF CopiesOf, BagIn, BagToSet
      <3>3. g[x] = w[x]
        BY <1>9, <3>2
      <3>4. Rest = SumFunctionOnSet(f, D)
        BY <3>1
      <3> HIDE DEF f, g, Rest
      <3> QED
        BY <1>7, <1>8, <1>9, <3>3, <3>4
    <2> QED
      BY <2>1, <2>2
  <1>11. Weigh(B, w) = SumFunctionOnSet(f, D)
    BY DEF Weigh, SumFunction
  <1>12. Weigh(N, w) = SumFunctionOnSet(g, D \cup {x})
    BY <1>2 DEF Weigh, SumFunction
  <1> QED
    BY <1>10, <1>11, <1>12 DEF N

LEMMA WeighsLess ==
  ASSUME NEW S, NEW w \in [S -> Nat], NEW B \in BagsOver(S), NEW x \in DOMAIN B
  PROVE  /\ Weigh(Without(B, x), w) \in Nat
         /\ Weigh(B, w) = Weigh(Without(B, x), w) + w[x]
  <1> DEFINE N == Without(B, x)
  <1>1. N \in BagsOver(S)
    BY RemovedOne
  <1>2. x \in S
    BY BagShape
  <1>3. With(N, x) = B
    BY PutBack
  <1> HIDE DEF N
  <1>4. Weigh(B, w) = Weigh(N, w) + w[x] /\ Weigh(N, w) \in Nat
    BY <1>1, <1>2, <1>3, WeighsMore, WeighsNat
  <1> QED
    BY <1>4 DEF N

(* Only the weights of its elements tell. *)
LEMMA WeighsBy ==
  ASSUME NEW B, NEW v, NEW w, \A x \in DOMAIN B : v[x] = w[x]
  PROVE  Weigh(B, v) = Weigh(B, w)
  <1>1. [x \in DOMAIN B |-> B[x] * v[x]] = [x \in DOMAIN B |-> B[x] * w[x]]
    OBVIOUS
  <1> QED
    BY <1>1 DEF Weigh

-----------------------------------------------------------------------------
(* Powers of two, and the sizes made of them.                              *)

LEMMA UnrolledAgree ==
  ASSUME NEW x, NEW G, NEW N \in Nat, NEW M \in Nat, N <= M,
         NEW f, Unrolled(x, N, G, f), NEW h, Unrolled(x, M, G, h)
  PROVE  \A n \in 0 .. N : f[n] = h[n]
  <1> DEFINE T == {n \in Nat : n <= N => f[n] = h[n]}
  <1>1. 0 \in T
    BY DEF Unrolled
  <1>2. ASSUME NEW n \in T PROVE n + 1 \in T
    <2>1. n \in Nat /\ n + 1 \in Nat /\ (n + 1) - 1 = n
      OBVIOUS
    <2>2. ASSUME n + 1 <= N PROVE f[n+1] = h[n+1]
      <3>1. n + 1 \in 1 .. N /\ n + 1 \in 1 .. M /\ n <= N
        BY <2>1, <2>2
      <3>2. f[n] = h[n]
        BY <3>1
      <3>3. f[n+1] = G[<<n+1, f[(n+1)-1]>>] /\ h[n+1] = G[<<n+1, h[(n+1)-1]>>]
        BY <3>1 DEF Unrolled
      <3> QED
        BY <2>1, <3>2, <3>3
    <2> QED
      BY <2>1, <2>2
  <1>3. T \subseteq Nat
    OBVIOUS
  <1> HIDE DEF T
  <1>4. T = Nat
    BY <1>1, <1>2, <1>3, SetInduction
  <1> QED
    BY <1>4 DEF T

Recursive(x, G, f) ==
  /\ f[0] = x
  /\ \A n \in Nat \ {0} : f[n] = G[<<n, f[n-1]>>]

LEMMA Recursion ==
  ASSUME NEW X, NEW x \in X, NEW G \in [Nat \X X -> X]
  PROVE  \E f \in [Nat -> X] : Recursive(x, G, f)
  <1> DEFINE Upto(N) == CHOOSE f \in [0 .. N -> X] : Unrolled(x, N, G, f)
             h == [n \in Nat |-> Upto(n)[n]]
  <1>1. \A N \in Nat : Upto(N) \in [0 .. N -> X] /\ Unrolled(x, N, G, Upto(N))
    BY RecursionTo
  <1> HIDE DEF Upto
  <1>2. h \in [Nat -> X]
    <2>1. \A n \in Nat : n \in 0 .. n
      OBVIOUS
    <2>2. \A n \in Nat : Upto(n)[n] \in X
      BY <1>1, <2>1
    <2> QED
      BY <2>2
  <1>3. h[0] = x
    <2>1. 0 \in Nat
      OBVIOUS
    <2>2. Upto(0)[0] = x
      BY <1>1, <2>1 DEF Unrolled
    <2> QED
      BY <2>2
  <1>4. ASSUME NEW n \in Nat \ {0} PROVE h[n] = G[<<n, h[n-1]>>]
    <2>1. n \in Nat /\ n - 1 \in Nat /\ n - 1 <= n /\ n \in 1 .. n /\ n - 1 \in 0 .. n - 1
      OBVIOUS
    <2>2. Upto(n)[n] = G[<<n, Upto(n)[n-1]>>]
      BY <1>1, <2>1 DEF Unrolled
    <2>3. Upto(n-1)[n-1] = Upto(n)[n-1]
      <3>1. Unrolled(x, n-1, G, Upto(n-1)) /\ Unrolled(x, n, G, Upto(n))
        BY <1>1, <2>1
      <3>2. \A i \in 0 .. n-1 : Upto(n-1)[i] = Upto(n)[i]
        BY <2>1, <3>1, UnrolledAgree
      <3> QED
        BY <2>1, <3>2
    <2>4. h[n] = Upto(n)[n] /\ h[n-1] = Upto(n-1)[n-1]
      BY <2>1
    <2> HIDE DEF h
    <2> QED
      BY <2>2, <2>3, <2>4
  <1> HIDE DEF h
  <1> QED
    BY <1>2, <1>3, <1>4 DEF Recursive

LEMMA Powers ==
  /\ Pow2[0] = 1
  /\ \A n \in Nat : Pow2[n] \in Nat \ {0} /\ Pow2[n+1] = 2 * Pow2[n]
  <1> DEFINE G == [p \in Nat \X Nat |-> 2 * p[2]]
  <1>1. G \in [Nat \X Nat -> Nat] /\ 1 \in Nat
    OBVIOUS
  <1>2. PICK f \in [Nat -> Nat] : Recursive(1, G, f)
    <2> HIDE DEF G
    <2> QED
      BY <1>1, Recursion
  <1>3. \A n \in Nat \ {0} : f[n] = 2 * f[n-1]
    <2>1. \A n \in Nat \ {0} : <<n, f[n-1]>> \in Nat \X Nat
      OBVIOUS
    <2>2. \A n \in Nat \ {0} : G[<<n, f[n-1]>>] = 2 * f[n-1]
      BY <2>1
    <2> HIDE DEF G
    <2> QED
      BY <1>2, <2>2 DEF Recursive
  <1>4. f = [n \in Nat |-> IF n = 0 THEN 1 ELSE 2 * f[n-1]]
    <2> HIDE DEF G
    <2> QED
      BY <1>2, <1>3 DEF Recursive
  <1>5. Pow2 = [n \in Nat |-> IF n = 0 THEN 1 ELSE 2 * Pow2[n-1]]
    BY <1>4 DEF Pow2
  <1>6. Pow2[0] = 1
    BY <1>5
  <1>7. \A n \in Nat : Pow2[n+1] = 2 * Pow2[n]
    <2>1. \A n \in Nat : n + 1 \in Nat /\ n + 1 # 0 /\ (n + 1) - 1 = n
      OBVIOUS
    <2>2. \A n \in Nat : Pow2[n+1] = 2 * Pow2[(n+1)-1]
      BY <1>5, <2>1
    <2> QED
      BY <2>1, <2>2
  <1> DEFINE T == {n \in Nat : Pow2[n] \in Nat \ {0}}
  <1>8. T = Nat
    <2>1. 0 \in T
      BY <1>6
    <2>2. \A n \in T : n + 1 \in T
      BY <1>7
    <2>3. T \subseteq Nat
      OBVIOUS
    <2> HIDE DEF T
    <2> QED
      BY <2>1, <2>2, <2>3, SetInduction
  <1>9. \A n \in Nat : Pow2[n] \in Nat \ {0}
    BY <1>8, Zenon
  <1> HIDE DEF T
  <1> QED
    BY <1>6, <1>7, <1>9

LEMMA PowersGrow ==
  /\ \A n \in Nat : n <= Pow2[n]
  /\ \A m, n \in Nat : m <= n => Pow2[m] <= Pow2[n]
  <1>1. \A n \in Nat : n <= Pow2[n]
    <2> DEFINE T == {n \in Nat : n + 1 <= Pow2[n]}
    <2>1. 0 \in T /\ T \subseteq Nat
      BY Powers
    <2>2. ASSUME NEW n \in T PROVE n + 1 \in T
      <3>1. n \in Nat /\ n + 1 <= Pow2[n]
        OBVIOUS
      <3>2. Pow2[n] \in Nat /\ Pow2[n+1] = 2 * Pow2[n]
        BY <3>1, Powers
      <3> QED
        BY <3>1, <3>2
    <2> HIDE DEF T
    <2>3. T = Nat
      BY <2>1, <2>2, SetInduction
    <2>4. \A n \in Nat : n + 1 <= Pow2[n] /\ Pow2[n] \in Nat
      BY <2>3, Powers DEF T
    <2> QED
      BY <2>4
  <1>2. ASSUME NEW m \in Nat PROVE \A n \in Nat : m <= n => Pow2[m] <= Pow2[n]
    <2> DEFINE T == {n \in Nat : m <= n => Pow2[m] <= Pow2[n]}
    <2>1. 0 \in T /\ T \subseteq Nat
      BY Powers
    <2>2. ASSUME NEW n \in T PROVE n + 1 \in T
      <3>1. /\ n \in Nat /\ n + 1 \in Nat /\ Pow2[n] \in Nat /\ Pow2[m] \in Nat
            /\ Pow2[n+1] = 2 * Pow2[n] /\ Pow2[n+1] \in Nat
        BY Powers
      <3>2. m <= n => Pow2[m] <= Pow2[n]
        OBVIOUS
      <3>3. m <= n + 1 => m <= n \/ m = n + 1
        BY <3>1
      <3>4. m <= n + 1 => Pow2[m] <= Pow2[n+1]
        BY <3>1, <3>2, <3>3
      <3> QED
        BY <3>1, <3>4
    <2> HIDE DEF T
    <2>3. T = Nat
      BY <2>1, <2>2, SetInduction
    <2> QED
      BY <2>3 DEF T
  <1> QED
    BY <1>1, <1>2

LEMMA ProductGrows ==
  ASSUME NEW i \in Nat \ {0}, NEW j \in Nat
  PROVE  i * j \in Nat /\ j <= i * j
  <1>1. (i - 1) * j \in Nat /\ i * j = (i - 1) * j + j
    OBVIOUS
  <1> QED
    BY <1>1

LEMMA ProductMonotone ==
  ASSUME NEW s \in Nat, NEW x \in Nat, NEW y \in Nat, x <= y
  PROVE  s * x <= s * y
  <1> DEFINE d == y - x
  <1>1. d \in Nat /\ y = x + d
    OBVIOUS
  <1>2. s * d \in Nat /\ s * y = s * x + s * d
    BY <1>1
  <1> QED
    BY <1>2

LEMMA RoundsUp ==
  ASSUME NEW x \in Nat, NEW step \in Nat \ {0}
  PROVE  RoundedUp(x, step) \in Nat /\ x <= RoundedUp(x, step)
  <1> DEFINE y == x + step - 1
             q == y \div step
  <1>1. y \in Nat
    OBVIOUS
  <1> HIDE DEF y
  <1>2. q \in Nat /\ y % step \in 0 .. step - 1
    BY <1>1
  <1>3. y = step * q + (y % step)
    BY <1>1
  <1>4. q * step \in Nat /\ q * step = step * q
    BY <1>2
  <1>5. y = x + step - 1
    BY DEF y
  <1>6. RoundedUp(x, step) = q * step
    BY DEF RoundedUp, y
  <1> HIDE DEF q
  <1> QED
    BY <1>2, <1>3, <1>4, <1>5, <1>6

(* A number above 1 lies in one octave. *)
LEMMA OctaveOf ==
  ASSUME NEW size \in Nat, 1 < size
  PROVE  \E e \in 0 .. size : Pow2[e] < size /\ size <= Pow2[e+1]
  <1> DEFINE T == {k \in Nat : size <= Pow2[k]}
             k == Min(T)
  <1>1. size \in T /\ T \subseteq Nat
    BY PowersGrow
  <1>2. k \in T /\ \A n \in T : k <= n
    <2> HIDE DEF T
    <2> QED
      BY <1>1, MinOf
  <1> HIDE DEF k
  <1>3. k \in Nat /\ size <= Pow2[k] /\ k <= size
    BY <1>1, <1>2
  <1>4. k # 0
    BY <1>3, Powers
  <1>5. k - 1 \in Nat /\ k - 1 \in 0 .. size /\ (k - 1) + 1 = k
    BY <1>3, <1>4
  <1>6. k - 1 \notin T
    BY <1>2, <1>3, <1>5
  <1>7. ~(size <= Pow2[k-1])
    BY <1>5, <1>6
  <1>8. Pow2[k-1] \in Nat
    BY <1>5, Powers
  <1>9. Pow2[k-1] < size
    BY <1>7, <1>8
  <1> QED
    BY <1>3, <1>5, <1>9

LEMMA Constants ==
  /\ Word \in Nat \ {0} /\ PerOctave \in Nat \ {0} /\ ReuseRatio \in Nat \ {0}
  /\ StagingFloor \in Nat \ {0} /\ MaxPair \in Nat \ {0}
  /\ Limit \in Nat /\ ClassFloor \in Nat /\ Margin \in Nat /\ MaxPerClass \in Nat
  /\ MaxFences \in Nat /\ MaxRetired \in Nat /\ Heap \in Nat /\ HostHeap \in Nat
  /\ Budgets \subseteq Nat /\ Requests \subseteq Nat /\ Unified \in BOOLEAN
  /\ PerOctave <= ClassFloor
  /\ \E l \in Nat : PerOctave = Pow2[l]
  <1>1. \A l \in 0 .. 16 : l \in Nat
    OBVIOUS
  <1> QED
    BY <1>1, SizeAssumption

(* A class holds its request, and is within the limit if that is. *)
LEMMA ClassHolds ==
  ASSUME NEW size \in Nat
  PROVE  /\ PoolClass(size) \in Nat /\ size <= PoolClass(size)
         /\ size <= Limit => PoolClass(size) <= Limit
  <1>1. CASE size <= ClassFloor
    BY <1>1 DEF PoolClass
  <1>2. CASE ~(size <= ClassFloor)
    <2> DEFINE e == CHOOSE e \in 0 .. size : Pow2[e] < size /\ size <= Pow2[e+1]
               step == Pow2[e] \div PerOctave
               class == RoundedUp(size, step)
    <2>1. 1 < size /\ PerOctave < size
      BY <1>2, Constants
    <2>2. e \in 0 .. size /\ Pow2[e] < size /\ size <= Pow2[e+1]
      BY <2>1, OctaveOf
    <2> HIDE DEF e
    <2>3. e \in Nat /\ Pow2[e] \in Nat /\ Pow2[e+1] \in Nat
      BY <2>2, Powers
    <2>4. PICK l \in Nat : PerOctave = Pow2[l]
      BY Constants
    <2>5. l <= e
      <3>1. SUFFICES ASSUME e + 1 <= l PROVE FALSE
        BY <2>3
      <3>2. e + 1 \in Nat
        BY <2>3
      <3>3. Pow2[e+1] <= Pow2[l]
        BY <3>1, <3>2, PowersGrow
      <3> QED
        BY <2>1, <2>2, <2>3, <2>4, <3>3, Constants
    <2>6. PerOctave <= Pow2[e]
      BY <2>3, <2>4, <2>5, PowersGrow
    <2>7. step \in Nat \ {0}
      <3> DEFINE p == Pow2[e]
      <3>1. p \in Nat /\ PerOctave \in Nat \ {0} /\ PerOctave <= p
        BY <2>3, <2>6, Constants
      <3> HIDE DEF p
      <3>2. p \div PerOctave \in Nat /\ p = PerOctave * (p \div PerOctave) + (p % PerOctave)
            /\ p % PerOctave < PerOctave
        BY <3>1
      <3>3. p \div PerOctave # 0
        BY <3>1, <3>2
      <3> QED
        BY <3>2, <3>3 DEF p
    <2> HIDE DEF step
    <2>8. class \in Nat /\ size <= class
      BY <2>7, RoundsUp
    <2>9. PoolClass(size) = IF class > Limit THEN size ELSE class
      BY <1>2 DEF PoolClass, e, step
    <2> HIDE DEF class
    <2> QED
      BY <2>8, <2>9, Constants
  <1> QED
    BY <1>1, <1>2

LEMMA StagingHolds ==
  ASSUME NEW bytes \in Nat
  PROVE  StagingClass(bytes) \in Nat \ {0} /\ bytes <= StagingClass(bytes)
  <1> DEFINE powers == {StagingFloor * Pow2[k] : k \in 0 .. bytes}
             T == {p \in powers : p >= bytes}
  <1>1. ASSUME NEW k \in 0 .. bytes
        PROVE  /\ StagingFloor * Pow2[k] \in Nat \ {0}
               /\ Pow2[k] <= StagingFloor * Pow2[k]
    <2>1. k \in Nat /\ Pow2[k] \in Nat \ {0}
      BY Powers
    <2>2. StagingFloor * Pow2[k] \in Nat /\ Pow2[k] <= StagingFloor * Pow2[k]
      BY <2>1, Constants, ProductGrows
    <2> QED
      BY <2>1, <2>2
  <1>2. powers \subseteq Nat \ {0}
    BY <1>1
  <1>3. StagingFloor * Pow2[bytes] \in T
    <2>1. bytes \in 0 .. bytes /\ bytes <= Pow2[bytes] /\ Pow2[bytes] \in Nat
      BY Powers, PowersGrow
    <2>2. /\ StagingFloor * Pow2[bytes] \in powers
          /\ Pow2[bytes] <= StagingFloor * Pow2[bytes]
          /\ StagingFloor * Pow2[bytes] \in Nat
      BY <1>1, <2>1
    <2> QED
      BY <2>1, <2>2
  <1>4. StagingClass(bytes) = Min(T)
    BY DEF StagingClass
  <1>5. T \subseteq Nat /\ T # {}
    BY <1>2, <1>3
  <1>6. Min(T) \in T
    <2> HIDE DEF T
    <2> QED
      BY <1>5, MinOf
  <1>7. Min(T) \in Nat \ {0} /\ Min(T) >= bytes
    BY <1>2, <1>6
  <1> QED
    BY <1>4, <1>7

-----------------------------------------------------------------------------
(* What the pools weigh.                                                   *)

Sizes == 1 .. Limit
Areas == [kind: Kinds, capacity: Nat \ {0}]
Pooled == [kind: Kinds, capacity: 1 .. MaxPair]

LEMMA PoolWeighs ==
  ASSUME NEW B \in BagsOver(Sizes)
  PROVE  /\ BytesOf(B) \in Nat /\ Count(B) \in Nat
         /\ \A x \in Sizes : BytesOf(With(B, x)) = BytesOf(B) + x
         /\ \A x \in DOMAIN B :
              /\ BytesOf(Without(B, x)) \in Nat /\ x \in Nat \ {0}
              /\ BytesOf(B) = BytesOf(Without(B, x)) + x
              /\ Count(Without(B, x)) \in Nat
              /\ Count(B) = Count(Without(B, x)) + 1
  <1> DEFINE w == [x \in Sizes |-> x]
             u == [x \in Sizes |-> 1]
  <1>1. w \in [Sizes -> Nat] /\ u \in [Sizes -> Nat]
    BY DEF Sizes
  <1>2. \A C \in BagsOver(Sizes) : BytesOf(C) = Weigh(C, w)
    <2> TAKE C \in BagsOver(Sizes)
    <2>1. DOMAIN C \subseteq Sizes
      BY BagShape
    <2>2. \A x \in DOMAIN C : [size \in DOMAIN C |-> size][x] = w[x]
      BY <2>1
    <2> QED
      BY <2>2, WeighsBy DEF BytesOf
  <1>3. \A C \in BagsOver(Sizes) : Count(C) = Weigh(C, u)
    <2> TAKE C \in BagsOver(Sizes)
    <2>1. DOMAIN C \subseteq Sizes /\ C \in [DOMAIN C -> Nat \ {0}]
      BY BagShape
    <2>2. \A x \in DOMAIN C : C[x] * u[x] = C[x]
      BY <2>1
    <2>3. [x \in DOMAIN C |-> C[x] * u[x]] = C
      BY <2>1, <2>2
    <2> HIDE DEF u
    <2> QED
      BY <2>3 DEF Count, Weigh
  <1>4. \A x \in Sizes : With(B, x) \in BagsOver(Sizes)
    BY AddedOne
  <1>5. \A x \in DOMAIN B : /\ Without(B, x) \in BagsOver(Sizes)
                            /\ x \in Sizes /\ x \in Nat \ {0}
    <2>1. \A x \in DOMAIN B : Without(B, x) \in BagsOver(Sizes)
      BY RemovedOne
    <2>2. DOMAIN B \subseteq Sizes
      BY BagShape
    <2>3. \A x \in Sizes : x \in Nat \ {0}
      BY DEF Sizes
    <2> QED
      BY <2>1, <2>2, <2>3
  <1>6. \A x \in Sizes : w[x] = x /\ u[x] = 1
    OBVIOUS
  <1> HIDE DEF w, u
  <1>7. BytesOf(B) \in Nat /\ Count(B) \in Nat
    BY <1>1, <1>2, <1>3, WeighsNat
  <1>8. ASSUME NEW x \in Sizes PROVE BytesOf(With(B, x)) = BytesOf(B) + x
    <2>1. Weigh(With(B, x), w) = Weigh(B, w) + w[x]
      BY <1>1, WeighsMore
    <2> QED
      BY <1>2, <1>4, <1>6, <2>1
  <1>9. ASSUME NEW x \in DOMAIN B
        PROVE  /\ BytesOf(Without(B, x)) \in Nat /\ x \in Nat \ {0}
               /\ BytesOf(B) = BytesOf(Without(B, x)) + x
               /\ Count(Without(B, x)) \in Nat
               /\ Count(B) = Count(Without(B, x)) + 1
    <2>1. /\ Weigh(Without(B, x), w) \in Nat
          /\ Weigh(B, w) = Weigh(Without(B, x), w) + w[x]
      BY <1>1, WeighsLess
    <2>2. /\ Weigh(Without(B, x), u) \in Nat
          /\ Weigh(B, u) = Weigh(Without(B, x), u) + u[x]
      BY <1>1, WeighsLess
    <2> QED
      BY <1>2, <1>3, <1>5, <1>6, <2>1, <2>2
  <1> QED
    BY <1>7, <1>8, <1>9

LEMMA EmptyPool ==
  /\ BytesOf(EmptyBag) = 0 /\ StagingBytes(EmptyBag) = 0 /\ Count(EmptyBag) = 0
  /\ \A B \in BagsOver(Sizes) : Count(B) = 0 => B = EmptyBag
  <1>1. BytesOf(EmptyBag) = 0 /\ StagingBytes(EmptyBag) = 0
    BY EmptyWeighsNothing DEF BytesOf, StagingBytes
  <1>2. Count(EmptyBag) = 0
    BY SumOfNone DEF Count, SumFunction, EmptyBag, SetToBag
  <1>3. ASSUME NEW B \in BagsOver(Sizes), Count(B) = 0 PROVE B = EmptyBag
    <2>1. ASSUME NEW x \in DOMAIN B PROVE FALSE
      <3>1. Count(Without(B, x)) \in Nat /\ Count(B) = Count(Without(B, x)) + 1
        BY PoolWeighs
      <3> QED
        BY <1>3, <3>1
    <2>2. DOMAIN B = {}
      BY <2>1
    <2> QED
      BY <2>2, EmptyOnly
  <1> QED
    BY <1>1, <1>2, <1>3

LEMMA StageWeighs ==
  ASSUME NEW B \in BagsOver(Pooled)
  PROVE  /\ StagingBytes(B) \in Nat
         /\ \A p \in Pooled : StagingBytes(With(B, p)) = StagingBytes(B) + p.capacity
         /\ \A p \in DOMAIN B :
              /\ StagingBytes(Without(B, p)) \in Nat
              /\ StagingBytes(B) = StagingBytes(Without(B, p)) + p.capacity
  <1> DEFINE w == [p \in Pooled |-> p.capacity]
  <1>1. w \in [Pooled -> Nat]
    BY Constants DEF Pooled
  <1>2. \A C \in BagsOver(Pooled) : StagingBytes(C) = Weigh(C, w)
    <2> TAKE C \in BagsOver(Pooled)
    <2>1. DOMAIN C \subseteq Pooled
      BY BagShape
    <2>2. \A p \in DOMAIN C : [q \in DOMAIN C |-> q.capacity][p] = w[p]
      BY <2>1
    <2> QED
      BY <2>2, WeighsBy DEF StagingBytes
  <1>3. \A p \in Pooled : With(B, p) \in BagsOver(Pooled)
    BY AddedOne
  <1>4. \A p \in DOMAIN B : Without(B, p) \in BagsOver(Pooled) /\ p \in Pooled
    BY RemovedOne, BagShape
  <1>5. \A p \in Pooled : w[p] = p.capacity
    OBVIOUS
  <1> HIDE DEF w
  <1>6. StagingBytes(B) \in Nat
    BY <1>1, <1>2, WeighsNat
  <1>7. ASSUME NEW p \in Pooled
        PROVE  StagingBytes(With(B, p)) = StagingBytes(B) + p.capacity
    <2>1. Weigh(With(B, p), w) = Weigh(B, w) + w[p]
      BY <1>1, WeighsMore
    <2> QED
      BY <1>2, <1>3, <1>5, <2>1
  <1>8. ASSUME NEW p \in DOMAIN B
        PROVE  /\ StagingBytes(Without(B, p)) \in Nat
               /\ StagingBytes(B) = StagingBytes(Without(B, p)) + p.capacity
    <2>1. /\ Weigh(Without(B, p), w) \in Nat
          /\ Weigh(B, w) = Weigh(Without(B, p), w) + w[p]
      BY <1>1, WeighsLess
    <2> QED
      BY <1>2, <1>4, <1>5, <2>1
  <1> QED
    BY <1>6, <1>7, <1>8

(* The number of pooled pairs of at most a size. *)
LEMMA AtMostCounts ==
  ASSUME NEW B \in BagsOver(Pooled), NEW n \in Nat
  PROVE  /\ AtMost(B, n) \in Nat
         /\ \A p \in Pooled : AtMost(With(B, p), n)
                                = AtMost(B, n) + (IF p.capacity <= n THEN 1 ELSE 0)
         /\ \A p \in DOMAIN B :
              /\ AtMost(Without(B, p), n) \in Nat
              /\ AtMost(B, n)
                   = AtMost(Without(B, p), n) + (IF p.capacity <= n THEN 1 ELSE 0)
  <1> DEFINE w == [p \in Pooled |-> IF p.capacity <= n THEN 1 ELSE 0]
  <1>1. w \in [Pooled -> Nat]
    OBVIOUS
  <1>2. \A C \in BagsOver(Pooled) : AtMost(C, n) = Weigh(C, w)
    <2> TAKE C \in BagsOver(Pooled)
    <2>1. DOMAIN C \subseteq Pooled
      BY BagShape
    <2>2. \A p \in DOMAIN C :
            [q \in DOMAIN C |-> IF q.capacity <= n THEN 1 ELSE 0][p] = w[p]
      BY <2>1
    <2> QED
      BY <2>2, WeighsBy DEF AtMost
  <1>3. \A p \in Pooled : With(B, p) \in BagsOver(Pooled)
    BY AddedOne
  <1>4. \A p \in DOMAIN B : Without(B, p) \in BagsOver(Pooled) /\ p \in Pooled
    BY RemovedOne, BagShape
  <1>5. \A p \in Pooled : w[p] = (IF p.capacity <= n THEN 1 ELSE 0)
    OBVIOUS
  <1> HIDE DEF w
  <1>6. AtMost(B, n) \in Nat
    BY <1>1, <1>2, WeighsNat
  <1>7. ASSUME NEW p \in Pooled
        PROVE  AtMost(With(B, p), n)
                 = AtMost(B, n) + (IF p.capacity <= n THEN 1 ELSE 0)
    <2>1. Weigh(With(B, p), w) = Weigh(B, w) + w[p]
      BY <1>1, WeighsMore
    <2> QED
      BY <1>2, <1>3, <1>5, <2>1
  <1>8. ASSUME NEW p \in DOMAIN B
        PROVE  /\ AtMost(Without(B, p), n) \in Nat
               /\ AtMost(B, n)
                    = AtMost(Without(B, p), n) + (IF p.capacity <= n THEN 1 ELSE 0)
    <2>1. /\ Weigh(Without(B, p), w) \in Nat
          /\ Weigh(B, w) = Weigh(Without(B, p), w) + w[p]
      BY <1>1, WeighsLess
    <2> QED
      BY <1>2, <1>4, <1>5, <2>1
  <1> QED
    BY <1>6, <1>7, <1>8

-----------------------------------------------------------------------------
(* A recursion that follows G wherever it is within X stays there.         *)

Following(X, x, N, G, g) ==
  /\ g[0] = x
  /\ \A n \in 1 .. N : g[n-1] \in X => g[n] = G[<<n, g[n-1]>>]

LEMMA Follows ==
  ASSUME NEW X, NEW x \in X, NEW G \in [Nat \X X -> X], NEW N \in Nat, NEW g,
         Following(X, x, N, G, g)
  PROVE  \A n \in 0 .. N : g[n] \in X
  <1> DEFINE T == {n \in Nat : n <= N => g[n] \in X}
  <1>1. 0 \in T
    BY DEF Following
  <1>2. ASSUME NEW n \in T PROVE n + 1 \in T
    <2>1. n \in Nat /\ n + 1 \in Nat /\ (n + 1) - 1 = n
      OBVIOUS
    <2>2. ASSUME n + 1 <= N PROVE g[n+1] \in X
      <3>1. n <= N /\ n + 1 \in 1 .. N
        BY <2>1, <2>2
      <3>2. g[n] \in X
        BY <3>1
      <3>3. g[n+1] = G[<<n+1, g[n]>>]
        <4>1. g[(n+1)-1] \in X => g[n+1] = G[<<n+1, g[(n+1)-1]>>]
          BY <3>1 DEF Following
        <4> QED
          BY <2>1, <3>2, <4>1
      <3>4. <<n+1, g[n]>> \in Nat \X X
        BY <2>1, <3>2
      <3> QED
        BY <3>3, <3>4
    <2> QED
      BY <2>1, <2>2
  <1>3. T \subseteq Nat
    OBVIOUS
  <1> HIDE DEF T
  <1>4. T = Nat
    BY <1>1, <1>2, <1>3, SetInduction
  <1> QED
    BY <1>4 DEF T

LEMMA MaxOf ==
  ASSUME NEW T \in SUBSET Sizes, T # {}
  PROVE  Max(T) \in T
  <1> DEFINE S == {Limit - y : y \in T}
             m == Min(S)
  <1>1. Limit \in Nat
    BY Constants
  <1>2. S \subseteq Nat /\ S # {}
    <2>1. \A y \in T : Limit - y \in Nat
      BY <1>1 DEF Sizes
    <2>2. PICK y \in T : TRUE
      OBVIOUS
    <2>3. Limit - y \in S
      OBVIOUS
    <2> QED
      BY <2>1, <2>3
  <1>3. m \in S /\ \A n \in S : m <= n
    <2> HIDE DEF S
    <2> QED
      BY <1>2, MinOf
  <1> HIDE DEF m
  <1>4. PICK x \in T : m = Limit - x
    BY <1>3
  <1>5. \A y \in T : y \in Nat /\ x \in Nat /\ Limit - x <= Limit - y
    BY <1>3, <1>4 DEF Sizes
  <1>6. \A y \in T : x >= y
    BY <1>1, <1>5
  <1> QED
    BY <1>6 DEF Max

-----------------------------------------------------------------------------
(* Evictions take pair after pair, down to none.                           *)

Draining(pool, left) ==
  /\ left[0] = pool
  /\ \A n \in 1 .. Count(pool) :
       \E x : /\ left[n] = Without(left[n-1], x)
              /\ left[n-1] \in BagsOver(Sizes) /\ left[n-1] # EmptyBag
                   => x \in DOMAIN left[n-1]

LEMMA DrainingLeaves ==
  ASSUME NEW pool \in BagsOver(Sizes), NEW left, Draining(pool, left)
  PROVE  \A n \in 0 .. Count(pool) :
           /\ left[n] \in BagsOver(Sizes)
           /\ BytesOf(left[n]) \in Nat /\ BytesOf(left[n]) <= BytesOf(pool)
           /\ Count(left[n]) = Count(pool) - n
  <1> DEFINE N == Count(pool)
             Fine(n) == /\ left[n] \in BagsOver(Sizes)
                        /\ BytesOf(left[n]) \in Nat /\ BytesOf(left[n]) <= BytesOf(pool)
                        /\ Count(left[n]) = N - n
             T == {n \in Nat : n <= N => Fine(n)}
  <1>1. N \in Nat /\ BytesOf(pool) \in Nat
    BY PoolWeighs
  <1>2. 0 \in T
    BY <1>1 DEF Draining
  <1>3. ASSUME NEW n \in T PROVE n + 1 \in T
    <2>1. n \in Nat /\ n + 1 \in Nat /\ (n + 1) - 1 = n
      OBVIOUS
    <2>2. ASSUME n + 1 <= N PROVE Fine(n + 1)
      <3>1. n <= N /\ n + 1 \in 1 .. N
        BY <1>1, <2>1, <2>2
      <3>2. Fine(n)
        BY <3>1
      <3>3. PICK x : /\ left[n+1] = Without(left[n], x)
                     /\ left[n] # EmptyBag => x \in DOMAIN left[n]
        <4>1. PICK x : /\ left[n+1] = Without(left[(n+1)-1], x)
                       /\ left[(n+1)-1] \in BagsOver(Sizes) /\ left[(n+1)-1] # EmptyBag
                            => x \in DOMAIN left[(n+1)-1]
          BY <3>1 DEF Draining
        <4> QED
          BY <2>1, <3>2, <4>1
      <3>4. left[n] # EmptyBag
        <4>1. Count(left[n]) # 0
          BY <1>1, <2>1, <2>2, <3>2
        <4> QED
          BY <4>1, EmptyPool
      <3> DEFINE B == left[n]
      <3>5. x \in DOMAIN B /\ B \in BagsOver(Sizes)
        BY <3>2, <3>3, <3>4
      <3>6. /\ Without(B, x) \in BagsOver(Sizes)
            /\ BytesOf(Without(B, x)) \in Nat /\ x \in Nat
            /\ BytesOf(B) = BytesOf(Without(B, x)) + x
            /\ Count(Without(B, x)) \in Nat
            /\ Count(B) = Count(Without(B, x)) + 1
        <4> HIDE DEF B
        <4> QED
          BY <3>5, PoolWeighs, RemovedOne
      <3>7. left[n+1] = Without(B, x) /\ BytesOf(B) <= BytesOf(pool) /\ Count(B) = N - n
        BY <3>2, <3>3
      <3> HIDE DEF B, N
      <3> QED
        BY <1>1, <2>1, <3>6, <3>7
    <2> QED
      BY <2>1, <2>2
  <1>4. T \subseteq Nat
    OBVIOUS
  <1>5. T = Nat
    <2> HIDE DEF T
    <2> QED
      BY <1>2, <1>3, <1>4, SetInduction
  <1> QED
    BY <1>1, <1>5

(* What an eviction of so many bytes leaves of a pool. *)
GivesBack(R, pool, want) ==
  /\ R \in BagsOver(Sizes)
  /\ BytesOf(R) <= BytesOf(pool)
  /\ R = EmptyBag \/ BytesOf(pool) - BytesOf(R) >= want
  /\ Count(R) <= Count(pool)
  /\ want > 0 /\ pool # EmptyBag => Count(R) < Count(pool)

LargestFirst(pool, left) ==
  left = [n \in 0 .. Count(pool) |->
            IF n = 0 THEN pool ELSE Without(left[n-1], Max(BagToSet(left[n-1])))]

SmallestFirst(pool, left) ==
  left = [n \in 0 .. Count(pool) |->
            IF n = 0 THEN pool ELSE Without(left[n-1], Min(BagToSet(left[n-1])))]

LEMMA LargestFirstExists ==
  ASSUME NEW pool \in BagsOver(Sizes)
  PROVE  \E left : LargestFirst(pool, left)
  <1> DEFINE X == BagsOver(Sizes)
             G == [p \in Nat \X X |-> Without(p[2], Max(BagToSet(p[2])))]
             N == Count(pool)
  <1>1. N \in Nat
    BY PoolWeighs
  <1>2. G \in [Nat \X X -> X]
    <2>1. \A p \in Nat \X X : Without(p[2], Max(BagToSet(p[2]))) \in X
      BY RemovedOne
    <2> HIDE DEF X
    <2> QED
      BY <2>1
  <1>3. PICK f \in [0 .. N -> X] : Unrolled(pool, N, G, f)
    <2> HIDE DEF G, N, X
    <2>1. pool \in X
      BY DEF X
    <2> QED
      BY <1>1, <1>2, <2>1, RecursionTo
  <1>4. ASSUME NEW n \in 1 .. N PROVE f[n] = Without(f[n-1], Max(BagToSet(f[n-1])))
    <2>1. n \in Nat /\ n - 1 \in 0 .. N
      BY <1>1
    <2>2. f[n-1] \in X
      BY <2>1
    <2>3. f[n] = G[<<n, f[n-1]>>] /\ <<n, f[n-1]>> \in Nat \X X
      BY <1>3, <2>1, <2>2 DEF Unrolled
    <2> QED
      BY <2>3
  <1>5. f[0] = pool
    BY <1>3 DEF Unrolled
  <1> HIDE DEF G, X, N
  <1>6. \A n \in 0 .. N : n # 0 => n \in 1 .. N
    BY <1>1
  <1>7. f = [n \in 0 .. N |-> IF n = 0 THEN pool
                              ELSE Without(f[n-1], Max(BagToSet(f[n-1])))]
    BY <1>3, <1>4, <1>5, <1>6
  <1> QED
    BY <1>7 DEF LargestFirst, N

LEMMA SmallestFirstExists ==
  ASSUME NEW pool \in BagsOver(Sizes)
  PROVE  \E left : SmallestFirst(pool, left)
  <1> DEFINE X == BagsOver(Sizes)
             G == [p \in Nat \X X |-> Without(p[2], Min(BagToSet(p[2])))]
             N == Count(pool)
  <1>1. N \in Nat
    BY PoolWeighs
  <1>2. G \in [Nat \X X -> X]
    <2>1. \A p \in Nat \X X : Without(p[2], Min(BagToSet(p[2]))) \in X
      BY RemovedOne
    <2> HIDE DEF X
    <2> QED
      BY <2>1
  <1>3. PICK f \in [0 .. N -> X] : Unrolled(pool, N, G, f)
    <2> HIDE DEF G, N, X
    <2>1. pool \in X
      BY DEF X
    <2> QED
      BY <1>1, <1>2, <2>1, RecursionTo
  <1>4. ASSUME NEW n \in 1 .. N PROVE f[n] = Without(f[n-1], Min(BagToSet(f[n-1])))
    <2>1. n \in Nat /\ n - 1 \in 0 .. N
      BY <1>1
    <2>2. f[n-1] \in X
      BY <2>1
    <2>3. f[n] = G[<<n, f[n-1]>>] /\ <<n, f[n-1]>> \in Nat \X X
      BY <1>3, <2>1, <2>2 DEF Unrolled
    <2> QED
      BY <2>3
  <1>5. f[0] = pool
    BY <1>3 DEF Unrolled
  <1> HIDE DEF G, X, N
  <1>6. \A n \in 0 .. N : n # 0 => n \in 1 .. N
    BY <1>1
  <1>7. f = [n \in 0 .. N |-> IF n = 0 THEN pool
                              ELSE Without(f[n-1], Min(BagToSet(f[n-1])))]
    BY <1>3, <1>4, <1>5, <1>6
  <1> QED
    BY <1>7 DEF SmallestFirst, N

LEMMA NonEmptyBag ==
  ASSUME NEW B \in BagsOver(Sizes), B # EmptyBag
  PROVE  /\ Max(BagToSet(B)) \in DOMAIN B
         /\ Min(BagToSet(B)) \in DOMAIN B
  <1>1. DOMAIN B # {} /\ DOMAIN B \in SUBSET Sizes /\ DOMAIN B \subseteq Nat
    <2>1. DOMAIN B # {}
      BY EmptyOnly
    <2>2. DOMAIN B \subseteq Sizes
      BY BagShape
    <2>3. Sizes \subseteq Nat
      BY DEF Sizes
    <2> QED
      BY <2>1, <2>2, <2>3
  <1> QED
    BY <1>1, MaxOf, MinOf DEF BagToSet

LEMMA EvictLargestGives ==
  ASSUME NEW pool \in BagsOver(Sizes), NEW want \in Int
  PROVE  GivesBack(EvictLargest(pool, want), pool, want)
  <1> DEFINE left == CHOOSE left : LargestFirst(pool, left)
             N == Count(pool)
             enough == {n \in DOMAIN left : \/ BytesOf(pool) - BytesOf(left[n]) >= want
                                            \/ n = N}
             k == Min(enough)
  <1>1. LargestFirst(pool, left)
    BY LargestFirstExists
  <1>2. EvictLargest(pool, want) = left[k]
    BY DEF EvictLargest, LargestFirst
  <1>3. N \in Nat /\ BytesOf(pool) \in Nat
    BY PoolWeighs
  <1> HIDE DEF left
  <1>4. Draining(pool, left)
    <2>1. left[0] = pool
      BY <1>1, <1>3 DEF LargestFirst
    <2>2. ASSUME NEW n \in 1 .. N
          PROVE  left[n] = Without(left[n-1], Max(BagToSet(left[n-1])))
      <3>1. n \in 0 .. N /\ n # 0
        BY <1>3
      <3> QED
        BY <1>1, <3>1 DEF LargestFirst
    <2> QED
      BY <2>1, <2>2, NonEmptyBag DEF Draining
  <1>5. \A n \in 0 .. N : /\ left[n] \in BagsOver(Sizes)
                          /\ BytesOf(left[n]) \in Nat /\ BytesOf(left[n]) <= BytesOf(pool)
                          /\ Count(left[n]) = N - n
    BY <1>4, DrainingLeaves
  <1>6. DOMAIN left = 0 .. N
    BY <1>1 DEF LargestFirst
  <1>7. enough \subseteq Nat /\ N \in enough
    BY <1>3, <1>6
  <1>8. k \in enough
    <2> HIDE DEF enough
    <2> QED
      BY <1>7, MinOf
  <1> HIDE DEF k
  <1>9. k \in 0 .. N /\ (BytesOf(pool) - BytesOf(left[k]) >= want \/ k = N)
    BY <1>6, <1>8
  <1>10. k = N => left[k] = EmptyBag
    <2>1. k = N => Count(left[k]) = 0
      BY <1>3, <1>5, <1>9
    <2> QED
      BY <1>5, <1>9, <2>1, EmptyPool
  <1>11. ASSUME want > 0, pool # EmptyBag PROVE Count(left[k]) < N
    <2>1. N # 0
      BY <1>11, EmptyPool
    <2>2. k # 0
      <3>1. left[0] = pool
        BY <1>4 DEF Draining
      <3>2. SUFFICES ASSUME k = 0 PROVE FALSE
        OBVIOUS
      <3>3. BytesOf(pool) - BytesOf(pool) >= want
        BY <1>9, <2>1, <3>1, <3>2
      <3> QED
        BY <1>3, <1>11, <3>3
    <2> QED
      BY <1>3, <1>5, <1>9, <2>2
  <1>12. Count(left[k]) <= N
    BY <1>3, <1>5, <1>9
  <1> QED
    BY <1>2, <1>5, <1>9, <1>10, <1>11, <1>12 DEF GivesBack

LEMMA EvictToCeilingKeeps ==
  ASSUME NEW pool \in BagsOver(Sizes), NEW max \in Nat
  PROVE  /\ EvictToCeiling(pool, max) \in BagsOver(Sizes)
         /\ BytesOf(EvictToCeiling(pool, max)) \in Nat
         /\ BytesOf(EvictToCeiling(pool, max)) <= max
         /\ BytesOf(EvictToCeiling(pool, max)) <= BytesOf(pool)
  <1> DEFINE left == CHOOSE left : SmallestFirst(pool, left)
             N == Count(pool)
             inside == {n \in DOMAIN left : BytesOf(left[n]) <= max}
             k == Min(inside)
  <1>1. SmallestFirst(pool, left)
    BY SmallestFirstExists
  <1>2. EvictToCeiling(pool, max) = left[k]
    BY DEF EvictToCeiling, SmallestFirst
  <1>3. N \in Nat /\ BytesOf(pool) \in Nat
    BY PoolWeighs
  <1> HIDE DEF left
  <1>4. Draining(pool, left)
    <2>1. left[0] = pool
      BY <1>1, <1>3 DEF SmallestFirst
    <2>2. ASSUME NEW n \in 1 .. N
          PROVE  left[n] = Without(left[n-1], Min(BagToSet(left[n-1])))
      <3>1. n \in 0 .. N /\ n # 0
        BY <1>3
      <3> QED
        BY <1>1, <3>1 DEF SmallestFirst
    <2> QED
      BY <2>1, <2>2, NonEmptyBag DEF Draining
  <1>5. \A n \in 0 .. N : /\ left[n] \in BagsOver(Sizes)
                          /\ BytesOf(left[n]) \in Nat /\ BytesOf(left[n]) <= BytesOf(pool)
                          /\ Count(left[n]) = N - n
    BY <1>4, DrainingLeaves
  <1>6. DOMAIN left = 0 .. N
    BY <1>1 DEF SmallestFirst
  <1>7. N \in 0 .. N /\ BytesOf(left[N]) = 0
    <2>1. N \in 0 .. N /\ Count(left[N]) = 0
      BY <1>3, <1>5
    <2> QED
      BY <1>5, <2>1, EmptyPool
  <1>8. inside \subseteq Nat /\ N \in inside
    BY <1>6, <1>7
  <1>9. k \in inside
    <2> HIDE DEF inside
    <2> QED
      BY <1>8, MinOf
  <1> HIDE DEF k
  <1>10. k \in 0 .. N /\ BytesOf(left[k]) <= max
    BY <1>6, <1>9
  <1> QED
    BY <1>2, <1>5, <1>10

-----------------------------------------------------------------------------
(* Contexts, and what returns to the pools keep of them.                   *)

(* A pair serves its request, and is not too large for it. *)
Serves(b) ==
  /\ b.bytes <= b.allocated
  /\ b.allocated <= ReuseRatio * PoolClass(RoundedUp(b.bytes, Word))

Owned == {b \in [bytes: Requests \ {0}, allocated: Sizes] : Serves(b)}

Batches == [open: BOOLEAN, retired: Seq(Sizes), bytes: Nat, staging: Seq(Areas)]

Contexts ==
  [set: Settings, owned: BagsOver(Owned),
   pool: BagsOver(Sizes), poolBytes: Nat,
   stage: BagsOver(Pooled), stageBytes: Nat,
   fences: Nat, rec: Batches, flight: Batches,
   ended: {"no", "lost", "unknown"}, adrift: Nat, hostAdrift: Nat]

PoolFine(c) ==
  /\ c.poolBytes = BytesOf(c.pool)
  /\ c.poolBytes <= (IF c.set.on THEN c.set.max ELSE 0)

StageFine(c) ==
  /\ c.stageBytes = StagingBytes(c.stage)
  /\ c.stageBytes <= (IF c.set.staging THEN c.set.stagingMax ELSE 0)
  /\ \A p \in DOMAIN c.stage : c.stage[p] <= MaxPerClass

FencesFine(c) == ~c.set.fences => c.fences = 0

Sound(c) == c \in Contexts /\ PoolFine(c) /\ StageFine(c) /\ FencesFine(c)

(* All but the pools and what is adrift. *)
Carried(c, d) ==
  /\ d.set = c.set /\ d.owned = c.owned /\ d.fences = c.fences
  /\ d.rec = c.rec /\ d.flight = c.flight /\ d.ended = c.ended

StageGrew(c, d) == \A n \in Nat : AtMost(c.stage, n) <= AtMost(d.stage, n)

Kept(c, d) == Sound(d) /\ Carried(c, d) /\ StageGrew(c, d)

LEMMA ContextFields ==
  ASSUME NEW c \in Contexts
  PROVE  /\ c.set \in Settings /\ c.owned \in BagsOver(Owned)
         /\ c.pool \in BagsOver(Sizes) /\ c.poolBytes \in Nat
         /\ c.stage \in BagsOver(Pooled) /\ c.stageBytes \in Nat
         /\ c.fences \in Nat /\ c.rec \in Batches /\ c.flight \in Batches
         /\ c.ended \in {"no", "lost", "unknown"}
         /\ c.adrift \in Nat /\ c.hostAdrift \in Nat
  BY DEF Contexts

LEMMA SettingFields ==
  ASSUME NEW s \in Settings
  PROVE  /\ s.on \in BOOLEAN /\ s.larger \in BOOLEAN /\ s.max \in Nat
         /\ s.staging \in BOOLEAN /\ s.stagingMax \in Nat /\ s.fences \in BOOLEAN
  BY SettingAssumption

LEMMA BatchFields ==
  ASSUME NEW b \in Batches
  PROVE  /\ b.open \in BOOLEAN /\ b.retired \in Seq(Sizes) /\ b.bytes \in Nat
         /\ b.staging \in Seq(Areas)
  BY DEF Batches

LEMMA EmptyBatch ==
  NoBatch \in Batches /\ NoBatch.open = FALSE
  BY DEF NoBatch, Batches

LEMMA AtMostNat ==
  ASSUME NEW c \in Contexts, NEW n \in Nat
  PROVE  AtMost(c.stage, n) \in Nat
  BY ContextFields, AtMostCounts

LEMMA StageStays ==
  ASSUME NEW c \in Contexts, NEW d, d.stage = c.stage
  PROVE  StageGrew(c, d)
  BY AtMostNat DEF StageGrew

LEMMA StageGrewOn ==
  ASSUME NEW c \in Contexts, NEW d \in Contexts, NEW e \in Contexts,
         StageGrew(c, d), StageGrew(d, e)
  PROVE  StageGrew(c, e)
  <1> SUFFICES ASSUME NEW n \in Nat PROVE AtMost(c.stage, n) <= AtMost(e.stage, n)
    BY DEF StageGrew
  <1>1. /\ AtMost(c.stage, n) \in Nat /\ AtMost(d.stage, n) \in Nat
        /\ AtMost(e.stage, n) \in Nat
    BY AtMostNat
  <1>2. AtMost(c.stage, n) <= AtMost(d.stage, n) /\ AtMost(d.stage, n) <= AtMost(e.stage, n)
    BY DEF StageGrew
  <1> QED
    BY <1>1, <1>2

LEMMA KeptAll ==
  /\ \A c : Sound(c) => Kept(c, c)
  /\ \A c, d, e : Sound(c) /\ Kept(c, d) /\ Kept(d, e) => Kept(c, e)
  <1>1. \A c : Sound(c) => Kept(c, c)
    BY StageStays DEF Kept, Carried, Sound
  <1>2. ASSUME NEW c, NEW d, NEW e, Sound(c), Kept(c, d), Kept(d, e)
        PROVE  Kept(c, e)
    <2>1. c \in Contexts /\ d \in Contexts /\ e \in Contexts
      BY <1>2 DEF Kept, Sound
    <2>2. StageGrew(c, e)
      BY <1>2, <2>1, StageGrewOn DEF Kept
    <2>3. Carried(c, e)
      BY <1>2 DEF Kept, Carried
    <2> QED
      BY <1>2, <2>2, <2>3 DEF Kept
  <1> QED
    BY <1>1, <1>2

(* The fields of a context whose pool or staging pool is replaced. *)
PoolTo(c, pool, bytes) == [c EXCEPT !.pool = pool, !.poolBytes = bytes]
StageTo(c, stage, bytes) == [c EXCEPT !.stage = stage, !.stageBytes = bytes]

LEMMA PoolReplaced ==
  ASSUME NEW c \in Contexts, NEW pool \in BagsOver(Sizes), NEW bytes \in Nat
  PROVE  /\ PoolTo(c, pool, bytes) \in Contexts
         /\ Carried(c, PoolTo(c, pool, bytes))
         /\ PoolTo(c, pool, bytes).pool = pool
         /\ PoolTo(c, pool, bytes).poolBytes = bytes
         /\ PoolTo(c, pool, bytes).stage = c.stage
         /\ PoolTo(c, pool, bytes).stageBytes = c.stageBytes
  BY DEF Contexts, Carried, PoolTo

LEMMA StageReplaced ==
  ASSUME NEW c \in Contexts, NEW stage \in BagsOver(Pooled), NEW bytes \in Nat
  PROVE  /\ StageTo(c, stage, bytes) \in Contexts
         /\ Carried(c, StageTo(c, stage, bytes))
         /\ StageTo(c, stage, bytes).stage = stage
         /\ StageTo(c, stage, bytes).stageBytes = bytes
         /\ StageTo(c, stage, bytes).pool = c.pool
         /\ StageTo(c, stage, bytes).poolBytes = c.poolBytes
  BY DEF Contexts, Carried, StageTo

LEMMA PoolKept ==
  ASSUME NEW c, Sound(c), NEW pool \in BagsOver(Sizes),
         BytesOf(pool) <= (IF c.set.on THEN c.set.max ELSE 0)
  PROVE  Kept(c, PoolTo(c, pool, BytesOf(pool)))
  <1> DEFINE d == PoolTo(c, pool, BytesOf(pool))
  <1>1. c \in Contexts /\ BytesOf(pool) \in Nat
    BY PoolWeighs DEF Sound
  <1>2. /\ d \in Contexts /\ Carried(c, d) /\ d.pool = pool /\ d.poolBytes = BytesOf(pool)
        /\ d.stage = c.stage /\ d.stageBytes = c.stageBytes
    BY <1>1, PoolReplaced
  <1> HIDE DEF d
  <1>3. StageGrew(c, d)
    BY <1>1, <1>2, StageStays
  <1>4. PoolFine(d)
    BY <1>2 DEF PoolFine, Carried
  <1>5. StageFine(d) /\ FencesFine(d)
    BY <1>2 DEF Sound, StageFine, FencesFine, Carried
  <1>6. Kept(c, d)
    BY <1>2, <1>3, <1>4, <1>5 DEF Kept, Sound
  <1> QED
    BY <1>6 DEF d

LEMMA ShrunkKeeps ==
  ASSUME NEW c, Sound(c), NEW R \in BagsOver(Sizes), BytesOf(R) <= BytesOf(c.pool)
  PROVE  /\ Shrunk(c, R) = PoolTo(c, R, BytesOf(R))
         /\ Kept(c, Shrunk(c, R))
  <1>1. /\ c \in Contexts /\ c.pool \in BagsOver(Sizes) /\ c.set \in Settings
        /\ c.poolBytes = BytesOf(c.pool)
        /\ c.poolBytes <= (IF c.set.on THEN c.set.max ELSE 0)
    BY ContextFields DEF Sound, PoolFine
  <1>2. BytesOf(c.pool) \in Nat /\ BytesOf(R) \in Nat
    BY <1>1, PoolWeighs
  <1>3. c.poolBytes - (BytesOf(c.pool) - BytesOf(R)) = BytesOf(R)
    BY <1>1, <1>2
  <1>4. Shrunk(c, R) = PoolTo(c, R, BytesOf(R))
    BY <1>3 DEF Shrunk, PoolTo
  <1>5. BytesOf(R) <= (IF c.set.on THEN c.set.max ELSE 0)
    BY <1>1, <1>2, SettingFields
  <1> QED
    BY <1>4, <1>5, PoolKept

LEMMA RecycledKeeps ==
  ASSUME NEW c, Sound(c), NEW size \in Sizes
  PROVE  Kept(c, Recycled(c, size))
  <1>1. /\ c \in Contexts /\ c.pool \in BagsOver(Sizes) /\ c.poolBytes = BytesOf(c.pool)
    BY ContextFields DEF Sound, PoolFine
  <1>2. CASE c.set.on /\ c.poolBytes + size <= c.set.max
    <2>1. /\ With(c.pool, size) \in BagsOver(Sizes)
          /\ BytesOf(With(c.pool, size)) = c.poolBytes + size
      BY <1>1, AddedOne, PoolWeighs
    <2>2. Recycled(c, size) = PoolTo(c, With(c.pool, size), BytesOf(With(c.pool, size)))
      BY <1>2, <2>1 DEF Recycled, PoolTo
    <2>3. BytesOf(With(c.pool, size)) <= (IF c.set.on THEN c.set.max ELSE 0)
      BY <1>2, <2>1
    <2> QED
      BY <2>1, <2>2, <2>3, PoolKept
  <1>3. CASE ~(c.set.on /\ c.poolBytes + size <= c.set.max)
    BY <1>3, KeptAll DEF Recycled
  <1> QED
    BY <1>2, <1>3

Recycling(c, sizes, after) ==
  after = [n \in 0 .. Len(sizes) |->
             IF n = 0 THEN c ELSE Recycled(after[n-1], sizes[n])]

LEMMA RecycledAllKeeps ==
  ASSUME NEW c, Sound(c), NEW sizes \in Seq(Sizes)
  PROVE  Kept(c, RecycledAll(c, sizes))
  <1> DEFINE X == {d \in Contexts : Kept(c, d)}
             N == Len(sizes)
             G == [p \in Nat \X X |->
                     IF p[1] \in 1 .. N THEN Recycled(p[2], sizes[p[1]]) ELSE p[2]]
  <1>1. N \in Nat /\ \A n \in 1 .. N : sizes[n] \in Sizes
    OBVIOUS
  <1>2. c \in X
    BY KeptAll DEF Sound
  <1>3. \A d \in X, n \in 1 .. N : Recycled(d, sizes[n]) \in X
    <2> TAKE d \in X, n \in 1 .. N
    <2>1. Kept(c, d) /\ Sound(d)
      BY DEF Kept
    <2>2. Kept(d, Recycled(d, sizes[n]))
      BY <1>1, <2>1, RecycledKeeps
    <2>3. Kept(c, Recycled(d, sizes[n]))
      BY <2>1, <2>2, KeptAll
    <2> QED
      BY <2>3 DEF Kept, Sound
  <1> HIDE DEF X
  <1>4. G \in [Nat \X X -> X]
    <2>1. ASSUME NEW p \in Nat \X X
          PROVE  (IF p[1] \in 1 .. N THEN Recycled(p[2], sizes[p[1]]) ELSE p[2]) \in X
      BY <1>3
    <2> QED
      BY <2>1
  <1>5. \A n \in 1 .. N, d \in X : G[<<n, d>>] = Recycled(d, sizes[n])
    BY <1>1
  <1> HIDE DEF G
  <1>6. PICK f \in [0 .. N -> X] : Unrolled(c, N, G, f)
    <2> HIDE DEF N
    <2> QED
      BY <1>1, <1>2, <1>4, RecursionTo
  <1>7. Recycling(c, sizes, f)
    <2>1. f[0] = c
      BY <1>6 DEF Unrolled
    <2>2. ASSUME NEW n \in 1 .. N PROVE f[n] = Recycled(f[n-1], sizes[n])
      <3>1. n - 1 \in 0 .. N
        BY <1>1
      <3>2. f[n-1] \in X
        BY <3>1
      <3>3. f[n] = G[<<n, f[n-1]>>]
        BY <1>6 DEF Unrolled
      <3> QED
        BY <1>5, <3>2, <3>3
    <2>3. \A n \in 0 .. N : n # 0 => n \in 1 .. N
      BY <1>1
    <2>4. f = [n \in 0 .. N |-> IF n = 0 THEN c ELSE Recycled(f[n-1], sizes[n])]
      BY <2>1, <2>2, <2>3
    <2> QED
      BY <2>4 DEF Recycling
  <1> DEFINE g == CHOOSE after : Recycling(c, sizes, after)
  <1>8. Recycling(c, sizes, g)
    BY <1>7
  <1>9. RecycledAll(c, sizes) = g[N]
    BY DEF RecycledAll, Recycling
  <1> HIDE DEF g
  <1>10. g[0] = c
    BY <1>1, <1>8 DEF Recycling
  <1>11. \A n \in 1 .. N : g[n-1] \in X => g[n] = G[<<n, g[n-1]>>]
    <2> TAKE n \in 1 .. N
    <2>1. n \in 0 .. N /\ n # 0
      BY <1>1
    <2>2. g[n] = Recycled(g[n-1], sizes[n])
      BY <1>8, <2>1 DEF Recycling
    <2> QED
      BY <1>5, <2>2
  <1>12. \A n \in 0 .. N : g[n] \in X
    <2>1. Following(X, c, N, G, g)
      BY <1>10, <1>11 DEF Following
    <2> HIDE DEF N
    <2> QED
      BY <1>1, <1>2, <1>4, <2>1, Follows
  <1>13. RecycledAll(c, sizes) \in X
    BY <1>1, <1>9, <1>12
  <1> QED
    BY <1>13 DEF X

-----------------------------------------------------------------------------
(* A returned staging pair: one larger pair at most gives way to it.       *)

LEMMA StageKept ==
  ASSUME NEW c, Sound(c), NEW stage \in BagsOver(Pooled), NEW bytes,
         bytes = StagingBytes(stage),
         bytes <= (IF c.set.staging THEN c.set.stagingMax ELSE 0),
         \A p \in DOMAIN stage : stage[p] <= MaxPerClass
  PROVE  /\ Sound(StageTo(c, stage, bytes))
         /\ Carried(c, StageTo(c, stage, bytes))
         /\ StageTo(c, stage, bytes).stage = stage
         /\ StageTo(c, stage, bytes).stageBytes = bytes
  <1> DEFINE d == StageTo(c, stage, bytes)
  <1>1. c \in Contexts /\ bytes \in Nat
    BY StageWeighs DEF Sound
  <1>2. /\ d \in Contexts /\ Carried(c, d) /\ d.stage = stage /\ d.stageBytes = bytes
        /\ d.pool = c.pool /\ d.poolBytes = c.poolBytes
    BY <1>1, StageReplaced
  <1> HIDE DEF d
  <1>3. PoolFine(d) /\ FencesFine(d)
    BY <1>2 DEF Sound, PoolFine, FencesFine, Carried
  <1>4. StageFine(d)
    BY <1>2 DEF StageFine, Carried
  <1>5. Sound(d)
    BY <1>2, <1>3, <1>4 DEF Sound
  <1> QED
    BY <1>2, <1>5 DEF d

(* A pair taken out leaves the others, and what they weigh. *)
LEMMA HitKeeps ==
  ASSUME NEW c, Sound(c), NEW v \in DOMAIN c.stage
  PROVE  /\ Sound(StagingHit(c, v)) /\ Carried(c, StagingHit(c, v))
         /\ StagingHit(c, v).stage = Without(c.stage, v)
         /\ StagingHit(c, v).stageBytes \in Nat /\ v \in Pooled
         /\ c.stageBytes = StagingHit(c, v).stageBytes + v.capacity
  <1> DEFINE B == c.stage
             W == Without(c.stage, v)
  <1>1. /\ c \in Contexts /\ B \in BagsOver(Pooled) /\ c.set \in Settings
        /\ c.stageBytes = StagingBytes(B)
        /\ c.stageBytes <= (IF c.set.staging THEN c.set.stagingMax ELSE 0)
        /\ \A p \in DOMAIN B : B[p] <= MaxPerClass
    BY ContextFields DEF Sound, StageFine
  <1>2. v \in Pooled /\ v.capacity \in Nat
    <2>1. v \in Pooled
      BY <1>1, BagShape
    <2> QED
      BY <2>1, Constants DEF Pooled
  <1>3. /\ StagingBytes(W) \in Nat
        /\ StagingBytes(B) = StagingBytes(W) + v.capacity
    BY <1>1, StageWeighs
  <1>4. W \in BagsOver(Pooled) /\ OneLess(W, B, v)
    BY <1>1, RemovedOne
  <1>5. \A p \in DOMAIN W : W[p] <= MaxPerClass
    <2> TAKE p \in DOMAIN W
    <2>1. DOMAIN B \subseteq Pooled /\ B \in [DOMAIN B -> Nat \ {0}]
      BY <1>1, BagShape
    <2>2. p \in DOMAIN B
      BY <1>4 DEF OneLess
    <2>3. B[p] \in Nat /\ B[p] <= MaxPerClass /\ MaxPerClass \in Nat
      BY <1>1, <2>1, <2>2, Constants
    <2>4. CASE p # v
      BY <1>4, <2>2, <2>3, <2>4 DEF OneLess
    <2>5. CASE p = v
      <3>1. CopiesOf(v, B) = B[v] /\ B[v] # 1 /\ B[v] \in Nat \ {0}
        BY <1>4, <2>1, <2>2, <2>5 DEF OneLess, CopiesOf, BagIn, BagToSet
      <3>2. W[v] = B[v] - 1
        BY <1>4, <3>1 DEF OneLess
      <3> QED
        BY <2>3, <2>5, <3>1, <3>2
    <2> QED
      BY <2>4, <2>5
  <1>6. c.stageBytes - v.capacity = StagingBytes(W)
    BY <1>1, <1>2, <1>3
  <1>7. StagingHit(c, v) = StageTo(c, W, StagingBytes(W))
    BY <1>6 DEF StagingHit, StageTo
  <1>8. StagingBytes(W) <= (IF c.set.staging THEN c.set.stagingMax ELSE 0)
    BY <1>1, <1>2, <1>3, SettingFields
  <1>9. /\ Sound(StageTo(c, W, StagingBytes(W)))
        /\ Carried(c, StageTo(c, W, StagingBytes(W)))
        /\ StageTo(c, W, StagingBytes(W)).stage = W
        /\ StageTo(c, W, StagingBytes(W)).stageBytes = StagingBytes(W)
    <2> HIDE DEF W
    <2> QED
      BY <1>4, <1>5, <1>8, StageKept
  <1> QED
    BY <1>1, <1>2, <1>3, <1>7, <1>9

(* What remains of a context the pair is returned to. *)
LEMMA KeepKeeps ==
  ASSUME NEW c, Sound(c), NEW pair \in Areas,
         c.set.staging, pair.capacity <= MaxPair, ~Over(c, pair),
         CopiesOf(pair, c.stage) < MaxPerClass
  PROVE  /\ Sound(Keep(c, pair)) /\ Carried(c, Keep(c, pair))
         /\ pair \in Pooled
         /\ Keep(c, pair).stage = With(c.stage, pair)
  <1> DEFINE B == c.stage
             W == With(c.stage, pair)
  <1>1. /\ c \in Contexts /\ B \in BagsOver(Pooled) /\ c.set \in Settings
        /\ c.stageBytes = StagingBytes(B) /\ c.stageBytes \in Nat
        /\ \A p \in DOMAIN B : B[p] <= MaxPerClass
    BY ContextFields DEF Sound, StageFine
  <1>2. pair \in Pooled /\ pair.capacity \in Nat
    BY Constants DEF Areas, Pooled
  <1>3. StagingBytes(W) = StagingBytes(B) + pair.capacity
    BY <1>1, <1>2, StageWeighs
  <1>4. W \in BagsOver(Pooled) /\ OneMore(W, B, pair)
    BY <1>1, <1>2, AddedOne
  <1>5. \A p \in DOMAIN W : W[p] <= MaxPerClass
    <2> TAKE p \in DOMAIN W
    <2>1. CASE p = pair
      <3>1. W[p] = CopiesOf(pair, B) + 1
        BY <1>4, <2>1 DEF OneMore
      <3>2. CopiesOf(pair, B) \in Nat
        <4>1. B \in [DOMAIN B -> Nat \ {0}]
          BY <1>1, BagShape
        <4> QED
          BY <4>1 DEF CopiesOf, BagIn, BagToSet
      <3> QED
        BY <3>1, <3>2, Constants
    <2>2. CASE p # pair
      BY <1>1, <1>4, <2>2 DEF OneMore
    <2> QED
      BY <2>1, <2>2
  <1>6. Keep(c, pair) = StageTo(c, W, StagingBytes(W))
    BY <1>1, <1>3 DEF Keep, StageTo
  <1>7. StagingBytes(W) <= (IF c.set.staging THEN c.set.stagingMax ELSE 0)
    BY <1>1, <1>2, <1>3, SettingFields DEF Over
  <1>8. /\ Sound(StageTo(c, W, StagingBytes(W)))
        /\ Carried(c, StageTo(c, W, StagingBytes(W)))
        /\ StageTo(c, W, StagingBytes(W)).stage = W
    <2> HIDE DEF W
    <2> QED
      BY <1>4, <1>5, <1>7, StageKept
  <1> QED
    BY <1>2, <1>6, <1>8

(* Once a larger pair is gone, the smaller one has room. *)
LEMMA OneVictim ==
  ASSUME NEW c, Sound(c), NEW pair \in Areas, Poolable(c, pair),
         NEW v \in Victims(c, pair.capacity)
  PROVE  /\ v \in DOMAIN c.stage /\ v.capacity > pair.capacity
         /\ ~Over(StagingHit(c, v), pair)
         /\ CopiesOf(pair, StagingHit(c, v).stage) < MaxPerClass
  <1>1. v \in DOMAIN c.stage /\ v.capacity > pair.capacity
    BY DEF Victims, BagToSet
  <1>2. /\ Sound(StagingHit(c, v)) /\ Carried(c, StagingHit(c, v))
        /\ StagingHit(c, v).stage = Without(c.stage, v)
        /\ StagingHit(c, v).stageBytes \in Nat /\ v \in Pooled
        /\ c.stageBytes = StagingHit(c, v).stageBytes + v.capacity
    BY <1>1, HitKeeps
  <1>3. /\ c \in Contexts /\ c.stage \in BagsOver(Pooled) /\ c.set \in Settings
        /\ c.stageBytes <= c.set.stagingMax /\ c.set.stagingMax \in Nat
        /\ CopiesOf(pair, c.stage) < MaxPerClass
    <2>1. c \in Contexts /\ c.set.staging
      BY DEF Sound, Poolable
    <2> QED
      BY <2>1, ContextFields, SettingFields DEF Sound, StageFine, Poolable
  <1>4. v.capacity \in Nat /\ pair.capacity \in Nat
    BY <1>2, Constants DEF Pooled, Areas
  <1>5. ~Over(StagingHit(c, v), pair)
    BY <1>1, <1>2, <1>3, <1>4 DEF Over, Carried
  <1>6. CopiesOf(pair, Without(c.stage, v)) = CopiesOf(pair, c.stage)
    <2>1. OneLess(Without(c.stage, v), c.stage, v)
      BY <1>3, RemovedOne
    <2>2. pair # v
      BY <1>1, <1>4
    <2> QED
      BY <2>1, <2>2 DEF OneLess, CopiesOf, BagIn, BagToSet
  <1> QED
    BY <1>1, <1>2, <1>3, <1>5, <1>6

(* The contexts RecycleStaging goes through, and those it settles in. *)
Evicted(c, pair) ==
  {c} \cup {d \in {StagingHit(c, v) : v \in Victims(c, pair.capacity)} : Over(c, pair)}

LEMMA SettledKeeps ==
  ASSUME NEW c, Sound(c), NEW pair \in Areas, Poolable(c, pair),
         NEW d \in Evicted(c, pair),
         ~Over(d, pair) \/ Victims(d, pair.capacity) = {}
  PROVE  Kept(c, IF Over(d, pair) THEN d ELSE Keep(d, pair))
  <1>1. c \in Contexts /\ c.stage \in BagsOver(Pooled)
    BY ContextFields DEF Sound
  <1>2. /\ c.set.staging /\ pair.capacity <= MaxPair
        /\ CopiesOf(pair, c.stage) < MaxPerClass
    BY DEF Poolable
  <1>3. CASE d = c
    <2>1. CASE Over(c, pair)
      BY <1>3, <2>1, KeptAll
    <2>2. CASE ~Over(c, pair)
      <3>1. /\ Sound(Keep(c, pair)) /\ Carried(c, Keep(c, pair))
            /\ pair \in Pooled
            /\ Keep(c, pair).stage = With(c.stage, pair)
        BY <1>2, <2>2, KeepKeeps
      <3>2. ASSUME NEW n \in Nat
            PROVE  AtMost(c.stage, n) <= AtMost(With(c.stage, pair), n)
        BY <1>1, <3>1, AtMostCounts
      <3>3. StageGrew(c, Keep(c, pair))
        BY <3>1, <3>2 DEF StageGrew
      <3> QED
        BY <1>3, <2>2, <3>1, <3>3 DEF Kept
    <2> QED
      BY <2>1, <2>2
  <1>4. CASE d # c
    <2>1. PICK v \in Victims(c, pair.capacity) : d = StagingHit(c, v)
      BY <1>4 DEF Evicted
    <2>2. /\ v \in DOMAIN c.stage /\ v.capacity > pair.capacity
          /\ ~Over(d, pair) /\ CopiesOf(pair, d.stage) < MaxPerClass
      BY <2>1, OneVictim
    <2>3. /\ Sound(d) /\ Carried(c, d) /\ d.stage = Without(c.stage, v) /\ v \in Pooled
      BY <2>1, <2>2, HitKeeps
    <2>4. d.set.staging /\ d.stage \in BagsOver(Pooled)
      BY <1>2, <2>3, ContextFields DEF Carried, Sound
    <2>5. /\ Sound(Keep(d, pair)) /\ Carried(d, Keep(d, pair))
          /\ pair \in Pooled
          /\ Keep(d, pair).stage = With(d.stage, pair)
      BY <1>2, <2>2, <2>3, <2>4, KeepKeeps
    <2>6. pair.capacity \in Nat /\ v.capacity \in Nat
      BY <2>3, <2>5, Constants DEF Pooled
    <2>7. ASSUME NEW n \in Nat
          PROVE  AtMost(c.stage, n) <= AtMost(With(d.stage, pair), n)
      <3>1. /\ AtMost(d.stage, n) \in Nat
            /\ AtMost(c.stage, n)
                 = AtMost(d.stage, n) + (IF v.capacity <= n THEN 1 ELSE 0)
        BY <1>1, <2>2, <2>3, AtMostCounts
      <3>2. AtMost(With(d.stage, pair), n)
              = AtMost(d.stage, n) + (IF pair.capacity <= n THEN 1 ELSE 0)
        BY <2>4, <2>5, AtMostCounts
      <3> QED
        BY <2>2, <2>6, <3>1, <3>2
    <2>8. StageGrew(c, Keep(d, pair))
      BY <2>5, <2>7 DEF StageGrew
    <2>9. Carried(c, Keep(d, pair))
      BY <2>3, <2>5 DEF Carried
    <2> QED
      BY <2>2, <2>5, <2>8, <2>9 DEF Kept
  <1> QED
    BY <1>3, <1>4


LEMMA RoomMadeOnce ==
  ASSUME NEW c, Sound(c), NEW pair \in Areas, Poolable(c, pair),
         NEW d \in Evicted(c, pair)
  PROVE  MadeRoom(d, pair) \subseteq Evicted(c, pair)
  <1>1. CASE d = c
    BY <1>1 DEF MadeRoom, Evicted
  <1>2. CASE d # c
    <2>1. ~Over(d, pair)
      BY <1>2, OneVictim DEF Evicted
    <2> QED
      BY <2>1 DEF MadeRoom
  <1> QED
    BY <1>1, <1>2

GivingWay(c, pair, evicted) ==
  evicted = [n \in Nat |-> IF n = 0 THEN {c}
                           ELSE UNION {MadeRoom(d, pair) : d \in evicted[n-1]}]

LEMMA GivingWayStays ==
  ASSUME NEW c, Sound(c), NEW pair \in Areas, Poolable(c, pair)
  PROVE  /\ \E evicted : GivingWay(c, pair, evicted)
         /\ \A evicted : GivingWay(c, pair, evicted) =>
              \A n \in Nat : evicted[n] \subseteq Evicted(c, pair)
  <1> DEFINE X == SUBSET Evicted(c, pair)
             G == [p \in Nat \X X |-> UNION {MadeRoom(d, pair) : d \in p[2]}]
  <1>1. {c} \in X
    BY DEF Evicted
  <1>2. \A D \in X : UNION {MadeRoom(d, pair) : d \in D} \in X
    BY RoomMadeOnce
  <1> HIDE DEF X
  <1>3. G \in [Nat \X X -> X]
    <2>1. \A p \in Nat \X X : UNION {MadeRoom(d, pair) : d \in p[2]} \in X
      BY <1>2
    <2> QED
      BY <2>1
  <1>4. \A n \in Nat, D \in X : G[<<n, D>>] = UNION {MadeRoom(d, pair) : d \in D}
    OBVIOUS
  <1> HIDE DEF G
  <1>5. PICK f \in [Nat -> X] : Recursive({c}, G, f)
    BY <1>1, <1>3, Recursion
  <1>6. GivingWay(c, pair, f)
    <2>1. f[0] = {c}
      BY <1>5 DEF Recursive
    <2>2. ASSUME NEW n \in Nat, n # 0
          PROVE  f[n] = UNION {MadeRoom(d, pair) : d \in f[n-1]}
      <3>1. n - 1 \in Nat /\ n \in Nat \ {0}
        BY <2>2
      <3>2. f[n-1] \in X /\ f[n] = G[<<n, f[n-1]>>]
        BY <1>5, <3>1 DEF Recursive
      <3> QED
        BY <1>4, <3>2
    <2> QED
      BY <2>1, <2>2 DEF GivingWay
  <1>7. ASSUME NEW evicted, GivingWay(c, pair, evicted), NEW n \in Nat
        PROVE  evicted[n] \in X
    <2>1. evicted[0] = {c}
      BY <1>7 DEF GivingWay
    <2>2. ASSUME NEW m \in 1 .. n, evicted[m-1] \in X
          PROVE  evicted[m] = G[<<m, evicted[m-1]>>]
      <3>1. m \in Nat /\ m # 0
        OBVIOUS
      <3>2. evicted[m] = UNION {MadeRoom(d, pair) : d \in evicted[m-1]}
        BY <1>7, <3>1 DEF GivingWay
      <3> QED
        BY <1>4, <2>2, <3>1, <3>2
    <2>3. Following(X, {c}, n, G, evicted)
      BY <2>1, <2>2 DEF Following
    <2>4. \A m \in 0 .. n : evicted[m] \in X
      BY <1>1, <1>3, <2>3, Follows
    <2> QED
      BY <2>4
  <1> QED
    BY <1>6, <1>7 DEF X

LEMMA RecycleStagingKeeps ==
  ASSUME NEW c, Sound(c), NEW pair \in Areas
  PROVE  \A d \in RecycleStaging(c, pair) : Kept(c, d)
  <1>1. CASE ~Poolable(c, pair)
    BY <1>1, KeptAll DEF RecycleStaging
  <1>2. CASE Poolable(c, pair)
    <2> DEFINE evicted == CHOOSE evicted : GivingWay(c, pair, evicted)
               settled == {d \in UNION {evicted[n] : n \in 0 .. Count(c.stage)} :
                             ~Over(d, pair) \/ Victims(d, pair.capacity) = {}}
    <2>1. RecycleStaging(c, pair)
            = {IF Over(d, pair) THEN d ELSE Keep(d, pair) : d \in settled}
      BY <1>2 DEF RecycleStaging, GivingWay
    <2>2. \A n \in Nat : evicted[n] \subseteq Evicted(c, pair)
      <3>1. GivingWay(c, pair, evicted)
        BY <1>2, GivingWayStays
      <3> HIDE DEF evicted
      <3> QED
        BY <1>2, <3>1, GivingWayStays
    <2> HIDE DEF evicted
    <2>3. ASSUME NEW d \in settled
          PROVE  Kept(c, IF Over(d, pair) THEN d ELSE Keep(d, pair))
      <3>1. /\ d \in Evicted(c, pair)
            /\ ~Over(d, pair) \/ Victims(d, pair.capacity) = {}
        <4>1. PICK n \in 0 .. Count(c.stage) : d \in evicted[n]
          OBVIOUS
        <4>2. n \in Nat
          OBVIOUS
        <4> QED
          BY <2>2, <4>1, <4>2
      <3> QED
        BY <1>2, <3>1, SettledKeeps
    <2> HIDE DEF settled
    <2> QED
      BY <2>1, <2>3
  <1> QED
    BY <1>1, <1>2

Returning(c, pairs, after) ==
  after = [n \in 0 .. Len(pairs) |->
             IF n = 0 THEN {c}
             ELSE UNION {RecycleStaging(d, pairs[n]) : d \in after[n-1]}]

LEMMA RecycleAllKeeps ==
  ASSUME NEW c, Sound(c), NEW pairs \in Seq(Areas)
  PROVE  \A d \in RecycleAll(c, pairs) : Kept(c, d)
  <1> DEFINE Y == {d \in Contexts : Kept(c, d)}
             X == SUBSET Y
             N == Len(pairs)
             G == [p \in Nat \X X |->
                     IF p[1] \in 1 .. N
                     THEN UNION {RecycleStaging(d, pairs[p[1]]) : d \in p[2]} ELSE p[2]]
  <1>1. N \in Nat /\ \A n \in 1 .. N : pairs[n] \in Areas
    OBVIOUS
  <1>2. {c} \in X
    BY KeptAll DEF Sound
  <1>3. \A D \in X, n \in 1 .. N :
          UNION {RecycleStaging(d, pairs[n]) : d \in D} \in X
    <2>1. ASSUME NEW d \in Y, NEW n \in 1 .. N, NEW e \in RecycleStaging(d, pairs[n])
          PROVE  e \in Y
      <3>1. Kept(c, d) /\ Sound(d)
        BY DEF Kept
      <3>2. Kept(d, e)
        BY <1>1, <3>1, RecycleStagingKeeps
      <3>3. Kept(c, e)
        BY <3>1, <3>2, KeptAll
      <3> QED
        BY <3>3 DEF Kept, Sound
    <2> HIDE DEF Y
    <2> QED
      BY <2>1
  <1> HIDE DEF X, Y
  <1>4. G \in [Nat \X X -> X]
    <2>1. ASSUME NEW p \in Nat \X X
          PROVE  (IF p[1] \in 1 .. N
                  THEN UNION {RecycleStaging(d, pairs[p[1]]) : d \in p[2]} ELSE p[2]) \in X
      BY <1>3
    <2> QED
      BY <2>1
  <1>5. \A n \in 1 .. N, D \in X :
          G[<<n, D>>] = UNION {RecycleStaging(d, pairs[n]) : d \in D}
    BY <1>1
  <1> HIDE DEF G
  <1>6. PICK f \in [0 .. N -> X] : Unrolled({c}, N, G, f)
    <2> HIDE DEF N
    <2> QED
      BY <1>1, <1>2, <1>4, RecursionTo
  <1>7. Returning(c, pairs, f)
    <2>1. f[0] = {c}
      BY <1>6 DEF Unrolled
    <2>2. ASSUME NEW n \in 1 .. N
          PROVE  f[n] = UNION {RecycleStaging(d, pairs[n]) : d \in f[n-1]}
      <3>1. n - 1 \in 0 .. N
        BY <1>1
      <3>2. f[n-1] \in X
        BY <3>1
      <3>3. f[n] = G[<<n, f[n-1]>>]
        BY <1>6 DEF Unrolled
      <3> QED
        BY <1>5, <3>2, <3>3
    <2>3. \A n \in 0 .. N : n # 0 => n \in 1 .. N
      BY <1>1
    <2>4. f = [n \in 0 .. N |-> IF n = 0 THEN {c}
                                ELSE UNION {RecycleStaging(d, pairs[n]) : d \in f[n-1]}]
      BY <2>1, <2>2, <2>3
    <2> QED
      BY <2>4 DEF Returning
  <1> DEFINE g == CHOOSE after : Returning(c, pairs, after)
  <1>8. Returning(c, pairs, g)
    BY <1>7
  <1>9. RecycleAll(c, pairs) = g[N]
    BY DEF RecycleAll, Returning
  <1> HIDE DEF g
  <1>10. g[0] = {c}
    BY <1>1, <1>8 DEF Returning
  <1>11. \A n \in 1 .. N : g[n-1] \in X => g[n] = G[<<n, g[n-1]>>]
    <2> TAKE n \in 1 .. N
    <2>1. n \in 0 .. N /\ n # 0
      BY <1>1
    <2>2. g[n] = UNION {RecycleStaging(d, pairs[n]) : d \in g[n-1]}
      BY <1>8, <2>1 DEF Returning
    <2> QED
      BY <1>5, <2>2
  <1>12. \A n \in 0 .. N : g[n] \in X
    <2>1. Following(X, {c}, N, G, g)
      BY <1>10, <1>11 DEF Following
    <2> HIDE DEF N
    <2> QED
      BY <1>1, <1>2, <1>4, <2>1, Follows
  <1>13. RecycleAll(c, pairs) \in X
    BY <1>1, <1>9, <1>12
  <1> QED
    BY <1>13 DEF X, Y

-----------------------------------------------------------------------------
(* Fences, batches and what is left adrift: the memory stays as it is.     *)

SameMemory(c, d) ==
  /\ d.set = c.set
  /\ d.pool = c.pool /\ d.poolBytes = c.poolBytes
  /\ d.stage = c.stage /\ d.stageBytes = c.stageBytes

LEMMA SoundBeside ==
  ASSUME NEW c, Sound(c), NEW d \in Contexts, SameMemory(c, d), FencesFine(d)
  PROVE  Sound(d) /\ StageGrew(c, d)
  <1>1. c \in Contexts
    BY DEF Sound
  <1>2. StageGrew(c, d)
    BY <1>1, StageStays DEF SameMemory
  <1>3. PoolFine(d) /\ StageFine(d)
    BY DEF SameMemory, Sound, PoolFine, StageFine
  <1> QED
    BY <1>2, <1>3 DEF Sound

(* What a call leaves that changes no buffer and no batch. *)
Lasting(c, d) ==
  /\ Sound(d) /\ StageGrew(c, d)
  /\ d.owned = c.owned /\ d.rec = c.rec /\ d.flight = c.flight

LEMMA LastingOn ==
  /\ \A c : Sound(c) => Lasting(c, c)
  /\ \A c, d : Kept(c, d) => Lasting(c, d) /\ d.fences = c.fences
  /\ \A c, d, e : Sound(c) /\ Lasting(c, d) /\ Lasting(d, e) => Lasting(c, e)
  <1>1. \A c, d : Kept(c, d) => Lasting(c, d) /\ d.fences = c.fences
    BY DEF Kept, Lasting, Carried
  <1>2. \A c : Sound(c) => Lasting(c, c)
    BY <1>1, KeptAll
  <1>3. ASSUME NEW c, NEW d, NEW e, Sound(c), Lasting(c, d), Lasting(d, e)
        PROVE  Lasting(c, e)
    <2>1. c \in Contexts /\ d \in Contexts /\ e \in Contexts
      BY <1>3 DEF Lasting, Sound
    <2>2. StageGrew(c, e)
      BY <1>3, <2>1, StageGrewOn DEF Lasting
    <2> QED
      BY <1>3, <2>2 DEF Lasting
  <1> QED
    BY <1>1, <1>2, <1>3

FencesTo(c, n) == [c EXCEPT !.fences = n]
EndedTo(c, e) == [c EXCEPT !.ended = e]
FlightTo(c, b) == [c EXCEPT !.flight = b]
RecTo(c, b) == [c EXCEPT !.rec = b]

LEMMA FencesReplaced ==
  ASSUME NEW c, Sound(c), NEW n \in Nat, c.set.fences \/ n = 0
  PROVE  Lasting(c, FencesTo(c, n)) /\ FencesTo(c, n).fences = n
  <1> DEFINE d == FencesTo(c, n)
  <1>1. c \in Contexts
    BY DEF Sound
  <1>2. /\ d \in Contexts /\ SameMemory(c, d) /\ d.fences = n
        /\ d.owned = c.owned /\ d.rec = c.rec /\ d.flight = c.flight
    BY <1>1 DEF Contexts, SameMemory, FencesTo
  <1> HIDE DEF d
  <1>3. FencesFine(d)
    BY <1>2 DEF FencesFine, SameMemory
  <1>4. Lasting(c, d)
    BY <1>2, <1>3, SoundBeside DEF Lasting
  <1> QED
    BY <1>2, <1>4 DEF d

LEMMA EndedReplaced ==
  ASSUME NEW c, Sound(c), NEW e \in {"no", "lost", "unknown"}
  PROVE  Lasting(c, EndedTo(c, e)) /\ EndedTo(c, e).fences = c.fences
  <1> DEFINE d == EndedTo(c, e)
  <1>1. c \in Contexts
    BY DEF Sound
  <1>2. /\ d \in Contexts /\ SameMemory(c, d) /\ d.fences = c.fences
        /\ d.owned = c.owned /\ d.rec = c.rec /\ d.flight = c.flight
    BY <1>1 DEF Contexts, SameMemory, EndedTo
  <1> HIDE DEF d
  <1>3. FencesFine(d)
    BY <1>2 DEF FencesFine, SameMemory, Sound
  <1>4. Lasting(c, d)
    BY <1>2, <1>3, SoundBeside DEF Lasting
  <1> QED
    BY <1>2, <1>4 DEF d

LEMMA FlightReplaced ==
  ASSUME NEW c, Sound(c), NEW b \in Batches
  PROVE  /\ Sound(FlightTo(c, b)) /\ StageGrew(c, FlightTo(c, b))
         /\ FlightTo(c, b).owned = c.owned /\ FlightTo(c, b).fences = c.fences
         /\ FlightTo(c, b).rec = c.rec /\ FlightTo(c, b).flight = b
  <1> DEFINE d == FlightTo(c, b)
  <1>1. c \in Contexts
    BY DEF Sound
  <1>2. /\ d \in Contexts /\ SameMemory(c, d) /\ d.fences = c.fences
        /\ d.owned = c.owned /\ d.rec = c.rec /\ d.flight = b
    BY <1>1 DEF Contexts, SameMemory, FlightTo
  <1> HIDE DEF d
  <1>3. FencesFine(d)
    BY <1>2 DEF FencesFine, SameMemory, Sound
  <1>4. Sound(d) /\ StageGrew(c, d)
    BY <1>2, <1>3, SoundBeside
  <1> QED
    BY <1>2, <1>4 DEF d

LEMMA RecReplaced ==
  ASSUME NEW c, Sound(c), NEW b \in Batches
  PROVE  /\ Sound(RecTo(c, b)) /\ StageGrew(c, RecTo(c, b))
         /\ RecTo(c, b).owned = c.owned /\ RecTo(c, b).fences = c.fences
         /\ RecTo(c, b).rec = b /\ RecTo(c, b).flight = c.flight
  <1> DEFINE d == RecTo(c, b)
  <1>1. c \in Contexts
    BY DEF Sound
  <1>2. /\ d \in Contexts /\ SameMemory(c, d) /\ d.fences = c.fences
        /\ d.owned = c.owned /\ d.rec = b /\ d.flight = c.flight
    BY <1>1 DEF Contexts, SameMemory, RecTo
  <1> HIDE DEF d
  <1>3. FencesFine(d)
    BY <1>2 DEF FencesFine, SameMemory, Sound
  <1>4. Sound(d) /\ StageGrew(c, d)
    BY <1>2, <1>3, SoundBeside
  <1> QED
    BY <1>2, <1>4 DEF d

LEMMA TakeFenceKeeps ==
  ASSUME NEW c, Sound(c)
  PROVE  /\ Lasting(c, TakeFence(c))
         /\ TakeFence(c).fences = (IF c.fences > 0 THEN c.fences - 1 ELSE 0)
         /\ TakeFence(c).fences \in Nat
  <1>1. c.fences \in Nat /\ c.set \in Settings /\ (~c.set.fences => c.fences = 0)
    BY ContextFields DEF Sound, FencesFine
  <1>2. CASE c.set.fences /\ c.fences > 0
    <2>1. TakeFence(c) = FencesTo(c, c.fences - 1) /\ c.fences - 1 \in Nat
      BY <1>1, <1>2 DEF TakeFence, FencesTo
    <2> QED
      BY <1>2, <2>1, FencesReplaced
  <1>3. CASE ~(c.set.fences /\ c.fences > 0)
    <2>1. TakeFence(c) = c /\ c.fences = 0
      BY <1>1, <1>3 DEF TakeFence
    <2> QED
      BY <2>1, LastingOn
  <1> QED
    BY <1>2, <1>3

LEMMA KeepFenceKeeps ==
  ASSUME NEW c, Sound(c)
  PROVE  Lasting(c, KeepFence(c)) /\ KeepFence(c).fences <= c.fences + 1
  <1>1. c.fences \in Nat
    BY ContextFields DEF Sound
  <1>2. CASE c.set.fences /\ c.fences < MaxFences
    <2>1. KeepFence(c) = FencesTo(c, c.fences + 1) /\ c.fences + 1 \in Nat
      BY <1>1, <1>2 DEF KeepFence, FencesTo
    <2> QED
      BY <1>1, <1>2, <2>1, FencesReplaced
  <1>3. CASE ~(c.set.fences /\ c.fences < MaxFences)
    <2>1. KeepFence(c) = c
      BY <1>3 DEF KeepFence
    <2> QED
      BY <1>1, <2>1, LastingOn
  <1> QED
    BY <1>2, <1>3

LEMMA RetiredWeigh ==
  ASSUME NEW retired \in Seq(Sizes)
  PROVE  SumOf(retired) \in Nat
  <1>1. /\ DOMAIN retired = 1 .. Len(retired) /\ Len(retired) \in Nat
        /\ \A i \in 1 .. Len(retired) : retired[i] \in Sizes
    OBVIOUS
  <1>2. \A i \in 1 .. Len(retired) : retired[i] \in Nat
    BY <1>1 DEF Sizes
  <1>3. IsFiniteSet(1 .. Len(retired))
    BY <1>1, FS_Interval
  <1> QED
    BY <1>1, <1>2, <1>3, SumIsNat DEF SumOf, SumFunction

LEMMA StagingWeighs ==
  ASSUME NEW staging \in Seq(Areas)
  PROVE  PairBytes(staging) \in Nat
  <1> DEFINE f == [i \in 1 .. Len(staging) |-> staging[i].capacity]
  <1>1. /\ DOMAIN staging = 1 .. Len(staging) /\ Len(staging) \in Nat
        /\ \A i \in 1 .. Len(staging) : staging[i] \in Areas
    OBVIOUS
  <1>2. \A i \in 1 .. Len(staging) : f[i] \in Nat
    BY <1>1 DEF Areas
  <1>3. IsFiniteSet(1 .. Len(staging))
    BY <1>1, FS_Interval
  <1>4. PairBytes(staging) = SumFunctionOnSet(f, 1 .. Len(staging))
    BY <1>1 DEF PairBytes, SumFunction
  <1> HIDE DEF f
  <1> QED
    BY <1>2, <1>3, <1>4, SumIsNat

LEMMA LeakedKeeps ==
  ASSUME NEW c, Sound(c), NEW retired \in Seq(Sizes), NEW staging \in Seq(Areas)
  PROVE  /\ Lasting(c, Leaked(c, retired, staging))
         /\ Leaked(c, retired, staging).fences = c.fences
  <1> DEFINE d == Leaked(c, retired, staging)
  <1>1. c \in Contexts /\ c.adrift \in Nat /\ c.hostAdrift \in Nat
    BY ContextFields DEF Sound
  <1>2. SumOf(retired) \in Nat
    BY RetiredWeigh
  <1>3. PairBytes(staging) \in Nat
    BY StagingWeighs
  <1>4. /\ c.adrift + SumOf(retired) \in Nat
        /\ c.hostAdrift + PairBytes(staging) \in Nat
    BY <1>1, <1>2, <1>3
  <1>5. /\ d \in Contexts /\ SameMemory(c, d) /\ d.fences = c.fences
        /\ d.owned = c.owned /\ d.rec = c.rec /\ d.flight = c.flight
    BY <1>1, <1>4 DEF Contexts, SameMemory, Leaked
  <1> HIDE DEF d
  <1>6. FencesFine(d)
    BY <1>5 DEF FencesFine, SameMemory, Sound
  <1>7. Lasting(c, d)
    BY <1>5, <1>6, SoundBeside DEF Lasting
  <1> QED
    BY <1>5, <1>7 DEF d

LEMMA ReleasedKeeps ==
  ASSUME NEW c, Sound(c), NEW b \in Batches
  PROVE  Lasting(c, Released(c, b)) /\ Released(c, b).fences = c.fences
  <1>1. b.retired \in Seq(Sizes) /\ b.staging \in Seq(Areas)
    BY BatchFields
  <1>2. CASE c.ended = "unknown"
    BY <1>1, <1>2, LeakedKeeps DEF Released
  <1>3. CASE c.ended # "unknown"
    BY <1>1, <1>3, RecycledAllKeeps, LastingOn DEF Released
  <1> QED
    BY <1>2, <1>3

-----------------------------------------------------------------------------
(* Flushing.                                                               *)

LEMMA FinishesKeep ==
  ASSUME NEW c, Sound(c), NEW b \in Batches
  PROVE  \A r \in Finishes(c, b) : /\ r.ok \in BOOLEAN
                                   /\ Lasting(c, r.ctx)
                                   /\ r.ctx.fences <= c.fences + 1
  <1>1. b.retired \in Seq(Sizes) /\ b.staging \in Seq(Areas) /\ c.fences \in Nat
    BY BatchFields, ContextFields DEF Sound
  <1>2. ASSUME NEW d \in RecycleAll(RecycledAll(c, b.retired), b.staging)
        PROVE  Lasting(c, KeepFence(d)) /\ KeepFence(d).fences <= c.fences + 1
    <2> DEFINE e == RecycledAll(c, b.retired)
    <2>1. Kept(c, e)
      BY <1>1, RecycledAllKeeps
    <2> HIDE DEF e
    <2>2. Kept(e, d)
      <3>1. Sound(e)
        BY <2>1 DEF Kept
      <3>2. d \in RecycleAll(e, b.staging)
        BY DEF e
      <3> QED
        BY <1>1, <3>1, <3>2, RecycleAllKeeps
    <2>3. Lasting(c, d) /\ d.fences = c.fences /\ Sound(d)
      BY <2>1, <2>2, KeptAll, LastingOn DEF Kept
    <2>4. Lasting(d, KeepFence(d)) /\ KeepFence(d).fences <= d.fences + 1
      BY <2>3, KeepFenceKeeps
    <2> QED
      BY <2>3, <2>4, LastingOn
  <1>3. ASSUME NEW e \in {"no", "lost", "unknown"}
        PROVE  /\ Lasting(c, Released([c EXCEPT !.ended = e], b))
               /\ Released([c EXCEPT !.ended = e], b).fences <= c.fences + 1
    <2> DEFINE d == EndedTo(c, e)
    <2>1. Lasting(c, d) /\ d.fences = c.fences
      BY EndedReplaced
    <2>2. [c EXCEPT !.ended = e] = d
      BY DEF EndedTo
    <2> HIDE DEF d
    <2>3. Sound(d)
      BY <2>1 DEF Lasting
    <2>4. Lasting(d, Released(d, b)) /\ Released(d, b).fences = d.fences
      BY <2>3, ReleasedKeeps
    <2>5. Lasting(c, Released(d, b)) /\ Released(d, b).fences = c.fences
      BY <2>1, <2>4, LastingOn
    <2> QED
      BY <1>1, <2>2, <2>5
  <1>4. ASSUME NEW r \in Finishes(c, b)
        PROVE  r.ok \in BOOLEAN /\ Lasting(c, r.ctx) /\ r.ctx.fences <= c.fences + 1
    <2>1. CASE \E d \in RecycleAll(RecycledAll(c, b.retired), b.staging) :
                 r = Done(KeepFence(d))
      BY <1>2, <2>1 DEF Done
    <2>2. CASE \E e \in {"no", "lost", "unknown"} :
                 r = Failed(Released([c EXCEPT !.ended = e], b))
      BY <1>3, <2>2 DEF Failed
    <2> QED
      BY <2>1, <2>2 DEF Finishes
  <1> QED
    BY <1>4

LEMMA LossesKeep ==
  ASSUME NEW c, Sound(c), NEW b \in Batches
  PROVE  \A r \in Losses(c, b) : /\ r.ok = FALSE
                                 /\ Lasting(c, r.ctx)
                                 /\ r.ctx.fences = c.fences
  <1>1. ASSUME NEW e \in {"lost", "unknown"}
        PROVE  /\ Lasting(c, EndedTo(Released(c, b), e))
               /\ EndedTo(Released(c, b), e).fences = c.fences
    <2> DEFINE d == Released(c, b)
    <2>1. Lasting(c, d) /\ d.fences = c.fences
      BY ReleasedKeeps
    <2> HIDE DEF d
    <2>2. Lasting(d, EndedTo(d, e)) /\ EndedTo(d, e).fences = d.fences
      BY <2>1, EndedReplaced DEF Lasting
    <2>3. Lasting(c, EndedTo(d, e)) /\ EndedTo(d, e).fences = c.fences
      BY <2>1, <2>2, LastingOn
    <2> QED
      BY <2>3 DEF d
  <1>2. ASSUME NEW r \in Losses(c, b)
        PROVE  r.ok = FALSE /\ Lasting(c, r.ctx) /\ r.ctx.fences = c.fences
    <2>1. PICK e \in {"lost", "unknown"} : r = Failed([Released(c, b) EXCEPT !.ended = e])
      BY DEF Losses
    <2>2. r.ok = FALSE /\ r.ctx = EndedTo(Released(c, b), e)
      BY <2>1 DEF Failed, EndedTo
    <2> QED
      BY <1>1, <2>2
  <1> QED
    BY <1>2

(* The batch in flight is over, whatever came of it. *)
LEMMA ReapsKeep ==
  ASSUME NEW c, Sound(c)
  PROVE  \A r \in Reaps(c) :
           /\ r.ok \in BOOLEAN
           /\ Sound(r.ctx) /\ StageGrew(c, r.ctx)
           /\ r.ctx.owned = c.owned /\ r.ctx.rec = c.rec /\ ~r.ctx.flight.open
           /\ Fences(r.ctx) <= Fences(c)
  <1>1. /\ c \in Contexts /\ c.fences \in Nat /\ c.rec \in Batches /\ c.flight \in Batches
        /\ c.rec.open \in BOOLEAN /\ c.flight.open \in BOOLEAN
    BY ContextFields, BatchFields DEF Sound
  <1>2. CASE c.flight.open
    <2> DEFINE d == FlightTo(c, NoBatch)
    <2>1. /\ Sound(d) /\ StageGrew(c, d) /\ d.owned = c.owned /\ d.fences = c.fences
          /\ d.rec = c.rec /\ d.flight = NoBatch
      BY EmptyBatch, FlightReplaced
    <2>2. Reaps(c) = Finishes(d, c.flight)
      BY <1>2 DEF Reaps, FlightTo
    <2> HIDE DEF d
    <2>3. ASSUME NEW r \in Finishes(d, c.flight)
          PROVE  /\ r.ok \in BOOLEAN
                 /\ Sound(r.ctx) /\ StageGrew(c, r.ctx)
                 /\ r.ctx.owned = c.owned /\ r.ctx.rec = c.rec /\ ~r.ctx.flight.open
                 /\ Fences(r.ctx) <= Fences(c)
      <3>1. r.ok \in BOOLEAN /\ Lasting(d, r.ctx) /\ r.ctx.fences <= d.fences + 1
        BY <1>1, <2>1, FinishesKeep
      <3>2. /\ Sound(r.ctx) /\ StageGrew(d, r.ctx) /\ r.ctx.owned = d.owned
            /\ r.ctx.rec = d.rec /\ r.ctx.flight = d.flight
        BY <3>1 DEF Lasting
      <3>3. StageGrew(c, r.ctx)
        BY <1>1, <2>1, <3>2, StageGrewOn DEF Sound
      <3>4. r.ctx.fences \in Nat
        BY <3>2, ContextFields DEF Sound
      <3>5. Fences(r.ctx) <= Fences(c)
        BY <1>1, <1>2, <2>1, <3>1, <3>2, <3>4, EmptyBatch DEF Fences
      <3> QED
        BY <2>1, <3>1, <3>2, <3>3, <3>5, EmptyBatch
    <2> QED
      BY <2>2, <2>3
  <1>3. CASE ~c.flight.open
    <2>1. Reaps(c) = {Done(c)}
      BY <1>3 DEF Reaps
    <2>2. Fences(c) <= Fences(c)
      BY <1>1 DEF Fences
    <2>3. StageGrew(c, c)
      BY <1>1, StageStays
    <2>4. ASSUME NEW r \in Reaps(c)
          PROVE  r.ok = TRUE /\ r.ctx = c
      BY <2>1 DEF Done
    <2> QED
      BY <1>3, <2>2, <2>3, <2>4
  <1> QED
    BY <1>2, <1>3


(* What a flush leaves: the buffers, no smaller staging pool, two fences. *)
Flushed(c, d) ==
  Sound(d) /\ StageGrew(c, d) /\ d.owned = c.owned /\ Fences(d) <= 2

LEMMA FencesNat ==
  ASSUME NEW c, Sound(c)
  PROVE  /\ c.fences \in Nat /\ c.rec \in Batches /\ c.flight \in Batches
         /\ c.rec.open \in BOOLEAN /\ c.flight.open \in BOOLEAN
         /\ Fences(c) \in Nat
  <1>1. /\ c.fences \in Nat /\ c.rec \in Batches /\ c.flight \in Batches
        /\ c.rec.open \in BOOLEAN /\ c.flight.open \in BOOLEAN
    BY ContextFields, BatchFields DEF Sound
  <1> QED
    BY <1>1 DEF Fences

LEMMA BatchSettles ==
  ASSUME NEW c, Sound(c), ~c.rec.open, ~c.flight.open, c.fences <= 1,
         NEW ok \in BOOLEAN, NEW b \in Batches, NEW completes \in BOOLEAN,
         NEW r, r.ok = ok, r.ctx = c,
         NEW f \in Settled(r, b, completes)
  PROVE  /\ f.ok \in BOOLEAN /\ Flushed(c, f.ctx)
         /\ ~f.ctx.rec.open
         /\ completes => ~f.ctx.flight.open
  <1>1. c \in Contexts /\ c.fences \in Nat /\ b.open \in BOOLEAN
    BY FencesNat, BatchFields DEF Sound
  <1>2. CASE ~ok
    <2> DEFINE d == Leaked(c, b.retired, b.staging)
    <2>1. Lasting(c, d) /\ d.fences = c.fences
      BY BatchFields, LeakedKeeps
    <2>2. f.ok = FALSE /\ f.ctx = d
      BY <1>2 DEF Settled, Failed
    <2> HIDE DEF d
    <2>3. Fences(d) <= 2
      BY <1>1, <2>1 DEF Fences, Lasting
    <2> QED
      BY <2>1, <2>2, <2>3 DEF Lasting, Flushed
  <1>3. CASE ok /\ completes
    <2>1. f \in Finishes(c, b)
      BY <1>3 DEF Settled
    <2>2. f.ok \in BOOLEAN /\ Lasting(c, f.ctx) /\ f.ctx.fences <= c.fences + 1
      BY <2>1, FinishesKeep
    <2>3. f.ctx.fences \in Nat
      BY <2>2, FencesNat DEF Lasting
    <2>4. Fences(f.ctx) <= 2
      BY <1>1, <2>2, <2>3 DEF Fences, Lasting
    <2> QED
      BY <2>2, <2>4 DEF Lasting, Flushed
  <1>4. CASE ok /\ ~completes
    <2> DEFINE d == FlightTo(c, b)
    <2>1. /\ Sound(d) /\ StageGrew(c, d) /\ d.owned = c.owned /\ d.fences = c.fences
          /\ d.rec = c.rec /\ d.flight = b
      BY FlightReplaced
    <2>2. f.ok = TRUE /\ f.ctx = d
      BY <1>4 DEF Settled, Done, FlightTo
    <2> HIDE DEF d
    <2>3. Fences(d) <= 2
      BY <1>1, <2>1 DEF Fences
    <2> QED
      BY <1>4, <2>1, <2>2, <2>3 DEF Flushed
  <1> QED
    BY <1>2, <1>3, <1>4

LEMMA FlushesKeep ==
  ASSUME NEW c, Sound(c), Fences(c) <= 2, NEW completes \in BOOLEAN
  PROVE  \A f \in Flushes(c, completes) :
           /\ f.ok \in BOOLEAN /\ Flushed(c, f.ctx)
           /\ completes /\ f.ok => ~f.ctx.rec.open /\ ~f.ctx.flight.open
  <1>1. /\ c \in Contexts /\ c.fences \in Nat /\ c.rec \in Batches
        /\ c.rec.open \in BOOLEAN /\ c.flight.open \in BOOLEAN
    BY FencesNat DEF Sound
  <1>2. Flushed(c, c)
    BY <1>1, StageStays DEF Flushed
  <1>3. CASE c.rec.open
    <2> DEFINE d == RecTo(c, NoBatch)
    <2>1. /\ Sound(d) /\ StageGrew(c, d) /\ d.owned = c.owned /\ d.fences = c.fences
          /\ d.rec = NoBatch /\ d.flight = c.flight
      BY EmptyBatch, RecReplaced
    <2>2. Flushes(c, completes)
            = Losses(d, c.rec) \cup UNION {Settled(r, c.rec, completes) : r \in Reaps(d)}
      BY <1>3 DEF Flushes, RecTo
    <2> HIDE DEF d
    <2>3. d \in Contexts /\ ~d.rec.open /\ Fences(d) <= 1 /\ Fences(d) \in Nat
      BY <1>1, <1>3, <2>1, EmptyBatch, FencesNat DEF Fences, Sound
    <2>4. ASSUME NEW f \in Losses(d, c.rec)
          PROVE  f.ok = FALSE /\ Flushed(c, f.ctx)
      <3>1. f.ok = FALSE /\ Lasting(d, f.ctx) /\ f.ctx.fences = d.fences
        BY <1>1, <2>1, LossesKeep
      <3>2. Sound(f.ctx) /\ StageGrew(c, f.ctx)
        BY <1>1, <2>1, <2>3, <3>1, StageGrewOn DEF Lasting, Sound
      <3>3. Fences(f.ctx) = Fences(d)
        BY <3>1 DEF Fences, Lasting
      <3> QED
        BY <2>1, <2>3, <3>1, <3>2, <3>3 DEF Flushed, Lasting
    <2>5. ASSUME NEW r \in Reaps(d), NEW f \in Settled(r, c.rec, completes)
          PROVE  /\ f.ok \in BOOLEAN /\ Flushed(c, f.ctx)
                 /\ completes => ~f.ctx.rec.open /\ ~f.ctx.flight.open
      <3>1. /\ r.ok \in BOOLEAN /\ Sound(r.ctx) /\ StageGrew(d, r.ctx)
            /\ r.ctx.owned = d.owned /\ r.ctx.rec = d.rec /\ ~r.ctx.flight.open
            /\ Fences(r.ctx) <= Fences(d)
        BY <2>1, ReapsKeep
      <3>2. r.ctx.fences \in Nat /\ Fences(r.ctx) = r.ctx.fences
        BY <2>3, <3>1, FencesNat DEF Fences
      <3>3. r.ctx.fences <= 1 /\ ~r.ctx.rec.open
        BY <2>3, <3>1, <3>2
      <3>4. /\ f.ok \in BOOLEAN /\ Flushed(r.ctx, f.ctx)
            /\ ~f.ctx.rec.open /\ (completes => ~f.ctx.flight.open)
        BY <1>1, <3>1, <3>3, BatchSettles
      <3>5. r.ctx \in Contexts /\ f.ctx \in Contexts
        BY <3>1, <3>4 DEF Flushed, Sound
      <3>6. StageGrew(c, r.ctx)
        BY <1>1, <2>1, <2>3, <3>1, <3>5, StageGrewOn
      <3>7. StageGrew(c, f.ctx)
        BY <1>1, <3>4, <3>5, <3>6, StageGrewOn DEF Flushed
      <3> QED
        BY <2>1, <3>1, <3>4, <3>7 DEF Flushed
    <2>6. ASSUME NEW f \in Flushes(c, completes)
          PROVE  /\ f.ok \in BOOLEAN /\ Flushed(c, f.ctx)
                 /\ completes /\ f.ok => ~f.ctx.rec.open /\ ~f.ctx.flight.open
      <3>1. CASE f \in Losses(d, c.rec)
        BY <2>4, <3>1
      <3>2. CASE \E r \in Reaps(d) : f \in Settled(r, c.rec, completes)
        BY <2>5, <3>2
      <3> QED
        BY <2>2, <3>1, <3>2
    <2> QED
      BY <2>6
  <1>4. CASE ~c.rec.open /\ completes
    <2>1. Flushes(c, completes) = Reaps(c)
      BY <1>4 DEF Flushes
    <2>2. ASSUME NEW f \in Reaps(c)
          PROVE  f.ok \in BOOLEAN /\ Flushed(c, f.ctx)
                 /\ ~f.ctx.rec.open /\ ~f.ctx.flight.open
      <3>1. /\ f.ok \in BOOLEAN /\ Sound(f.ctx) /\ StageGrew(c, f.ctx)
            /\ f.ctx.owned = c.owned /\ f.ctx.rec = c.rec /\ ~f.ctx.flight.open
            /\ Fences(f.ctx) <= Fences(c)
        BY ReapsKeep
      <3>2. Fences(f.ctx) <= 2
        BY <3>1, FencesNat
      <3> QED
        BY <1>4, <3>1, <3>2 DEF Flushed
    <2> QED
      BY <2>1, <2>2
  <1>5. CASE ~c.rec.open /\ ~completes
    <2>1. \A f \in Flushes(c, completes) : f.ok = TRUE /\ f.ctx = c
      BY <1>5 DEF Flushes, Done
    <2> QED
      BY <1>2, <1>5, <2>1
  <1> QED
    BY <1>1, <1>3, <1>4, <1>5

(* A submission of one's own, once nothing else is open. *)
LEMMA OneShotsKeep ==
  ASSUME NEW c, Sound(c), Fences(c) <= 2, ~c.rec.open, ~c.flight.open
  PROVE  \A r \in OneShots(c) :
           r.ok \in BOOLEAN /\ Lasting(c, r.ctx) /\ Fences(r.ctx) <= 2
  <1> DEFINE d == TakeFence(c)
  <1>1. c.fences \in Nat /\ c.fences <= 2
    BY FencesNat DEF Fences
  <1>2. /\ Lasting(c, d) /\ d.fences \in Nat
        /\ d.fences = (IF c.fences > 0 THEN c.fences - 1 ELSE 0)
    BY TakeFenceKeeps
  <1> HIDE DEF d
  <1>3. Sound(d) /\ d.rec = c.rec /\ d.flight = c.flight
    BY <1>2 DEF Lasting
  <1>4. Lasting(d, KeepFence(d)) /\ KeepFence(d).fences <= d.fences + 1
    BY <1>3, KeepFenceKeeps
  <1>5. Lasting(c, KeepFence(d))
    BY <1>2, <1>4, LastingOn
  <1>6. Fences(KeepFence(d)) <= 2
    <2>1. KeepFence(d).fences \in Nat /\ KeepFence(d).rec = c.rec /\ KeepFence(d).flight = c.flight
      BY <1>5, FencesNat DEF Lasting
    <2> QED
      BY <1>1, <1>2, <1>4, <2>1 DEF Fences
  <1>7. ASSUME NEW e \in {"no", "lost", "unknown"}
        PROVE  Lasting(c, EndedTo(d, e)) /\ Fences(EndedTo(d, e)) <= 2
    <2>1. Lasting(d, EndedTo(d, e)) /\ EndedTo(d, e).fences = d.fences
      BY <1>3, EndedReplaced
    <2>2. Lasting(c, EndedTo(d, e))
      BY <1>2, <2>1, LastingOn
    <2>3. EndedTo(d, e).rec = c.rec /\ EndedTo(d, e).flight = c.flight
      BY <2>2 DEF Lasting
    <2>4. Fences(EndedTo(d, e)) <= 2
      BY <1>1, <1>2, <2>1, <2>3 DEF Fences
    <2> QED
      BY <2>2, <2>4
  <1>8. ASSUME NEW r \in OneShots(c)
        PROVE  r.ok \in BOOLEAN /\ Lasting(c, r.ctx) /\ Fences(r.ctx) <= 2
    <2>1. CASE r = Done(KeepFence(TakeFence(c)))
      <3>1. r.ok = TRUE /\ r.ctx = KeepFence(d)
        BY <2>1 DEF Done, d
      <3> QED
        BY <1>5, <1>6, <3>1
    <2>2. CASE \E e \in {"no", "lost", "unknown"} :
                 r = Failed([TakeFence(c) EXCEPT !.ended = e])
      <3>1. PICK e \in {"no", "lost", "unknown"} :
              r = Failed([TakeFence(c) EXCEPT !.ended = e])
        BY <2>2
      <3>2. r.ok = FALSE /\ r.ctx = EndedTo(d, e)
        BY <3>1 DEF Failed, EndedTo, d
      <3> QED
        BY <1>7, <3>2
    <2> QED
      BY <2>1, <2>2 DEF OneShots
  <1> QED
    BY <1>8

LEMMA OpenedKeeps ==
  ASSUME NEW c, Sound(c), Fences(c) <= 2
  PROVE  /\ Flushed(c, Opened(c))
         /\ Opened(c).rec \in Batches
         /\ Opened(c).flight = c.flight
  <1>1. /\ c \in Contexts /\ c.fences \in Nat /\ c.rec \in Batches
        /\ c.rec.open \in BOOLEAN /\ c.flight.open \in BOOLEAN
    BY FencesNat DEF Sound
  <1>2. CASE c.rec.open
    <2>1. Opened(c) = c
      BY <1>2 DEF Opened
    <2> QED
      BY <1>1, <2>1, StageStays DEF Flushed
  <1>3. CASE ~c.rec.open
    <2> DEFINE t == TakeFence(c)
               b == [NoBatch EXCEPT !.open = TRUE]
               d == RecTo(t, b)
    <2>1. b \in Batches /\ b.open = TRUE
      BY EmptyBatch DEF Batches
    <2>2. /\ Lasting(c, t) /\ t.fences \in Nat
          /\ t.fences = (IF c.fences > 0 THEN c.fences - 1 ELSE 0)
      BY TakeFenceKeeps
    <2>3. Opened(c) = d
      BY <1>3 DEF Opened, RecTo
    <2> HIDE DEF t, b
    <2>4. /\ Sound(t) /\ StageGrew(c, t)
          /\ t.owned = c.owned /\ t.flight = c.flight
      BY <2>2 DEF Lasting
    <2>5. /\ Sound(d) /\ StageGrew(t, d) /\ d.owned = t.owned
          /\ d.fences = t.fences /\ d.rec = b /\ d.flight = t.flight
      BY <2>1, <2>4, RecReplaced
    <2> HIDE DEF d
    <2>6. StageGrew(c, d)
      BY <1>1, <2>4, <2>5, StageGrewOn DEF Sound
    <2>7. Fences(d) <= 2
      BY <1>1, <1>3, <2>1, <2>2, <2>4, <2>5 DEF Fences
    <2> QED
      BY <2>1, <2>3, <2>4, <2>5, <2>6, <2>7 DEF Flushed
  <1> QED
    BY <1>1, <1>2, <1>3


-----------------------------------------------------------------------------
(* What a request takes.                                                   *)

LEMMA RequestSize ==
  ASSUME NEW c, NEW bytes \in Nat \ {0}
  PROVE  /\ SizeOf(c, bytes) \in Nat \ {0} /\ bytes <= SizeOf(c, bytes)
         /\ SizeOf(c, bytes) <= PoolClass(RoundedUp(bytes, Word))
         /\ PoolClass(RoundedUp(bytes, Word)) \in Nat
         /\ RoundedUp(bytes, Word) <= Limit => SizeOf(c, bytes) \in Sizes
  <1> DEFINE size == RoundedUp(bytes, Word)
             class == PoolClass(size)
  <1>1. size \in Nat /\ bytes <= size
    BY Constants, RoundsUp
  <1> HIDE DEF size
  <1>2. class \in Nat /\ size <= class /\ (size <= Limit => class <= Limit)
    BY <1>1, ClassHolds
  <1>3. SizeOf(c, bytes) = class \/ SizeOf(c, bytes) = size
    BY DEF SizeOf, size
  <1> HIDE DEF class
  <1>4. /\ SizeOf(c, bytes) \in Nat \ {0} /\ bytes <= SizeOf(c, bytes)
        /\ SizeOf(c, bytes) <= class
        /\ size <= Limit => SizeOf(c, bytes) \in Sizes
    BY <1>1, <1>2, <1>3, Constants DEF Sizes
  <1> QED
    BY <1>2, <1>4 DEF size, class

(* A pair no larger than the ratio allows serves its request. *)
LEMMA PairServes ==
  ASSUME NEW c, NEW bytes \in Nat \ {0}, NEW s \in Nat,
         SizeOf(c, bytes) <= s, s <= ReuseRatio * SizeOf(c, bytes)
  PROVE  Serves([bytes |-> bytes, allocated |-> s])
  <1> DEFINE size == SizeOf(c, bytes)
             class == PoolClass(RoundedUp(bytes, Word))
  <1>1. size \in Nat /\ bytes <= size /\ size <= class /\ class \in Nat
    BY RequestSize
  <1> HIDE DEF size, class
  <1>2. ReuseRatio * size <= ReuseRatio * class
    BY <1>1, Constants, ProductMonotone
  <1>3. ReuseRatio * size \in Nat /\ ReuseRatio * class \in Nat
    BY <1>1, Constants, ProductGrows
  <1>4. bytes <= s /\ s <= ReuseRatio * class
    BY <1>1, <1>2, <1>3 DEF size
  <1> QED
    BY <1>4 DEF Serves, class

LEMMA PickedPair ==
  ASSUME NEW c, Sound(c), NEW size \in Nat \ {0}, NEW s \in Picks(c, size)
  PROVE  /\ s \in DOMAIN c.pool /\ s \in Sizes
         /\ size <= s /\ s <= ReuseRatio * size
  <1> DEFINE larger == {x \in DOMAIN c.pool : size < x /\ x <= ReuseRatio * size}
  <1>1. DOMAIN c.pool \subseteq Sizes
    BY ContextFields, BagShape DEF Sound
  <1>2. size <= ReuseRatio * size /\ ReuseRatio * size \in Nat
    BY Constants, ProductGrows
  <1>3. (s = size /\ s \in DOMAIN c.pool) \/ (larger # {} /\ s = Min(larger))
    BY DEF Picks, BagToSet
  <1>4. CASE s = size /\ s \in DOMAIN c.pool
    BY <1>1, <1>2, <1>4
  <1>5. CASE larger # {} /\ s = Min(larger)
    <2>1. larger \subseteq Nat
      BY <1>1 DEF Sizes
    <2>2. s \in larger
      BY <1>5, <2>1, MinOf
    <2>3. s \in DOMAIN c.pool /\ size < s /\ s <= ReuseRatio * size
      BY <2>2
    <2> QED
      BY <1>1, <2>3 DEF Sizes
  <1> QED
    BY <1>3, <1>4, <1>5

(* The buffer is live, in the memory of whatever served it. *)
OwnedTo(c, owned) == [c EXCEPT !.owned = owned]

LEMMA OwnedReplaced ==
  ASSUME NEW c, Sound(c), NEW owned \in BagsOver(Owned)
  PROVE  /\ Sound(OwnedTo(c, owned)) /\ StageGrew(c, OwnedTo(c, owned))
         /\ OwnedTo(c, owned).fences = c.fences
         /\ OwnedTo(c, owned).rec = c.rec /\ OwnedTo(c, owned).flight = c.flight
         /\ SameMemory(c, OwnedTo(c, owned))
  <1> DEFINE d == OwnedTo(c, owned)
  <1>1. c \in Contexts
    BY DEF Sound
  <1>2. /\ d \in Contexts /\ SameMemory(c, d) /\ d.fences = c.fences
        /\ d.rec = c.rec /\ d.flight = c.flight
    BY <1>1 DEF Contexts, SameMemory, OwnedTo
  <1> HIDE DEF d
  <1>3. FencesFine(d)
    BY <1>2 DEF FencesFine, SameMemory, Sound
  <1>4. Sound(d) /\ StageGrew(c, d)
    BY <1>2, <1>3, SoundBeside
  <1> QED
    BY <1>2, <1>4 DEF d

LEMMA OwningKeeps ==
  ASSUME NEW c, Sound(c), NEW bytes \in Requests \ {0}, NEW s \in Sizes,
         Serves([bytes |-> bytes, allocated |-> s])
  PROVE  /\ Sound(Owning(c, bytes, s)) /\ Fences(Owning(c, bytes, s)) = Fences(c)
         /\ SameMemory(c, Owning(c, bytes, s))
  <1> DEFINE b == [bytes |-> bytes, allocated |-> s]
             owned == With(c.owned, b)
  <1>1. b \in Owned
    BY DEF Owned
  <1>2. c.owned \in BagsOver(Owned)
    BY ContextFields DEF Sound
  <1> HIDE DEF b
  <1>3. owned \in BagsOver(Owned)
    BY <1>1, <1>2, AddedOne
  <1>4. Owning(c, bytes, s) = OwnedTo(c, owned)
    BY DEF Owning, OwnedTo, b
  <1> HIDE DEF owned
  <1>5. /\ Sound(OwnedTo(c, owned)) /\ OwnedTo(c, owned).fences = c.fences
        /\ OwnedTo(c, owned).rec = c.rec /\ OwnedTo(c, owned).flight = c.flight
        /\ SameMemory(c, OwnedTo(c, owned))
    BY <1>3, OwnedReplaced
  <1> QED
    BY <1>4, <1>5 DEF Fences

(* A buffer served from the pool. *)
LEMMA PoolHitKeeps ==
  ASSUME NEW c, Sound(c), NEW bytes \in Requests \ {0}, NEW s \in Picks(c, SizeOf(c, bytes))
  PROVE  /\ Sound([Owning(c, bytes, s) EXCEPT !.pool = Without(@, s), !.poolBytes = @ - s])
         /\ Fences([Owning(c, bytes, s) EXCEPT !.pool = Without(@, s), !.poolBytes = @ - s])
              = Fences(c)
  <1> DEFINE d == Owning(c, bytes, s)
             pool == Without(c.pool, s)
  <1>1. bytes \in Nat \ {0} /\ SizeOf(c, bytes) \in Nat \ {0}
    BY Constants, RequestSize
  <1>2. /\ s \in DOMAIN c.pool /\ s \in Sizes
        /\ SizeOf(c, bytes) <= s /\ s <= ReuseRatio * SizeOf(c, bytes)
    BY <1>1, PickedPair
  <1>3. Serves([bytes |-> bytes, allocated |-> s])
    BY <1>1, <1>2, PairServes DEF Sizes
  <1>4. Sound(d) /\ Fences(d) = Fences(c) /\ SameMemory(c, d)
    BY <1>2, <1>3, OwningKeeps
  <1> HIDE DEF d
  <1>5. /\ c.pool \in BagsOver(Sizes) /\ c.poolBytes = BytesOf(c.pool)
        /\ c.set \in Settings /\ c.poolBytes \in Nat
        /\ c.poolBytes <= (IF c.set.on THEN c.set.max ELSE 0)
    BY ContextFields DEF Sound, PoolFine
  <1>6. pool \in BagsOver(Sizes)
    BY <1>5, RemovedOne
  <1>7. BytesOf(pool) \in Nat /\ c.poolBytes = BytesOf(pool) + s /\ s \in Nat
    BY <1>2, <1>5, PoolWeighs
  <1> HIDE DEF pool
  <1>8. (IF c.set.on THEN c.set.max ELSE 0) \in Nat
    BY <1>5, SettingFields
  <1>9. BytesOf(pool) <= (IF d.set.on THEN d.set.max ELSE 0)
    BY <1>4, <1>5, <1>7, <1>8 DEF SameMemory
  <1>10. Kept(d, PoolTo(d, pool, BytesOf(pool)))
    BY <1>4, <1>6, <1>9, PoolKept
  <1>11. d.poolBytes - s = BytesOf(pool) /\ Without(d.pool, s) = pool
    BY <1>4, <1>7 DEF SameMemory, pool
  <1>12. [d EXCEPT !.pool = Without(@, s), !.poolBytes = @ - s]
           = PoolTo(d, pool, BytesOf(pool))
    BY <1>11 DEF PoolTo
  <1>13. Sound(PoolTo(d, pool, BytesOf(pool))) /\ Fences(PoolTo(d, pool, BytesOf(pool))) = Fences(d)
    BY <1>10 DEF Kept, Carried, Fences
  <1> QED
    BY <1>4, <1>12, <1>13 DEF d


-----------------------------------------------------------------------------
(* What a miss gives back.                                                 *)

(* The bytes used beside the pool. *)
Rest(c) ==
  OwnedBytes(c.owned) + SumOf(c.rec.retired) + SumOf(c.flight.retired) + c.adrift
    + (IF Unified THEN HostHeld(c) ELSE 0)

LEMMA OwnedWeigh ==
  ASSUME NEW B \in BagsOver(Owned)
  PROVE  OwnedBytes(B) \in Nat
  <1> DEFINE v == [b \in DOMAIN B |-> b.allocated]
             w == [b \in Owned |-> b.allocated]
  <1>1. DOMAIN B \subseteq Owned
    BY BagShape
  <1>2. \A b \in DOMAIN B : v[b] = w[b]
    BY <1>1
  <1>3. w \in [Owned -> Nat]
    BY DEF Owned, Sizes
  <1>4. OwnedBytes(B) = Weigh(B, v)
    BY DEF OwnedBytes
  <1> HIDE DEF v, w
  <1>5. Weigh(B, v) = Weigh(B, w)
    BY <1>2, WeighsBy
  <1>6. Weigh(B, w) \in Nat
    BY <1>3, WeighsNat
  <1> QED
    BY <1>4, <1>5, <1>6

LEMMA HostWeighs ==
  ASSUME NEW c, Sound(c)
  PROVE  HostHeld(c) \in Nat
  <1>1. /\ c.stage \in BagsOver(Pooled) /\ c.hostAdrift \in Nat
        /\ c.rec.staging \in Seq(Areas) /\ c.flight.staging \in Seq(Areas)
    BY ContextFields, BatchFields DEF Sound
  <1>2. /\ StagingBytes(c.stage) \in Nat
        /\ PairBytes(c.rec.staging) \in Nat /\ PairBytes(c.flight.staging) \in Nat
    BY <1>1, StageWeighs, StagingWeighs
  <1> QED
    BY <1>1, <1>2 DEF HostHeld

LEMMA UsedSplits ==
  ASSUME NEW c, Sound(c)
  PROVE  /\ Rest(c) \in Nat /\ BytesOf(c.pool) \in Nat
         /\ Used(c) = BytesOf(c.pool) + Rest(c)
  <1>1. /\ c.pool \in BagsOver(Sizes) /\ c.owned \in BagsOver(Owned) /\ c.adrift \in Nat
        /\ c.rec.retired \in Seq(Sizes) /\ c.flight.retired \in Seq(Sizes)
    BY ContextFields, BatchFields DEF Sound
  <1>2. /\ BytesOf(c.pool) \in Nat /\ OwnedBytes(c.owned) \in Nat
        /\ SumOf(c.rec.retired) \in Nat /\ SumOf(c.flight.retired) \in Nat
    BY <1>1, PoolWeighs, OwnedWeigh, RetiredWeigh
  <1> DEFINE shared == IF Unified THEN HostHeld(c) ELSE 0
  <1>3. shared \in Nat
    BY HostWeighs
  <1>4. /\ Rest(c) = OwnedBytes(c.owned) + SumOf(c.rec.retired) + SumOf(c.flight.retired)
                      + c.adrift + shared
        /\ Used(c) = BytesOf(c.pool) + OwnedBytes(c.owned) + SumOf(c.rec.retired)
                      + SumOf(c.flight.retired) + c.adrift + shared
    BY DEF Rest, Used, DeviceHeld
  <1> HIDE DEF shared
  <1>5. Rest(c) \in Nat
    BY <1>1, <1>2, <1>3, <1>4
  <1>6. Used(c) = BytesOf(c.pool) + Rest(c)
    BY <1>1, <1>2, <1>3, <1>4, SMTT(30)
  <1> QED
    BY <1>2, <1>5, <1>6

LEMMA ShrunkUses ==
  ASSUME NEW c, Sound(c), NEW R \in BagsOver(Sizes), BytesOf(R) <= BytesOf(c.pool)
  PROVE  /\ Sound(Shrunk(c, R)) /\ Carried(c, Shrunk(c, R))
         /\ Shrunk(c, R).pool = R
         /\ Used(Shrunk(c, R)) = BytesOf(R) + Rest(c)
         /\ Rest(Shrunk(c, R)) = Rest(c)
  <1> DEFINE d == PoolTo(c, R, BytesOf(R))
  <1>1. Shrunk(c, R) = d /\ Kept(c, Shrunk(c, R))
    BY ShrunkKeeps
  <1>2. c \in Contexts
    BY DEF Sound
  <1>3. /\ d.pool = R /\ d.owned = c.owned /\ d.rec = c.rec /\ d.flight = c.flight
        /\ d.adrift = c.adrift /\ d.hostAdrift = c.hostAdrift /\ d.stage = c.stage
    BY <1>2 DEF Contexts, PoolTo
  <1> HIDE DEF d
  <1>4. Rest(d) = Rest(c)
    BY <1>3 DEF Rest, HostHeld
  <1>5. Sound(d) /\ Carried(c, d)
    BY <1>1 DEF Kept
  <1>6. Used(d) = BytesOf(R) + Rest(c)
    BY <1>3, <1>4, <1>5, UsedSplits
  <1> QED
    BY <1>1, <1>3, <1>4, <1>5, <1>6

(* A miss first makes room under the budget. *)
LEMMA BudgetMade ==
  ASSUME NEW c, Sound(c), NEW size \in Nat \ {0}, NEW budget \in Nat
  PROVE  \E R \in BagsOver(Sizes) :
           /\ WithinBudget(c, size, budget) = Shrunk(c, R)
           /\ BytesOf(R) <= BytesOf(c.pool)
           /\ Used(c) <= budget /\ R # EmptyBag =>
                BytesOf(R) + Rest(c) + size + Margin <= budget
  <1>1. c.pool \in BagsOver(Sizes) /\ c.poolBytes = BytesOf(c.pool) /\ c \in Contexts
    BY ContextFields DEF Sound, PoolFine
  <1>2. /\ Rest(c) \in Nat /\ BytesOf(c.pool) \in Nat /\ Margin \in Nat
        /\ Used(c) = BytesOf(c.pool) + Rest(c)
    BY UsedSplits, Constants
  <1>3. Room(c, budget) \in Nat /\ (Used(c) <= budget => Room(c, budget) = budget - Used(c))
    BY <1>2 DEF Room
  <1>4. CASE Room(c, budget) < size + Margin /\ c.pool # EmptyBag
    <2> DEFINE want == size + Margin - Room(c, budget)
               R == EvictLargest(c.pool, want)
    <2>1. want \in Int
      BY <1>2, <1>3
    <2>2. WithinBudget(c, size, budget) = Shrunk(c, R)
      BY <1>4 DEF WithinBudget
    <2> HIDE DEF want
    <2>3. GivesBack(R, c.pool, want)
      BY <1>1, <2>1, EvictLargestGives
    <2> HIDE DEF R
    <2>4. /\ R \in BagsOver(Sizes) /\ BytesOf(R) <= BytesOf(c.pool)
          /\ R = EmptyBag \/ BytesOf(c.pool) - BytesOf(R) >= want
      BY <2>3 DEF GivesBack
    <2>5. BytesOf(R) \in Nat
      BY <2>4, PoolWeighs
    <2>6. ASSUME Used(c) <= budget, R # EmptyBag
          PROVE  BytesOf(R) + Rest(c) + size + Margin <= budget
      BY <1>2, <1>3, <2>4, <2>5, <2>6 DEF want
    <2> QED
      BY <2>2, <2>4, <2>6
  <1>5. CASE ~(Room(c, budget) < size + Margin /\ c.pool # EmptyBag)
    <2>1. WithinBudget(c, size, budget) = c
      BY <1>5 DEF WithinBudget
    <2>2. BytesOf(c.pool) <= BytesOf(c.pool)
      BY <1>2
    <2>3. Shrunk(c, c.pool) = PoolTo(c, c.pool, c.poolBytes)
      BY <1>1, <2>2, ShrunkKeeps
    <2>4. PoolTo(c, c.pool, c.poolBytes) = c
      BY <1>1 DEF PoolTo, Contexts
    <2>5. ASSUME Used(c) <= budget, c.pool # EmptyBag
          PROVE  BytesOf(c.pool) + Rest(c) + size + Margin <= budget
      BY <1>2, <1>3, <1>5, <2>5
    <2> QED
      BY <1>1, <2>1, <2>2, <2>3, <2>4, <2>5
  <1> QED
    BY <1>4, <1>5

(* The rounds of the retries: each gives back, until nothing is left. *)
Rounds(pool, size, rounds) ==
  rounds = [n \in Nat |->
              IF n = 0 THEN pool ELSE EvictLargest(rounds[n-1], size * Pow2[n-1])]

LEMMA RoundsExist ==
  ASSUME NEW pool \in BagsOver(Sizes), NEW size \in Nat \ {0}
  PROVE  \E rounds : Rounds(pool, size, rounds)
  <1> DEFINE X == BagsOver(Sizes)
             G == [p \in Nat \X X |->
                     IF p[1] = 0 THEN p[2] ELSE EvictLargest(p[2], size * Pow2[p[1]-1])]
  <1>1. ASSUME NEW n \in Nat, NEW B \in X
        PROVE  (IF n = 0 THEN B ELSE EvictLargest(B, size * Pow2[n-1])) \in X
    <2>1. CASE n = 0
      BY <2>1
    <2>2. CASE n # 0
      <3>1. Pow2[n-1] \in Nat
        BY <2>2, Powers
      <3>2. size * Pow2[n-1] \in Int
        BY <3>1, ProductGrows
      <3> QED
        BY <2>2, <3>2, EvictLargestGives DEF GivesBack
    <2> QED
      BY <2>1, <2>2
  <1>2. G \in [Nat \X X -> X]
    <2>1. \A p \in Nat \X X : p[1] \in Nat /\ p[2] \in X
      OBVIOUS
    <2>2. \A p \in Nat \X X :
            (IF p[1] = 0 THEN p[2] ELSE EvictLargest(p[2], size * Pow2[p[1]-1])) \in X
      BY <1>1, <2>1
    <2> QED
      BY <2>2
  <1>3. \A n \in Nat, B \in X :
          G[<<n, B>>] = (IF n = 0 THEN B ELSE EvictLargest(B, size * Pow2[n-1]))
    OBVIOUS
  <1> HIDE DEF G
  <1>4. PICK f \in [Nat -> X] : Recursive(pool, G, f)
    BY <1>2, Recursion
  <1>5. ASSUME NEW n \in Nat
        PROVE  f[n] = (IF n = 0 THEN pool ELSE EvictLargest(f[n-1], size * Pow2[n-1]))
    <2>1. CASE n = 0
      BY <1>4, <2>1 DEF Recursive
    <2>2. CASE n # 0
      <3>1. n \in Nat \ {0} /\ n - 1 \in Nat
        BY <2>2
      <3>2. f[n-1] \in X
        BY <1>4, <3>1
      <3>3. f[n] = G[<<n, f[n-1]>>]
        BY <1>4, <3>1 DEF Recursive
      <3> QED
        BY <1>3, <2>2, <3>2, <3>3
    <2> QED
      BY <2>1, <2>2
  <1>6. f = [n \in Nat |-> IF n = 0 THEN pool ELSE EvictLargest(f[n-1], size * Pow2[n-1])]
    BY <1>4, <1>5
  <1> QED
    BY <1>6 DEF Rounds

LEMMA RoundsGiveBack ==
  ASSUME NEW pool \in BagsOver(Sizes), NEW size \in Nat \ {0},
         NEW rounds, Rounds(pool, size, rounds)
  PROVE  /\ rounds[0] = pool
         /\ \A n \in Nat :
              /\ rounds[n] \in BagsOver(Sizes)
              /\ BytesOf(rounds[n]) <= BytesOf(pool)
              /\ rounds[n+1] = rounds[n] <=> rounds[n] = EmptyBag
              /\ Count(rounds[n]) + n <= Count(pool) \/ rounds[n] = EmptyBag
  <1>1. /\ rounds[0] = pool
        /\ \A n \in Nat : rounds[n+1] = EvictLargest(rounds[n], size * Pow2[n])
    <2>1. rounds[0] = pool
      BY DEF Rounds
    <2>2. ASSUME NEW n \in Nat
          PROVE  rounds[n+1] = EvictLargest(rounds[n], size * Pow2[n])
      <3>1. n + 1 \in Nat /\ n + 1 # 0 /\ (n + 1) - 1 = n
        OBVIOUS
      <3>2. \A m \in Nat : m # 0 =>
              rounds[m] = EvictLargest(rounds[m-1], size * Pow2[m-1])
        BY DEF Rounds
      <3>3. rounds[n+1] = EvictLargest(rounds[(n+1)-1], size * Pow2[(n+1)-1])
        BY <3>1, <3>2
      <3> QED
        BY <3>1, <3>3
    <2> QED
      BY <2>1, <2>2
  <1> DEFINE Right(n) ==
               /\ rounds[n] \in BagsOver(Sizes)
               /\ BytesOf(rounds[n]) <= BytesOf(pool)
               /\ Count(rounds[n]) + n <= Count(pool) \/ rounds[n] = EmptyBag
             T == {n \in Nat : Right(n)}
  <1>2. \A B \in BagsOver(Sizes) : BytesOf(B) \in Nat /\ Count(B) \in Nat
    BY PoolWeighs
  <1>3. 0 \in T
    BY <1>1, <1>2
  <1>4. ASSUME NEW n \in Nat, rounds[n] \in BagsOver(Sizes)
        PROVE  /\ GivesBack(rounds[n+1], rounds[n], size * Pow2[n])
               /\ size * Pow2[n] \in Nat \ {0}
    <2>1. Pow2[n] \in Nat \ {0}
      BY Powers
    <2>2. size * Pow2[n] \in Nat /\ Pow2[n] <= size * Pow2[n]
      BY <2>1, ProductGrows
    <2>3. size * Pow2[n] \in Int /\ size * Pow2[n] \in Nat \ {0}
      BY <2>1, <2>2
    <2>4. GivesBack(EvictLargest(rounds[n], size * Pow2[n]), rounds[n], size * Pow2[n])
      BY <1>4, <2>3, EvictLargestGives
    <2> QED
      BY <1>1, <2>3, <2>4
  <1>5. ASSUME NEW n \in Nat, rounds[n] \in BagsOver(Sizes)
        PROVE  /\ rounds[n+1] \in BagsOver(Sizes)
               /\ BytesOf(rounds[n+1]) <= BytesOf(rounds[n])
               /\ IF rounds[n] = EmptyBag THEN rounds[n+1] = EmptyBag
                  ELSE Count(rounds[n+1]) < Count(rounds[n])
    <2>1. /\ rounds[n+1] \in BagsOver(Sizes)
          /\ BytesOf(rounds[n+1]) <= BytesOf(rounds[n])
          /\ Count(rounds[n+1]) <= Count(rounds[n])
          /\ size * Pow2[n] > 0 /\ rounds[n] # EmptyBag => Count(rounds[n+1]) < Count(rounds[n])
      BY <1>4, <1>5 DEF GivesBack
    <2>2. size * Pow2[n] > 0
      BY <1>4, <1>5
    <2>3. rounds[n] = EmptyBag => rounds[n+1] = EmptyBag
      <3>1. ASSUME rounds[n] = EmptyBag PROVE Count(rounds[n+1]) = 0
        BY <1>2, <2>1, <3>1, EmptyPool
      <3> QED
        BY <2>1, <3>1, EmptyPool
    <2> QED
      BY <2>1, <2>2, <2>3
  <1>6. ASSUME NEW n \in T PROVE n + 1 \in T
    <2>1. n \in Nat /\ Right(n)
      OBVIOUS
    <2>2. Right(n+1)
      BY <1>2, <1>5, <2>1
    <2> QED
      BY <2>1, <2>2
  <1>7. T = Nat
    <2> HIDE DEF Right
    <2>1. T \subseteq Nat
      OBVIOUS
    <2> HIDE DEF T
    <2> QED
      BY <1>3, <1>6, <2>1, SetInduction
  <1>8. \A n \in Nat : Right(n)
    BY <1>7
  <1>9. \A n \in Nat : rounds[n+1] = rounds[n] <=> rounds[n] = EmptyBag
    BY <1>2, <1>5, <1>8
  <1> QED
    BY <1>1, <1>8, <1>9


(* The contexts a miss tries: the last has emptied its pool. *)
Attempts(c, size, tries, last, rounds) ==
  /\ last \in Nat
  /\ tries = [n \in 0 .. last |-> Shrunk(c, rounds[n])]
  /\ rounds[last] = EmptyBag
  /\ \A n \in 0 .. last :
       rounds[n] \in BagsOver(Sizes) /\ BytesOf(rounds[n]) <= BytesOf(c.pool)

LEMMA TriesGiveBack ==
  ASSUME NEW c, Sound(c), NEW size \in Nat \ {0}
  PROVE  \E last, rounds : Attempts(c, size, Tries(c, size), last, rounds)
  <1> DEFINE rounds == CHOOSE rounds : Rounds(c.pool, size, rounds)
             same == {n \in 1 .. Count(c.pool) + 1 : rounds[n] = rounds[n-1]}
             last == Min(same)
  <1>1. c.pool \in BagsOver(Sizes) /\ Count(c.pool) \in Nat
    BY ContextFields, PoolWeighs DEF Sound
  <1>2. Rounds(c.pool, size, rounds)
    BY <1>1, RoundsExist
  <1>3. Tries(c, size) = [n \in 0 .. last |-> Shrunk(c, rounds[n])]
    BY DEF Tries, Rounds
  <1> HIDE DEF rounds
  <1>4. \A n \in Nat :
          /\ rounds[n] \in BagsOver(Sizes)
          /\ BytesOf(rounds[n]) <= BytesOf(c.pool)
          /\ rounds[n+1] = rounds[n] <=> rounds[n] = EmptyBag
          /\ Count(rounds[n]) + n <= Count(c.pool) \/ rounds[n] = EmptyBag
    BY <1>1, <1>2, RoundsGiveBack
  <1>5. Count(c.pool) + 1 \in same
    <2> DEFINE n == Count(c.pool)
    <2>1. rounds[n] \in BagsOver(Sizes) /\ (Count(rounds[n]) + n <= n \/ rounds[n] = EmptyBag)
      BY <1>1, <1>4
    <2>2. Count(rounds[n]) \in Nat
      BY <2>1, PoolWeighs
    <2> HIDE DEF n
    <2>3. n \in Nat
      BY <1>1 DEF n
    <2>4. rounds[n] = EmptyBag
      BY <2>1, <2>2, <2>3, EmptyPool
    <2>5. rounds[n+1] = rounds[n] /\ (n + 1) - 1 = n /\ n + 1 \in 1 .. n + 1
      BY <1>4, <2>3, <2>4
    <2> QED
      BY <2>5 DEF n
  <1>6. same \subseteq Nat /\ same # {}
    BY <1>5
  <1>7. last \in same
    <2> HIDE DEF same
    <2> QED
      BY <1>6, MinOf
  <1> HIDE DEF last
  <1>8. last \in Nat \ {0} /\ rounds[last] = rounds[last-1]
    BY <1>1, <1>7
  <1>9. rounds[last] = EmptyBag
    <2>1. last - 1 \in Nat /\ (last - 1) + 1 = last
      BY <1>8
    <2>2. rounds[(last-1)+1] = rounds[last-1] <=> rounds[last-1] = EmptyBag
      BY <1>4, <2>1
    <2> QED
      BY <1>8, <2>1, <2>2
  <1>10. Attempts(c, size, Tries(c, size), last, rounds)
    <2>1. \A n \in 0 .. last : n \in Nat
      BY <1>8
    <2> QED
      BY <1>3, <1>4, <1>8, <1>9, <2>1 DEF Attempts
  <1> QED
    BY <1>10

(* Every attempt shrinks the pool a miss begins with. *)
Attempted(c, size, budget, d) ==
  \E R \in BagsOver(Sizes) :
    /\ Sound(d) /\ Carried(c, d) /\ d.pool = R
    /\ Used(d) = BytesOf(R) + Rest(c)
    /\ Used(c) <= budget /\ R # EmptyBag => Used(d) + size + Margin <= budget

LEMMA AttemptShrinks ==
  ASSUME NEW c, Sound(c), NEW size \in Nat \ {0}, NEW budget \in Nat,
         NEW R \in BagsOver(Sizes), BytesOf(R) <= BytesOf(WithinBudget(c, size, budget).pool)
  PROVE  /\ Attempted(c, size, budget, Shrunk(WithinBudget(c, size, budget), R))
         /\ Shrunk(WithinBudget(c, size, budget), R).pool = R
         /\ Used(Shrunk(WithinBudget(c, size, budget), R)) = BytesOf(R) + Rest(c)
  <1> DEFINE e == WithinBudget(c, size, budget)
             d == Shrunk(e, R)
  <1>1. PICK Q \in BagsOver(Sizes) :
          /\ e = Shrunk(c, Q)
          /\ BytesOf(Q) <= BytesOf(c.pool)
          /\ Used(c) <= budget /\ Q # EmptyBag =>
               BytesOf(Q) + Rest(c) + size + Margin <= budget
    BY BudgetMade
  <1> HIDE DEF e
  <1>2. Sound(e) /\ Carried(c, e) /\ e.pool = Q /\ Rest(e) = Rest(c)
    BY <1>1, ShrunkUses
  <1>3. BytesOf(R) <= BytesOf(e.pool)
    BY DEF e
  <1>4. Sound(d) /\ Carried(e, d) /\ d.pool = R /\ Used(d) = BytesOf(R) + Rest(c)
    BY <1>2, <1>3, ShrunkUses
  <1> HIDE DEF d
  <1>5. Carried(c, d)
    BY <1>2, <1>4 DEF Carried
  <1>6. ASSUME Used(c) <= budget, R # EmptyBag
        PROVE  Used(d) + size + Margin <= budget
    <2>1. /\ BytesOf(R) \in Nat /\ BytesOf(Q) \in Nat /\ Rest(c) \in Nat /\ Margin \in Nat
          /\ BytesOf(R) <= BytesOf(Q)
      BY <1>2, <1>3, PoolWeighs, UsedSplits, Constants
    <2>2. Q # EmptyBag
      <3>1. ASSUME Q = EmptyBag PROVE FALSE
        <4>1. BytesOf(R) = 0
          BY <2>1, <3>1, EmptyPool
        <4>2. DOMAIN R = {}
          <5>1. ASSUME NEW x \in DOMAIN R PROVE FALSE
            <6>1. /\ BytesOf(Without(R, x)) \in Nat /\ x \in Nat \ {0}
                  /\ BytesOf(R) = BytesOf(Without(R, x)) + x
              BY PoolWeighs
            <6> QED
              BY <4>1, <6>1
          <5> QED
            BY <5>1
        <4> QED
          BY <1>6, <4>2, EmptyOnly
      <3> QED
        BY <3>1
    <2>3. BytesOf(Q) + Rest(c) + size + Margin <= budget
      BY <1>1, <1>6, <2>2
    <2> QED
      BY <1>4, <2>1, <2>3
  <1>7. Attempted(c, size, budget, d)
    BY <1>4, <1>5, <1>6 DEF Attempted
  <1> QED
    BY <1>4, <1>7 DEF d, e

(* Where a miss allocates, and where it gives up. *)
LEMMA ServedKeeps ==
  ASSUME NEW c, Sound(c), NEW size \in Nat \ {0}, NEW budget \in Nat
  PROVE  \A d \in Served(c, size, budget) : Attempted(c, size, budget, d)
  <1> DEFINE e == WithinBudget(c, size, budget)
  <1>1. Sound(e)
    BY BudgetMade, ShrunkUses
  <1>2. Served(c, size, budget) \subseteq Range(Tries(e, size))
    BY DEF Served
  <1>3. PICK last, rounds : Attempts(e, size, Tries(e, size), last, rounds)
    BY <1>1, TriesGiveBack
  <1>4. ASSUME NEW d \in Range(Tries(e, size))
        PROVE  Attempted(c, size, budget, d)
    <2>1. PICK n \in 0 .. last : d = Shrunk(e, rounds[n])
      BY <1>3 DEF Attempts, Range
    <2>2. rounds[n] \in BagsOver(Sizes) /\ BytesOf(rounds[n]) <= BytesOf(e.pool)
      BY <1>3 DEF Attempts
    <2> QED
      BY <2>1, <2>2, AttemptShrinks
  <1> QED
    BY <1>2, <1>4

LEMMA LastOf ==
  ASSUME NEW n \in Nat
  PROVE  Max(0 .. n) = n
  <1>1. n \in 0 .. n /\ \A x \in 0 .. n : n >= x
    OBVIOUS
  <1>2. \A m \in 0 .. n : (\A x \in 0 .. n : m >= x) => m = n
    BY <1>1
  <1> QED
    BY <1>1, <1>2 DEF Max

LEMMA RefusedKeeps ==
  ASSUME NEW c, Sound(c), NEW size \in Nat \ {0}, NEW budget \in Nat
  PROVE  \A d \in Refused(c, size, budget) :
           /\ Attempted(c, size, budget, d) /\ d.pool = EmptyBag
           /\ Used(c) - BytesOf(c.pool) + size > Heap
  <1> DEFINE e == WithinBudget(c, size, budget)
             tries == Tries(e, size)
  <1>1. Sound(e)
    BY BudgetMade, ShrunkUses
  <1>2. PICK last, rounds : Attempts(e, size, tries, last, rounds)
    BY <1>1, TriesGiveBack
  <1>3. ASSUME NEW d \in Refused(c, size, budget)
        PROVE  d = tries[Max(DOMAIN tries)] /\ MayFail(d, size)
    BY DEF Refused
  <1> HIDE DEF tries
  <1>4. last \in Nat /\ DOMAIN tries = 0 .. last /\ rounds[last] = EmptyBag
    BY <1>2 DEF Attempts
  <1>5. tries[Max(DOMAIN tries)] = Shrunk(e, EmptyBag)
    BY <1>2, <1>4, LastOf DEF Attempts
  <1>6. /\ Attempted(c, size, budget, Shrunk(e, EmptyBag))
        /\ Shrunk(e, EmptyBag).pool = EmptyBag
        /\ Used(Shrunk(e, EmptyBag)) = 0 + Rest(c)
    <2>1. EmptyBag \in BagsOver(Sizes) /\ BytesOf(EmptyBag) = 0
      BY EmptyOnly, EmptyPool
    <2>2. BytesOf(e.pool) \in Nat
      BY <1>1, UsedSplits
    <2>3. BytesOf(EmptyBag) <= BytesOf(e.pool)
      BY <2>1, <2>2
    <2> QED
      BY <2>1, <2>3, AttemptShrinks
  <1>7. ASSUME NEW d \in Refused(c, size, budget)
        PROVE  /\ Attempted(c, size, budget, d) /\ d.pool = EmptyBag
               /\ Used(c) - BytesOf(c.pool) + size > Heap
    <2>1. d = Shrunk(e, EmptyBag) /\ MayFail(d, size)
      BY <1>3, <1>5
    <2>2. d.pool = EmptyBag /\ Used(d) = 0 + Rest(c)
      BY <1>6, <2>1
    <2>3. ~(Used(d) + size <= Heap)
      BY <2>1, <2>2 DEF MayFail, Fits
    <2>4. /\ Rest(c) \in Nat /\ BytesOf(c.pool) \in Nat
          /\ Used(c) = BytesOf(c.pool) + Rest(c)
      BY UsedSplits
    <2>5. Used(c) - BytesOf(c.pool) + size > Heap
      BY <2>2, <2>3, <2>4, Constants
    <2> QED
      BY <1>6, <2>1, <2>5
  <1> QED
    BY <1>7


-----------------------------------------------------------------------------
(* The calls keep the pools sound, and two fences enough.                  *)

Fine(c) == Sound(c) /\ Fences(c) <= 2

LEMMA CarriedFences ==
  ASSUME NEW c, NEW d, Carried(c, d)
  PROVE  Fences(d) = Fences(c)
  BY DEF Carried, Fences

(* A buffer allocated on a miss, or refused. *)
LEMMA PoolMissKeeps ==
  ASSUME NEW c, Fine(c), NEW bytes \in Requests \ {0}, NEW budget \in Budgets,
         RoundedUp(bytes, Word) <= Limit
  PROVE  /\ \A d \in Served(c, SizeOf(c, bytes), budget) :
              Fine(Owning(d, bytes, SizeOf(c, bytes)))
         /\ \A d \in Refused(c, SizeOf(c, bytes), budget) : Fine(d)
  <1> DEFINE size == SizeOf(c, bytes)
  <1>1. bytes \in Nat \ {0} /\ budget \in Nat /\ Sound(c) /\ Fences(c) <= 2
    BY Constants DEF Fine
  <1>2. size \in Nat \ {0} /\ size \in Sizes /\ size <= ReuseRatio * size /\ size <= size
    <2>1. size \in Nat \ {0} /\ size \in Sizes
      BY <1>1, RequestSize
    <2> HIDE DEF size
    <2> QED
      BY <2>1, Constants, ProductGrows
  <1>3. Serves([bytes |-> bytes, allocated |-> size])
    BY <1>1, <1>2, PairServes
  <1> HIDE DEF size
  <1>4. ASSUME NEW d, Attempted(c, size, budget, d)
        PROVE  Fine(d)
    BY <1>1, <1>4, CarriedFences DEF Attempted, Fine
  <1>5. ASSUME NEW d \in Served(c, size, budget)
        PROVE  Fine(Owning(d, bytes, size))
    <2>1. Fine(d)
      BY <1>1, <1>2, <1>4, ServedKeeps
    <2>2. Sound(Owning(d, bytes, size)) /\ Fences(Owning(d, bytes, size)) = Fences(d)
      BY <1>2, <1>3, <2>1, OwningKeeps DEF Fine
    <2> QED
      BY <2>1, <2>2 DEF Fine
  <1>6. ASSUME NEW d \in Refused(c, size, budget)
        PROVE  Fine(d)
    BY <1>1, <1>2, <1>4, RefusedKeeps
  <1> QED
    BY <1>5, <1>6 DEF size

LEMMA DrainedKeeps ==
  ASSUME NEW c \in Contexts, PoolFine(c), FencesFine(c)
  PROVE  /\ Sound(DrainedStaging(c)) /\ Carried(c, DrainedStaging(c))
         /\ DrainedStaging(c).stage = EmptyBag
  <1> DEFINE d == StageTo(c, EmptyBag, 0)
  <1>1. EmptyBag \in BagsOver(Pooled) /\ DOMAIN EmptyBag = {}
    BY EmptyOnly
  <1>2. /\ d \in Contexts /\ Carried(c, d) /\ d.stage = EmptyBag /\ d.stageBytes = 0
        /\ d.pool = c.pool /\ d.poolBytes = c.poolBytes
    BY <1>1, StageReplaced
  <1>3. DrainedStaging(c) = d
    BY DEF DrainedStaging, StageTo
  <1> HIDE DEF d
  <1>4. d.set = c.set /\ d.fences = c.fences
    BY <1>2 DEF Carried
  <1>5. PoolFine(d) /\ FencesFine(d)
    BY <1>2, <1>4 DEF PoolFine, FencesFine
  <1>6. 0 <= (IF d.set.staging THEN d.set.stagingMax ELSE 0)
    BY <1>2, ContextFields, SettingFields
  <1>7. StageFine(d)
    BY <1>1, <1>2, <1>6, EmptyPool DEF StageFine
  <1> QED
    BY <1>2, <1>3, <1>5, <1>7 DEF Sound

LEMMA StagingArea ==
  ASSUME NEW c, NEW kind \in Kinds, NEW bytes \in Nat \ {0}
  PROVE  Pair(kind, StagingSize(c, bytes)) \in Areas
  <1>1. StagingSize(c, bytes) \in Nat \ {0}
    BY StagingHolds DEF StagingSize
  <1> QED
    BY <1>1 DEF Pair, Areas

(* A pair taken from the pool or made for a transfer. *)
LEMMA TakeStagingKeeps ==
  ASSUME NEW c, Sound(c), NEW kind, NEW bytes
  PROVE  /\ TakeStaging(c, kind, bytes).ok \in BOOLEAN
         /\ Sound(TakeStaging(c, kind, bytes).ctx)
         /\ Carried(c, TakeStaging(c, kind, bytes).ctx)
  <1> DEFINE pair == Pair(kind, StagingSize(c, bytes))
             roomy == StagingRoom(c, pair.capacity)
             t == TakeStaging(c, kind, bytes)
  <1>1. Sound(roomy) /\ Carried(c, roomy)
    <2>1. roomy = c \/ roomy = DrainedStaging(c)
      BY DEF StagingRoom
    <2> QED
      BY <2>1, DrainedKeeps, KeptAll DEF Kept, Sound
  <1>2. CASE c.set.staging /\ BagIn(pair, c.stage)
    <2>1. t.ctx = StagingHit(c, pair) /\ t.ok = TRUE
      BY <1>2 DEF TakeStaging
    <2>2. pair \in DOMAIN c.stage
      BY <1>2 DEF BagIn, BagToSet
    <2> HIDE DEF pair
    <2>3. Sound(StagingHit(c, pair)) /\ Carried(c, StagingHit(c, pair))
      BY <2>2, HitKeeps
    <2> QED
      BY <2>1, <2>3
  <1>3. CASE ~(c.set.staging /\ BagIn(pair, c.stage))
    <2>1. t.ctx = roomy /\ t.ok = HostFits(roomy, pair.capacity)
      BY <1>3 DEF TakeStaging
    <2>2. HostFits(roomy, pair.capacity) \in BOOLEAN
      BY DEF HostFits
    <2> QED
      BY <1>1, <2>1, <2>2
  <1> QED
    BY <1>2, <1>3

(* The pair of a transfer that was waited for, or that failed. *)
LEMMA ReturnedKeeps ==
  ASSUME NEW c, Fine(c), NEW pair \in Areas, NEW ok \in BOOLEAN,
         NEW shot, shot.ok = ok, shot.ctx = c
  PROVE  \A d \in Returned(shot, pair) : Fine(d)
  <1>1. Sound(c) /\ Fences(c) <= 2
    BY DEF Fine
  <1>2. ASSUME NEW d, Lasting(c, d), d.fences = c.fences
        PROVE  Fine(d)
    <2>1. Fences(d) = Fences(c)
      BY <1>2 DEF Lasting, Fences
    <2> QED
      BY <1>1, <1>2, <2>1 DEF Lasting, Fine
  <1>3. ASSUME NEW d \in RecycleStaging(c, pair)
        PROVE  Fine(d)
    <2>1. Kept(c, d)
      BY <1>1, RecycleStagingKeeps
    <2> QED
      BY <1>2, <2>1, LastingOn
  <1>4. CASE ok
    <2>1. Returned(shot, pair)
            \subseteq RecycleStaging(c, pair) \cup {c}
      BY <1>4 DEF Returned
    <2> QED
      BY <1>3, <2>1
  <1>5. CASE ~ok
    <2> DEFINE b == [NoBatch EXCEPT !.staging = <<pair>>]
    <2>1. Returned(shot, pair) = {Released(c, b)}
      BY <1>5 DEF Returned
    <2>2. b \in Batches
      <3>1. <<pair>> \in Seq(Areas)
        OBVIOUS
      <3> QED
        BY <3>1, EmptyBatch DEF Batches
    <2> HIDE DEF b
    <2>3. Lasting(c, Released(c, b)) /\ Released(c, b).fences = c.fences
      BY <1>1, <2>2, ReleasedKeeps
    <2> QED
      BY <1>2, <2>1, <2>3
  <1> QED
    BY <1>4, <1>5

LEMMA TransfersKeep ==
  ASSUME Fine(ctx), NEW kind \in Kinds, NEW bytes \in Nat \ {0}
  PROVE  \A d \in Transfers(kind, bytes) : Fine(d)
  <1> DEFINE Left(f) ==
               LET t == TakeStaging(f.ctx, kind, bytes)
               IN  IF ~f.ok THEN {f.ctx}
                   ELSE IF ~t.ok THEN {t.ctx}
                   ELSE UNION {Returned(shot, Pair(kind, StagingSize(f.ctx, bytes))) :
                                 shot \in OneShots(t.ctx)}
  <1>1. Transfers(kind, bytes) = UNION {Left(f) : f \in Flushes(ctx, TRUE)}
    BY DEF Transfers
  <1>2. ASSUME NEW f \in Flushes(ctx, TRUE), NEW d \in Left(f)
        PROVE  Fine(d)
    <2> DEFINE t == TakeStaging(f.ctx, kind, bytes)
    <2>1. /\ f.ok \in BOOLEAN /\ Flushed(ctx, f.ctx)
          /\ f.ok => ~f.ctx.rec.open /\ ~f.ctx.flight.open
      BY FlushesKeep DEF Fine
    <2>2. Fine(f.ctx)
      BY <2>1 DEF Flushed, Fine
    <2>3. t.ok \in BOOLEAN /\ Sound(t.ctx) /\ Carried(f.ctx, t.ctx)
      BY <2>2, TakeStagingKeeps DEF Fine
    <2>4. Fine(t.ctx)
      BY <2>2, <2>3, CarriedFences DEF Fine
    <2>5. CASE ~f.ok
      BY <2>2, <2>5
    <2>6. CASE f.ok /\ ~t.ok
      BY <2>4, <2>6
    <2>7. CASE f.ok /\ t.ok
      <3> DEFINE pair == Pair(kind, StagingSize(f.ctx, bytes))
      <3>1. pair \in Areas
        BY StagingArea
      <3>2. PICK shot \in OneShots(t.ctx) : d \in Returned(shot, pair)
        BY <2>7
      <3> HIDE DEF pair, t
      <3>3. ~t.ctx.rec.open /\ ~t.ctx.flight.open
        BY <2>1, <2>3, <2>7 DEF Carried
      <3>4. shot.ok \in BOOLEAN /\ Lasting(t.ctx, shot.ctx) /\ Fences(shot.ctx) <= 2
        BY <2>4, <3>3, OneShotsKeep DEF Fine
      <3>5. Fine(shot.ctx)
        BY <3>4 DEF Lasting, Fine
      <3> QED
        BY <3>1, <3>2, <3>4, <3>5, ReturnedKeeps
    <2> QED
      BY <2>1, <2>3, <2>5, <2>6, <2>7
  <1> QED
    BY <1>1, <1>2


(* The next context is fine, and its staging pool no smaller. *)
Grows == Fine(ctx') /\ StageGrew(ctx, ctx')

LEMMA BufferKeeps ==
  ASSUME Fine(ctx), Buffer
  PROVE  Fine(ctx')
  <1>1. PICK bytes \in Requests : BufferHit(bytes) \/ \E budget \in Budgets : BufferMiss(bytes, budget)
    BY DEF Buffer
  <1>2. CASE BufferHit(bytes)
    <2>1. bytes # 0
      BY <1>2 DEF BufferHit
    <2>2. PICK s \in Picks(ctx, SizeOf(ctx, bytes)) :
            ctx' = [Owning(ctx, bytes, s) EXCEPT !.pool = Without(@, s), !.poolBytes = @ - s]
      BY <1>2 DEF BufferHit
    <2>3. Sound(ctx') /\ Fences(ctx') = Fences(ctx)
      BY <2>1, <2>2, PoolHitKeeps DEF Fine
    <2> QED
      BY <2>3 DEF Fine
  <1>3. CASE \E budget \in Budgets : BufferMiss(bytes, budget)
    <2>1. PICK budget \in Budgets : BufferMiss(bytes, budget)
      BY <1>3
    <2>2. bytes # 0 /\ RoundedUp(bytes, Word) <= Limit
      BY <2>1 DEF BufferMiss
    <2>3. \/ \E c \in Served(ctx, SizeOf(ctx, bytes), budget) :
                ctx' = Owning(c, bytes, SizeOf(ctx, bytes))
          \/ ctx' \in Refused(ctx, SizeOf(ctx, bytes), budget)
      BY <2>1 DEF BufferMiss
    <2> QED
      BY <2>2, <2>3, PoolMissKeeps
  <1> QED
    BY <1>1, <1>2, <1>3

LEMMA FlushGrows ==
  ASSUME NEW c, Fine(c), NEW completes \in BOOLEAN, NEW f \in Flushes(c, completes)
  PROVE  Fine(f.ctx) /\ StageGrew(c, f.ctx)
  <1>1. Flushed(c, f.ctx)
    BY FlushesKeep DEF Fine
  <1> QED
    BY <1>1 DEF Flushed, Fine

LEMMA RetiresInto ==
  ASSUME NEW b \in Batches, NEW size \in Sizes, NEW bytes \in Nat
  PROVE  /\ [b EXCEPT !.retired = Append(@, size)] \in Batches
         /\ [b EXCEPT !.retired = Append(@, size)].open = b.open
         /\ [b EXCEPT !.retired = Append(@, size), !.bytes = @ + bytes] \in Batches
         /\ [b EXCEPT !.retired = Append(@, size), !.bytes = @ + bytes].open = b.open
  <1>1. b.retired \in Seq(Sizes) /\ b.bytes \in Nat
    BY BatchFields
  <1>2. Append(b.retired, size) \in Seq(Sizes)
    BY <1>1
  <1>3. b.bytes + bytes \in Nat
    BY <1>1
  <1> QED
    BY <1>2, <1>3 DEF Batches

LEMMA FreeBufferGrows ==
  ASSUME Fine(ctx), FreeBuffer
  PROVE  Grows
  <1>1. Sound(ctx) /\ Fences(ctx) <= 2 /\ ctx \in Contexts
    BY DEF Fine, Sound
  <1>2. PICK b \in BagToSet(ctx.owned) :
          LET c == [ctx EXCEPT !.owned = Without(@, b)]
              retired == [c EXCEPT !.rec.retired = Append(@, b.allocated),
                                   !.rec.bytes = @ + b.bytes]
          IN  \/ \E f \in Flushes(retired, TRUE) : ctx' = f.ctx
              \/ ctx' = retired
              \/ ctx' = [c EXCEPT !.flight.retired = Append(@, b.allocated)]
              \/ ctx' = Released(c, [NoBatch EXCEPT !.retired = <<b.allocated>>])
    BY FencesNat DEF FreeBuffer, Fine
  <1> DEFINE c == [ctx EXCEPT !.owned = Without(@, b)]
             rec == [c.rec EXCEPT !.retired = Append(@, b.allocated),
                                  !.bytes = @ + b.bytes]
             flight == [c.flight EXCEPT !.retired = Append(@, b.allocated)]
             gone == [NoBatch EXCEPT !.retired = <<b.allocated>>]
  <1>3. /\ ctx.owned \in BagsOver(Owned) /\ b \in Owned
        /\ Without(ctx.owned, b) \in BagsOver(Owned)
    <2>1. ctx.owned \in BagsOver(Owned)
      BY <1>1, ContextFields
    <2>2. b \in DOMAIN ctx.owned
      BY DEF BagToSet
    <2> QED
      BY <2>1, <2>2, BagShape, RemovedOne
  <1>4. b.allocated \in Sizes /\ b.bytes \in Nat
    BY <1>3, Constants DEF Owned
  <1>5. /\ Sound(c) /\ StageGrew(ctx, c) /\ c.fences = ctx.fences
        /\ c.rec = ctx.rec /\ c.flight = ctx.flight
    <2>1. c = OwnedTo(ctx, Without(ctx.owned, b))
      BY DEF OwnedTo
    <2> HIDE DEF c
    <2> QED
      BY <1>1, <1>3, <2>1, OwnedReplaced
  <1>6. Fences(c) = Fences(ctx)
    <2> HIDE DEF c
    <2> QED
      BY <1>5 DEF Fences
  <1>7. c.rec \in Batches /\ c.flight \in Batches /\ c \in Contexts
    <2> HIDE DEF c
    <2> QED
      BY <1>5, FencesNat DEF Sound
  <1>8. /\ \E f \in Flushes(RecTo(c, rec), TRUE) : ctx' = f.ctx
        \/ ctx' = RecTo(c, rec)
        \/ ctx' = FlightTo(c, flight)
        \/ ctx' = Released(c, gone)
    <2>1. [c EXCEPT !.rec.retired = Append(@, b.allocated), !.rec.bytes = @ + b.bytes]
            = RecTo(c, rec)
      <3> HIDE DEF c
      <3> QED
        BY <1>7 DEF RecTo, Contexts, Batches
    <2>2. [c EXCEPT !.flight.retired = Append(@, b.allocated)] = FlightTo(c, flight)
      BY DEF FlightTo
    <2> QED
      BY <1>2, <2>1, <2>2
  <1>9. rec \in Batches /\ rec.open = c.rec.open
    <2> HIDE DEF c
    <2> QED
      BY <1>4, <1>7, RetiresInto, ZenonT(30)
  <1>10. flight \in Batches /\ flight.open = c.flight.open
    <2> HIDE DEF c
    <2> QED
      BY <1>4, <1>7, RetiresInto, ZenonT(30)
  <1>11. gone \in Batches
    <2>1. <<b.allocated>> \in Seq(Sizes)
      BY <1>4
    <2> QED
      BY <2>1, EmptyBatch DEF Batches
  <1> HIDE DEF c, rec, flight, gone
  <1>12. Fine(RecTo(c, rec)) /\ StageGrew(ctx, RecTo(c, rec)) /\ RecTo(c, rec) \in Contexts
    <2>1. /\ Sound(RecTo(c, rec)) /\ StageGrew(c, RecTo(c, rec))
          /\ RecTo(c, rec).fences = c.fences
          /\ RecTo(c, rec).rec = rec /\ RecTo(c, rec).flight = c.flight
      BY <1>5, <1>9, RecReplaced
    <2>2. RecTo(c, rec) \in Contexts
      BY <2>1 DEF Sound
    <2>3. Fences(RecTo(c, rec)) = Fences(c)
      BY <1>9, <2>1 DEF Fences
    <2>4. StageGrew(ctx, RecTo(c, rec))
      BY <1>1, <1>5, <1>7, <2>1, <2>2, StageGrewOn
    <2> QED
      BY <1>1, <1>6, <2>1, <2>2, <2>3, <2>4 DEF Fine
  <1>13. CASE \E f \in Flushes(RecTo(c, rec), TRUE) : ctx' = f.ctx
    <2>1. PICK f \in Flushes(RecTo(c, rec), TRUE) : ctx' = f.ctx
      BY <1>13
    <2>2. Fine(ctx') /\ StageGrew(RecTo(c, rec), ctx')
      BY <1>12, <2>1, FlushGrows
    <2>3. ctx' \in Contexts
      BY <2>2 DEF Fine, Sound
    <2>4. StageGrew(ctx, ctx')
      BY <1>1, <1>12, <2>2, <2>3, StageGrewOn
    <2> QED
      BY <2>2, <2>4 DEF Grows
  <1>14. CASE ctx' = RecTo(c, rec)
    BY <1>12, <1>14 DEF Grows
  <1>15. CASE ctx' = FlightTo(c, flight)
    <2>1. /\ Sound(ctx') /\ StageGrew(c, ctx')
          /\ ctx'.fences = c.fences /\ ctx'.rec = c.rec /\ ctx'.flight = flight
      BY <1>5, <1>10, <1>15, FlightReplaced
    <2>2. ctx' \in Contexts
      BY <2>1 DEF Sound
    <2>3. Fences(ctx') = Fences(c)
      BY <1>10, <2>1 DEF Fences
    <2>4. StageGrew(ctx, ctx')
      BY <1>1, <1>5, <1>7, <2>1, <2>2, StageGrewOn
    <2> QED
      BY <1>1, <1>6, <2>1, <2>3, <2>4 DEF Grows, Fine
  <1>16. CASE ctx' = Released(c, gone)
    <2>1. Lasting(c, ctx') /\ ctx'.fences = c.fences
      BY <1>5, <1>11, <1>16, ReleasedKeeps
    <2>2. ctx' \in Contexts /\ Sound(ctx') /\ Fences(ctx') = Fences(c)
      BY <2>1 DEF Lasting, Sound, Fences
    <2>3. StageGrew(ctx, ctx')
      BY <1>1, <1>5, <1>7, <2>1, <2>2, StageGrewOn DEF Lasting
    <2> QED
      BY <1>1, <1>6, <2>2, <2>3 DEF Grows, Fine
  <1> QED
    BY <1>8, <1>13, <1>14, <1>15, <1>16

LEMMA RecordGrows ==
  ASSUME Fine(ctx), Record
  PROVE  Grows
  <1>1. Flushed(ctx, Opened(ctx)) /\ ctx \in Contexts
    BY OpenedKeeps DEF Fine, Sound
  <1>2. Fine(Opened(ctx)) /\ StageGrew(ctx, Opened(ctx)) /\ Opened(ctx) \in Contexts
    BY <1>1 DEF Flushed, Fine, Sound
  <1>3. CASE ctx' = Opened(ctx)
    BY <1>2, <1>3 DEF Grows
  <1>4. CASE \E f \in Flushes(Opened(ctx), FALSE) : ctx' = f.ctx
    <2>1. PICK f \in Flushes(Opened(ctx), FALSE) : ctx' = f.ctx
      BY <1>4
    <2>2. Fine(ctx') /\ StageGrew(Opened(ctx), ctx')
      BY <1>2, <2>1, FlushGrows
    <2>3. ctx' \in Contexts
      BY <2>2 DEF Fine, Sound
    <2>4. StageGrew(ctx, ctx')
      BY <1>1, <1>2, <2>2, <2>3, StageGrewOn
    <2> QED
      BY <2>2, <2>4 DEF Grows
  <1> QED
    BY <1>3, <1>4 DEF Record

LEMMA SyncGrows ==
  ASSUME Fine(ctx), Sync
  PROVE  Grows
  BY FlushGrows DEF Sync, Grows


LEMMA OwnedBuffer ==
  ASSUME NEW c, Sound(c), NEW b \in BagToSet(c.owned)
  PROVE  b \in Owned /\ b.bytes \in Nat \ {0}
  <1>1. c.owned \in BagsOver(Owned)
    BY ContextFields DEF Sound
  <1>2. b \in Owned
    BY <1>1, BagShape DEF BagToSet
  <1> QED
    BY <1>2, Constants DEF Owned

LEMMA UploadKeeps ==
  ASSUME Fine(ctx), Upload
  PROVE  Fine(ctx')
  <1>1. PICK b \in BagToSet(ctx.owned) : ctx' \in Transfers("upload", b.bytes)
    BY DEF Upload
  <1>2. b.bytes \in Nat \ {0} /\ "upload" \in Kinds
    BY OwnedBuffer DEF Fine, Kinds
  <1> QED
    BY <1>1, <1>2, TransfersKeep

LEMMA DownloadKeeps ==
  ASSUME Fine(ctx), Download
  PROVE  Fine(ctx')
  <1>1. PICK b \in BagToSet(ctx.owned) :
          ctx' \in Transfers("readback", Min({b.bytes, MaxPair}))
    BY DEF Download
  <1>2. b.bytes \in Nat \ {0} /\ "readback" \in Kinds
    BY OwnedBuffer DEF Fine, Kinds
  <1>3. Min({b.bytes, MaxPair}) \in Nat \ {0}
    <2> DEFINE chunks == {b.bytes, MaxPair}
    <2>1. chunks \subseteq Nat \ {0} /\ chunks # {}
      BY <1>2, Constants
    <2>2. chunks \subseteq Nat
      BY <2>1
    <2> HIDE DEF chunks
    <2>3. Min(chunks) \in chunks
      BY <2>1, <2>2, MinOf
    <2>4. Min(chunks) \in Nat \ {0}
      BY <2>1, <2>3
    <2> QED
      BY <2>4 DEF chunks
  <1> QED
    BY <1>1, <1>2, <1>3, TransfersKeep

LEMMA UploadRecordedKeeps ==
  ASSUME Fine(ctx), UploadRecorded
  PROVE  Fine(ctx')
  <1>1. Sound(ctx) /\ Fences(ctx) <= 2
    BY DEF Fine
  <1>2. PICK b \in BagToSet(ctx.owned) :
          LET t == TakeStaging(ctx, "upload", b.bytes)
              pair == Pair("upload", StagingSize(ctx, b.bytes))
          IN  \/ ctx' = t.ctx
              \/ ctx' = [Opened(t.ctx) EXCEPT !.rec.staging = Append(@, pair)]
              \/ ctx' \in RecycleStaging(t.ctx, pair)
    BY DEF UploadRecorded
  <1> DEFINE c == TakeStaging(ctx, "upload", b.bytes).ctx
             pair == Pair("upload", StagingSize(ctx, b.bytes))
             d == Opened(c)
             rec == [d.rec EXCEPT !.staging = Append(@, pair)]
  <1>3. b.bytes \in Nat \ {0} /\ "upload" \in Kinds
    BY <1>1, OwnedBuffer DEF Kinds
  <1>4. pair \in Areas
    BY <1>3, StagingArea
  <1>5. Sound(c) /\ Carried(ctx, c)
    BY <1>1, TakeStagingKeeps
  <1>6. \/ ctx' = c
        \/ ctx' = RecTo(d, rec)
        \/ ctx' \in RecycleStaging(c, pair)
    BY <1>2 DEF RecTo
  <1> HIDE DEF pair, c
  <1>7. Sound(c) /\ Fences(c) <= 2
    BY <1>1, <1>5, CarriedFences
  <1>8. CASE ctx' = c
    BY <1>7, <1>8 DEF Fine
  <1>9. CASE ctx' = RecTo(d, rec)
    <2>1. Sound(d) /\ Fences(d) <= 2 /\ d.rec \in Batches
      BY <1>7, OpenedKeeps DEF Flushed
    <2> HIDE DEF d
    <2>2. rec \in Batches /\ rec.open = d.rec.open
      <3>1. d.rec.staging \in Seq(Areas)
        BY <2>1, BatchFields
      <3>2. Append(d.rec.staging, pair) \in Seq(Areas)
        BY <1>4, <3>1
      <3> QED
        BY <2>1, <3>2 DEF Batches
    <2> HIDE DEF rec
    <2>3. Sound(ctx') /\ ctx'.fences = d.fences /\ ctx'.rec = rec /\ ctx'.flight = d.flight
      BY <1>9, <2>1, <2>2, RecReplaced
    <2>4. Fences(ctx') = Fences(d)
      BY <2>2, <2>3 DEF Fences
    <2> QED
      BY <2>1, <2>3, <2>4 DEF Fine
  <1>10. CASE ctx' \in RecycleStaging(c, pair)
    <2>1. Kept(c, ctx')
      BY <1>4, <1>7, <1>10, RecycleStagingKeeps
    <2> QED
      BY <1>7, <2>1, CarriedFences DEF Kept, Fine
  <1> QED
    BY <1>6, <1>8, <1>9, <1>10

LEMMA DroppedGrows ==
  ASSUME NEW c, Fine(c), NEW rec, rec = c.rec
  PROVE  \A d \in RecycleAll(RecycledAll(RecTo(c, NoBatch), rec.retired), rec.staging) :
           Fine(d) /\ StageGrew(c, d)
  <1> DEFINE a == RecTo(c, NoBatch)
             e == RecycledAll(a, rec.retired)
  <1>1. Sound(c) /\ Fences(c) <= 2 /\ c \in Contexts
    BY DEF Fine, Sound
  <1>2. rec.retired \in Seq(Sizes) /\ rec.staging \in Seq(Areas)
    BY <1>1, FencesNat, BatchFields
  <1>3. /\ Sound(a) /\ StageGrew(c, a) /\ a.fences = c.fences
        /\ a.rec = NoBatch /\ a.flight = c.flight
    BY <1>1, EmptyBatch, RecReplaced
  <1> HIDE DEF a
  <1>4. Fences(a) <= 2
    BY <1>1, <1>3, FencesNat, EmptyBatch DEF Fences
  <1>5. Kept(a, e)
    BY <1>2, <1>3, RecycledAllKeeps
  <1> HIDE DEF e
  <1>6. ASSUME NEW d \in RecycleAll(e, rec.staging)
        PROVE  Fine(d) /\ StageGrew(c, d)
    <2>1. Kept(e, d)
      BY <1>2, <1>5, RecycleAllKeeps DEF Kept
    <2>2. Kept(a, d)
      BY <1>3, <1>5, <2>1, KeptAll
    <2>3. Fences(d) = Fences(a) /\ Sound(d) /\ StageGrew(a, d)
      BY <2>2, CarriedFences DEF Kept
    <2>4. StageGrew(c, d)
      BY <1>1, <1>3, <2>3, StageGrewOn DEF Sound
    <2> QED
      BY <1>4, <2>3, <2>4 DEF Fine
  <1> QED
    BY <1>6 DEF a, e

LEMMA DiscardGrows ==
  ASSUME Fine(ctx), Discard
  PROVE  Grows
  <1>1. Sound(ctx) /\ Fences(ctx) <= 2 /\ ctx \in Contexts
    BY DEF Fine, Sound
  <1> DEFINE idle == FlightTo(ctx, NoBatch)
             leaked == Leaked(idle, ctx.flight.retired, ctx.flight.staging)
  <1>2. PICK r \in IF Live THEN Reaps(ctx) ELSE {Failed(leaked)} :
          ctx' \in RecycleAll(RecycledAll(RecTo(r.ctx, NoBatch), r.ctx.rec.retired),
                              r.ctx.rec.staging)
    BY DEF Discard, RecTo, FlightTo
  <1>3. Fine(r.ctx) /\ StageGrew(ctx, r.ctx)
    <2>1. CASE Live
      <3>1. Sound(r.ctx) /\ StageGrew(ctx, r.ctx) /\ Fences(r.ctx) <= Fences(ctx)
        BY <1>1, <2>1, ReapsKeep
      <3>2. Fences(r.ctx) <= 2
        BY <1>1, <3>1, FencesNat
      <3> QED
        BY <3>1, <3>2 DEF Fine
    <2>2. CASE ~Live
      <3>1. r.ctx = leaked
        BY <2>2 DEF Failed
      <3>2. /\ Sound(idle) /\ StageGrew(ctx, idle) /\ idle.fences = ctx.fences
            /\ idle.rec = ctx.rec /\ idle.flight = NoBatch
        BY <1>1, EmptyBatch, FlightReplaced
      <3>3. ctx.flight.retired \in Seq(Sizes) /\ ctx.flight.staging \in Seq(Areas)
        BY <1>1, FencesNat, BatchFields
      <3> HIDE DEF idle
      <3>4. Lasting(idle, leaked) /\ leaked.fences = idle.fences
        BY <3>2, <3>3, LeakedKeeps
      <3> HIDE DEF leaked
      <3>5. Sound(leaked) /\ StageGrew(idle, leaked)
            /\ leaked.rec = ctx.rec /\ leaked.flight = NoBatch /\ leaked.fences = ctx.fences
        BY <3>2, <3>4 DEF Lasting
      <3>6. StageGrew(ctx, leaked)
        BY <1>1, <3>2, <3>5, StageGrewOn DEF Sound
      <3>7. Fences(leaked) <= 2
        BY <1>1, <3>5, FencesNat, EmptyBatch DEF Fences
      <3> QED
        BY <3>1, <3>5, <3>6, <3>7 DEF Fine
    <2> QED
      BY <2>1, <2>2
  <1>4. Fine(ctx') /\ StageGrew(r.ctx, ctx')
    BY <1>2, <1>3, DroppedGrows
  <1>5. StageGrew(ctx, ctx')
    BY <1>1, <1>3, <1>4, StageGrewOn DEF Fine, Sound
  <1> QED
    BY <1>4, <1>5 DEF Grows

(* New settings, and what they leave of the pools. *)
SetTo(c, s, n) == [c EXCEPT !.set = s, !.fences = n]

LEMMA SetKeeps ==
  ASSUME Fine(ctx), NEW s \in Settings, Set(s)
  PROVE  Fine(ctx')
  <1> DEFINE max == IF s.on THEN s.max ELSE 0
             kept == EvictToCeiling(ctx.pool, max)
             c == Shrunk(ctx, kept)
             n == IF s.fences THEN c.fences ELSE 0
             d == SetTo(c, s, n)
  <1>1. /\ Sound(ctx) /\ Fences(ctx) <= 2 /\ ctx.pool \in BagsOver(Sizes)
        /\ ctx \in Contexts
    BY ContextFields DEF Fine, Sound
  <1>2. /\ s.on \in BOOLEAN /\ s.max \in Nat /\ s.staging \in BOOLEAN
        /\ s.stagingMax \in Nat /\ s.fences \in BOOLEAN /\ max \in Nat
    BY SettingFields
  <1>3. /\ kept \in BagsOver(Sizes) /\ BytesOf(kept) \in Nat
        /\ BytesOf(kept) <= max /\ BytesOf(kept) <= BytesOf(ctx.pool)
    <2> HIDE DEF max
    <2> QED
      BY <1>1, <1>2, EvictToCeilingKeeps
  <1>4. ctx' = IF s.staging /\ ctx.stageBytes <= s.stagingMax THEN d ELSE DrainedStaging(d)
    BY DEF Set, SetTo
  <1> HIDE DEF kept, max
  <1>5. c = PoolTo(ctx, kept, BytesOf(kept)) /\ Kept(ctx, c)
    BY <1>1, <1>3, ShrunkKeeps
  <1>6. /\ c.pool = kept /\ c.poolBytes = BytesOf(kept)
        /\ c.stage = ctx.stage /\ c.stageBytes = ctx.stageBytes
    <2> HIDE DEF c
    <2> QED
      BY <1>1, <1>3, <1>5, PoolReplaced, ZenonT(30)
  <1> HIDE DEF c
  <1>7. Sound(c) /\ Fences(c) = Fences(ctx) /\ c \in Contexts
    BY <1>5, CarriedFences DEF Kept, Sound
  <1>8. n \in Nat /\ n <= c.fences
    BY <1>7, FencesNat
  <1>9. s.fences \/ n = 0
    OBVIOUS
  <1> HIDE DEF n
  <1>10. /\ d \in Contexts /\ d.set = s /\ d.fences = n
         /\ d.pool = c.pool /\ d.poolBytes = c.poolBytes
         /\ d.stage = c.stage /\ d.stageBytes = c.stageBytes
         /\ d.rec = c.rec /\ d.flight = c.flight
    BY <1>7, <1>8 DEF Contexts, SetTo
  <1> HIDE DEF d
  <1>11. Fences(d) <= 2
    BY <1>1, <1>7, <1>8, <1>10, FencesNat DEF Fences
  <1>12. PoolFine(d)
    BY <1>3, <1>6, <1>10 DEF PoolFine, max
  <1>13. FencesFine(d)
    BY <1>9, <1>10 DEF FencesFine
  <1>14. CASE s.staging /\ ctx.stageBytes <= s.stagingMax
    <2>1. StageFine(d)
      BY <1>1, <1>6, <1>10, <1>14 DEF StageFine, Sound
    <2> QED
      BY <1>4, <1>10, <1>11, <1>12, <1>13, <1>14, <2>1 DEF Fine, Sound
  <1>15. CASE ~(s.staging /\ ctx.stageBytes <= s.stagingMax)
    <2>1. Sound(DrainedStaging(d)) /\ Carried(d, DrainedStaging(d))
      BY <1>10, <1>12, <1>13, DrainedKeeps
    <2> QED
      BY <1>4, <1>11, <1>15, <2>1, CarriedFences DEF Fine
  <1> QED
    BY <1>14, <1>15


LEMMA InitFine ==
  ASSUME NEW s \in Settings
  PROVE  Fine(NewContext(s))
  <1> DEFINE c == NewContext(s)
  <1>1. /\ EmptyBag \in BagsOver(Owned) /\ EmptyBag \in BagsOver(Sizes)
        /\ EmptyBag \in BagsOver(Pooled) /\ DOMAIN EmptyBag = {}
        /\ BytesOf(EmptyBag) = 0 /\ StagingBytes(EmptyBag) = 0
    BY EmptyOnly, EmptyPool
  <1>2. NoBatch \in Batches /\ NoBatch.open = FALSE
    BY EmptyBatch
  <1>3. /\ c.set = s /\ c.owned = EmptyBag /\ c.pool = EmptyBag /\ c.poolBytes = 0
        /\ c.stage = EmptyBag /\ c.stageBytes = 0 /\ c.fences = 0
        /\ c.rec = NoBatch /\ c.flight = NoBatch
    BY DEF NewContext
  <1>4. c \in Contexts
    BY <1>1, <1>2 DEF NewContext, Contexts
  <1> HIDE DEF c
  <1>5. /\ 0 <= (IF s.on THEN s.max ELSE 0)
        /\ 0 <= (IF s.staging THEN s.stagingMax ELSE 0)
    BY SettingFields
  <1>6. PoolFine(c) /\ StageFine(c) /\ FencesFine(c)
    BY <1>1, <1>3, <1>5 DEF PoolFine, StageFine, FencesFine
  <1>7. Fences(c) <= 2
    BY <1>2, <1>3 DEF Fences
  <1> QED
    BY <1>4, <1>6, <1>7 DEF Fine, Sound, c

-----------------------------------------------------------------------------

(* The inductive invariant: the pools are what their counters say and      *)
(* inside their ceilings, every buffer is one its class allows, and no     *)
(* more than two fences exist.                                             *)
Inv == Fine(ctx)

LEMMA StepsKeep == Inv /\ [Next]_ctx => Inv'
  <1> SUFFICES ASSUME Inv, [Next]_ctx PROVE Inv'
    OBVIOUS
  <1> USE DEF Inv
  <1>1. CASE Buffer
    BY <1>1, BufferKeeps
  <1>2. CASE FreeBuffer
    BY <1>2, FreeBufferGrows DEF Grows
  <1>3. CASE Record
    BY <1>3, RecordGrows DEF Grows
  <1>4. CASE Sync
    BY <1>4, SyncGrows DEF Grows
  <1>5. CASE Upload
    BY <1>5, UploadKeeps
  <1>6. CASE Download
    BY <1>6, DownloadKeeps
  <1>7. CASE UploadRecorded
    BY <1>7, UploadRecordedKeeps
  <1>8. CASE Discard
    BY <1>8, DiscardGrows DEF Grows
  <1>9. CASE \E s \in Settings : Set(s)
    BY <1>9, SetKeeps
  <1>10. CASE UNCHANGED ctx
    BY <1>10
  <1> QED
    BY <1>1, <1>2, <1>3, <1>4, <1>5, <1>6, <1>7, <1>8, <1>9, <1>10 DEF Next

LEMMA AlwaysFine == Spec => []Inv
  <1>1. Init => Inv
    BY InitFine DEF Init, Inv
  <1> QED
    BY <1>1, StepsKeep, PTL DEF Spec

(* Every buffer, pooled pair and staging pair is of a size the device      *)
(* allows, and the pools and the live buffers are bags, whatever is made,  *)
(* freed, flushed or set.                                                  *)
THEOREM TypeCorrect == Spec => []TypeOK
  <1>1. Inv => TypeOK
    <2> SUFFICES ASSUME Inv PROVE TypeOK
      OBVIOUS
    <2>1. /\ ctx.set \in Settings /\ ctx.ended \in {"no", "lost", "unknown"}
          /\ ctx.owned \in BagsOver(Owned) /\ ctx.pool \in BagsOver(Sizes)
          /\ ctx.stage \in BagsOver(Pooled)
      BY ContextFields DEF Inv, Fine, Sound
    <2>2. \A S : \A B \in BagsOver(S) : IsABag(B) /\ BagToSet(B) \subseteq S
      <3>1. {n \in Nat : n > 0} = Nat \ {0}
        OBVIOUS
      <3> QED
        BY <3>1, BagShape DEF IsABag, BagToSet
    <2>3. Owned \subseteq [bytes: Requests, allocated: 1 .. Limit]
      BY DEF Owned, Sizes
    <2>4. /\ IsABag(ctx.owned) /\ BagToSet(ctx.owned) \subseteq Owned
          /\ IsABag(ctx.pool) /\ BagToSet(ctx.pool) \subseteq 1 .. Limit
          /\ IsABag(ctx.stage)
          /\ BagToSet(ctx.stage) \subseteq [kind: Kinds, capacity: 1 .. MaxPair]
      BY <2>1, <2>2 DEF Sizes, Pooled
    <2> QED
      BY <2>1, <2>3, <2>4 DEF TypeOK
  <1> QED
    BY <1>1, AlwaysFine, PTL

(* The byte counters of the pools are what the pools hold and within the   *)
(* ceilings of the settings, through every hit, return, eviction, drain    *)
(* and failure, and there are never more than two fences.                  *)
THEOREM PoolsStayWithinBounds == Spec => []PoolsWithinBounds
  <1>1. Inv => PoolsWithinBounds
    BY DEF Inv, Fine, Sound, PoolFine, StageFine, FencesFine, PoolsWithinBounds, BagToSet
  <1> QED
    BY <1>1, AlwaysFine, PTL

(* A live buffer holds its request and is at most ReuseRatio times the     *)
(* request's class, whichever pair served it and under which settings.     *)
THEOREM BuffersFit == Spec => []BuffersFitTheirRequests
  <1>1. Inv => BuffersFitTheirRequests
    <2>1. ASSUME Inv, NEW b \in BagToSet(ctx.owned)
          PROVE  /\ b.bytes <= b.allocated /\ b.allocated <= Limit
                 /\ b.allocated <= ReuseRatio * PoolClass(RoundedUp(b.bytes, Word))
      <3>1. b \in Owned
        BY <2>1, OwnedBuffer DEF Inv, Fine
      <3> QED
        BY <3>1, Constants DEF Owned, Sizes, Serves
    <2> QED
      BY <2>1 DEF BuffersFitTheirRequests
  <1> QED
    BY <1>1, AlwaysFine, PTL

(* No allocation fails for what a pool holds: a request that is refused    *)
(* has emptied the buffer pool and found no room without it, whatever the  *)
(* OS grants, and a transfer without a pair has drained the staging pool.  *)
THEOREM NothingIsHeldBack == Spec => []NothingHeldBack
  <1>1. ASSUME Inv, NEW bytes \in Misses, NEW budget \in Budgets,
               NEW c \in Refused(ctx, SizeOf(ctx, bytes), budget)
        PROVE  /\ c.pool = EmptyBag
               /\ Used(ctx) - BytesOf(ctx.pool) + SizeOf(ctx, bytes) > Heap
    <2>1. bytes \in Nat \ {0} /\ budget \in Nat
      BY Constants DEF Misses
    <2>2. SizeOf(ctx, bytes) \in Nat \ {0}
      BY <2>1, RequestSize
    <2> QED
      BY <1>1, <2>1, <2>2, RefusedKeeps DEF Inv, Fine
  <1>2. ASSUME Inv, NEW bytes \in Requests, NEW kind \in Kinds,
               ~TakeStaging(ctx, kind, bytes).ok
        PROVE  ~HostFits(DrainedStaging(ctx), StagingSize(ctx, bytes))
    <2> DEFINE pair == Pair(kind, StagingSize(ctx, bytes))
               roomy == StagingRoom(ctx, pair.capacity)
    <2>1. pair.capacity = StagingSize(ctx, bytes)
      BY DEF Pair
    <2>2. ~HostFits(roomy, pair.capacity)
      BY <1>2 DEF TakeStaging
    <2>3. roomy = DrainedStaging(ctx) \/ (roomy = ctx /\ ctx.stage = EmptyBag)
      BY <2>2 DEF StagingRoom
    <2>4. ctx.stage = EmptyBag => DrainedStaging(ctx) = ctx
      <3>1. ctx \in Contexts /\ ctx.stageBytes = StagingBytes(ctx.stage)
        BY <1>2 DEF Inv, Fine, Sound, StageFine
      <3>2. ctx.stage = EmptyBag => ctx.stageBytes = 0
        BY <3>1, EmptyPool
      <3> QED
        BY <3>1, <3>2 DEF DrainedStaging, Contexts
    <2> QED
      BY <2>1, <2>2, <2>3, <2>4
  <1>3. Inv => NothingHeldBack
    BY <1>1, <1>2 DEF NothingHeldBack
  <1> QED
    BY <1>3, AlwaysFine, PTL

(* An allocation made while the process is inside its budget leaves the    *)
(* margin free below it, or has emptied the pool to try.                   *)
THEOREM BudgetIsKept == Spec => []BudgetKept
  <1>1. ASSUME Inv, NEW bytes \in Misses, NEW budget \in Budgets, Used(ctx) <= budget,
               NEW c \in Served(ctx, SizeOf(ctx, bytes), budget), c.pool # EmptyBag
        PROVE  Used(c) + SizeOf(ctx, bytes) + Margin <= budget
    <2>1. bytes \in Nat \ {0} /\ budget \in Nat
      BY Constants DEF Misses
    <2>2. SizeOf(ctx, bytes) \in Nat \ {0}
      BY <2>1, RequestSize
    <2>3. Attempted(ctx, SizeOf(ctx, bytes), budget, c)
      BY <1>1, <2>1, <2>2, ServedKeeps DEF Inv, Fine
    <2> QED
      BY <1>1, <2>3 DEF Attempted
  <1>2. Inv => BudgetKept
    BY <1>1 DEF BudgetKept, LeavesMargin
  <1> QED
    BY <1>2, AlwaysFine, PTL

(* A returned staging pair never costs the pool its smaller ones: through  *)
(* a free, a recorded dispatch, a synchronisation or a discard, the pairs  *)
(* of at most any pooled size grow in number or stay.                      *)
THEOREM SmallPairsAreKept == Spec => SmallPairsStay
  <1>1. ASSUME Inv, FreeBuffer \/ Record \/ Sync \/ Discard,
               NEW p \in BagToSet(ctx.stage)
        PROVE  ~(AtMost(ctx.stage, p.capacity) > AtMost(ctx'.stage, p.capacity))
    <2>1. Fine(ctx) /\ ctx \in Contexts
      BY <1>1 DEF Inv, Fine, Sound
    <2>2. Grows
      BY <1>1, <2>1, FreeBufferGrows, RecordGrows, SyncGrows, DiscardGrows
    <2>3. Fine(ctx') /\ StageGrew(ctx, ctx') /\ ctx' \in Contexts
      BY <2>2 DEF Grows, Fine, Sound
    <2>4. p.capacity \in Nat
      <3>1. p \in Pooled
        BY <2>1, ContextFields, BagShape DEF BagToSet
      <3> QED
        BY <3>1 DEF Pooled
    <2>5. AtMost(ctx.stage, p.capacity) \in Nat /\ AtMost(ctx'.stage, p.capacity) \in Nat
      BY <2>1, <2>3, <2>4, AtMostNat
    <2>6. AtMost(ctx.stage, p.capacity) <= AtMost(ctx'.stage, p.capacity)
      BY <2>3, <2>4 DEF StageGrew
    <2> QED
      BY <2>5, <2>6
  <1>2. Inv /\ [Next]_ctx
          => [(\E p \in BagToSet(ctx.stage) :
                 AtMost(ctx.stage, p.capacity) > AtMost(ctx'.stage, p.capacity))
                => ~(FreeBuffer \/ Record \/ Sync \/ Discard)]_ctx
    BY <1>1
  <1> QED
    BY <1>2, AlwaysFine, PTL DEF Spec, SmallPairsStay
=============================================================================
