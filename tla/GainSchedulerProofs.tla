------------------------ MODULE GainSchedulerProofs ------------------------
(***************************************************************************)
(* Theorems about GainScheduler, for any number of experts, any gains, any *)
(* share and any requests, and for doubles of any precision.               *)
(*                                                                         *)
(* The share kept for exploration drifts by the tolerance and three        *)
(* roundings a call and no more: the credit is what was earned and not yet *)
(* kept, but for that (Accounted), and it never passes one pick, since     *)
(* whole picks are doubles and rounding passes no double (RoundedKeeps).   *)
(*                                                                         *)
(* Nobody starves: each exploring pick brings the cursor nearer to every   *)
(* expert it leaves out, so an expert's wait and its distance ahead of the *)
(* cursor stay below the number of experts together (Waiting).             *)
(*                                                                         *)
(* The best come first: the ranks of the experts left are the numbers      *)
(* below their count, each taken once (RanksAreTaken).                     *)
(***************************************************************************)
EXTENDS GainScheduler, FiniteSetTheorems, WellFoundedInduction, TLAPS

Counted ==
  /\ credit \in Nat /\ credit <= Grains
  /\ history.calls \in Nat /\ history.requested \in Nat /\ history.reserved \in Nat

(* What was asked for has earned what was kept and the credit, but for the *)
(* drift of the calls.                                                     *)
Accounted ==
  /\ Counted
  /\ LET balance == history.requested * Share - (history.reserved * Grains + credit)
     IN  /\ 2 * balance <= history.calls * DriftPerCall
         /\ -(history.calls * DriftPerCall) <= 2 * balance
-----------------------------------------------------------------------------
(* The quotient and the remainder of a division. *)
LEMMA Division ==
  ASSUME NEW a \in Nat, NEW b \in Nat \ {0}
  PROVE  /\ a \div b \in Nat
         /\ (a \div b) * b <= a
         /\ a < ((a \div b) + 1) * b
  <1>1. a \div b \in Nat /\ a % b \in 0 .. b - 1
    OBVIOUS
  <1>2. a = b * (a \div b) + (a % b)
    OBVIOUS
  <1> QED
    BY <1>1, <1>2

LEMMA ProductMonotone ==
  ASSUME NEW x \in Nat, NEW y \in Nat, NEW s \in Nat, x <= y
  PROVE  x * s <= y * s
  <1> DEFINE d == y - x
  <1>1. d \in Nat /\ y = x + d
    OBVIOUS
  <1>2. d * s \in Nat /\ y * s = x * s + d * s
    BY <1>1
  <1> QED
    BY <1>2

(* A quotient is the only number whose multiples enclose its dividend. *)
LEMMA QuotientBounded ==
  ASSUME NEW p \in Nat, NEW q \in Nat, NEW b \in Nat \ {0},
         p * b < (q + 1) * b
  PROVE  p <= q
  <1>1. SUFFICES ASSUME q + 1 <= p PROVE FALSE
    OBVIOUS
  <1>2. (q + 1) * b <= p * b
    BY <1>1, ProductMonotone
  <1>3. (q + 1) * b \in Nat /\ p * b \in Nat
    OBVIOUS
  <1> QED
    BY <1>2, <1>3
-----------------------------------------------------------------------------
(* Induction over the natural numbers in the form of a set, and the least  *)
(* member of a set of them.                                                *)

LEMMA NatOrderWellFounded ==
  IsWellFoundedOn({ss \in Nat \X Nat : ss[1] < ss[2]}, Nat)
  BY NatLessThanWellFounded DEF OpToRel

LEMMA Least ==
  ASSUME NEW T, T \subseteq Nat, T # {}
  PROVE  \E x \in T : \A y \in T : x <= y
  <1> DEFINE R == {ss \in Nat \X Nat : ss[1] < ss[2]}
  <1>1. IsWellFoundedOn(R, Nat)
    BY NatOrderWellFounded
  <1> HIDE DEF R
  <1>2. PICK x \in T : \A y \in T : ~(<<y, x>> \in R)
    BY <1>1, WFMin
  <1>3. \A y \in T : ~(y < x)
    BY <1>2 DEF R
  <1> QED
    BY <1>3

LEMMA SetInduction ==
  ASSUME NEW T, T \subseteq Nat, 0 \in T, \A n \in T : n + 1 \in T
  PROVE  T = Nat
  <1> SUFFICES ASSUME Nat \ T # {} PROVE FALSE
    OBVIOUS
  <1>1. PICK x \in Nat \ T : \A y \in Nat \ T : x <= y
    <2>1. Nat \ T \subseteq Nat
      OBVIOUS
    <2> QED
      BY <2>1, Least
  <1>2. x # 0 /\ x - 1 \in Nat /\ ~(x <= x - 1) /\ (x - 1) + 1 = x
    OBVIOUS
  <1>3. x - 1 \in T
    BY <1>1, <1>2
  <1> QED
    BY <1>2, <1>3
-----------------------------------------------------------------------------
(* Rounding.                                                               *)

LEMMA TopIs ==
  /\ Top \in Nat
  /\ \A n \in Nat : n <= MostPicks + 1 => n * Grains + Tolerance <= Top
  <1>1. Grains \in Nat /\ MostPicks + 1 \in Nat /\ Tolerance \in Nat
    BY SchedulerAssumption
  <1>2. (MostPicks + 1) * Grains \in Nat
    BY <1>1
  <1>3. ASSUME NEW n \in Nat, n <= MostPicks + 1 PROVE n * Grains + Tolerance <= Top
    <2>1. n * Grains <= (MostPicks + 1) * Grains /\ n * Grains \in Nat
      BY <1>1, <1>3, ProductMonotone
    <2> QED
      BY <1>1, <1>2, <2>1 DEF Top
  <1> QED
    BY <1>1, <1>2, <1>3 DEF Top

(* Every number in play has a spacing, no wider than the widest. *)
LEMMA SpacingIs ==
  ASSUME NEW x \in Nat, x <= Top
  PROVE  /\ Spacing(x) \in Nat \ {0} /\ Spacing(Top) \in Nat \ {0}
         /\ Spacing(x) <= Spacing(Top)
         /\ Grains % Spacing(x) = 0
  <1> DEFINE Fit(y) == {u \in Spacings : y < Significands * u}
  <1>1. Significands \in Nat /\ Top \in Nat
    BY SchedulerAssumption, TopIs
  <1>2. \A u \in Spacings : u \in Nat \ {0} /\ Grains % u = 0 /\ Significands * u \in Nat
    BY <1>1, SpacingAssumption
  <1>3. Fit(Top) # {} /\ Fit(Top) \subseteq Fit(x)
    BY <1>1, <1>2, SpacingAssumption
  <1>4. Fit(x) \subseteq Spacings /\ Fit(Top) \subseteq Spacings
    OBVIOUS
  <1>5. ASSUME NEW T, T \subseteq Spacings, T # {}
        PROVE  Min(T) \in T /\ \A y \in T : Min(T) <= y
    <2>1. \E z \in T : \A y \in T : z <= y
      BY <1>2, <1>5, Least
    <2> QED
      BY <2>1 DEF Min
  <1>6. Spacing(x) = Min(Fit(x)) /\ Spacing(Top) = Min(Fit(Top))
    BY DEF Spacing
  <1> HIDE DEF Fit
  <1>7. /\ Spacing(x) \in Fit(x) /\ Spacing(Top) \in Fit(Top)
        /\ \A y \in Fit(x) : Spacing(x) <= y
    BY <1>3, <1>4, <1>5, <1>6
  <1> QED
    BY <1>2, <1>3, <1>4, <1>7

(* Rounded(x) is the multiple of the spacing below x or the one above it.  *)
LEMMA RoundedIs ==
  ASSUME NEW x \in Nat, x <= Top
  PROVE  \E u \in Nat \ {0}, b \in Nat, m \in Nat :
           /\ u = Spacing(x) /\ m < u /\ x = b * u + m /\ b * u \in Nat
           /\ \/ Rounded(x) = b * u /\ 2 * m <= u
              \/ Rounded(x) = b * u + u /\ 2 * m >= u
  <1> DEFINE u == Spacing(x)
             b == x \div u
             m == x % u
             up == 2 * m > u \/ (2 * m = u /\ b % 2 = 1)
  <1>1. u \in Nat \ {0}
    BY SpacingIs
  <1>2. Rounded(x) = (IF up THEN b + 1 ELSE b) * u
    BY DEF Rounded
  <1> HIDE DEF u
  <1>3. b \in Nat /\ m \in Nat /\ m < u /\ x = b * u + m
    <2>1. x \div u \in Nat /\ x % u \in 0 .. u - 1
      BY <1>1
    <2>2. x = u * (x \div u) + (x % u)
      BY <1>1
    <2> QED
      BY <1>1, <2>1, <2>2
  <1> HIDE DEF b, m
  <1>4. b * u \in Nat /\ (b + 1) * u = b * u + u
    BY <1>1, <1>3
  <1>5. CASE up
    <2>1. Rounded(x) = b * u + u /\ 2 * m >= u
      BY <1>1, <1>2, <1>3, <1>4, <1>5
    <2> QED
      BY <1>1, <1>3, <1>4, <2>1 DEF u
  <1>6. CASE ~up
    <2>1. 2 * m <= u
      <3>1. ~(2 * m > u)
        BY <1>6
      <3> QED
        BY <1>1, <1>3, <3>1
    <2>2. Rounded(x) = b * u
      BY <1>2, <1>6
    <2> QED
      BY <1>1, <1>3, <1>4, <2>1, <2>2 DEF u
  <1> QED
    BY <1>5, <1>6

(* Rounding moves a number by half a spacing at most. *)
LEMMA RoundedNear ==
  ASSUME NEW x \in Nat, x <= Top
  PROVE  /\ Rounded(x) \in Nat
         /\ 2 * Rounded(x) <= 2 * x + Spacing(Top)
         /\ 2 * x <= 2 * Rounded(x) + Spacing(Top)
  <1>1. PICK u \in Nat \ {0}, b \in Nat, m \in Nat :
           /\ u = Spacing(x) /\ m < u /\ x = b * u + m /\ b * u \in Nat
           /\ \/ Rounded(x) = b * u /\ 2 * m <= u
              \/ Rounded(x) = b * u + u /\ 2 * m >= u
    BY RoundedIs
  <1>2. u <= Spacing(Top) /\ Spacing(Top) \in Nat
    BY <1>1, SpacingIs
  <1> DEFINE y == b * u
  <1>3. y \in Nat /\ x = y + m
    BY <1>1
  <1>4. (Rounded(x) = y /\ 2 * m <= u) \/ (Rounded(x) = y + u /\ 2 * m >= u)
    BY <1>1
  <1> HIDE DEF y
  <1>5. CASE Rounded(x) = y /\ 2 * m <= u
    BY <1>2, <1>3, <1>5
  <1>6. CASE Rounded(x) = y + u /\ 2 * m >= u
    <2>1. m < u
      BY <1>1
    <2> QED
      BY <1>2, <1>3, <1>6, <2>1
  <1> QED
    BY <1>4, <1>5, <1>6

(* Rounding passes no whole number of picks, since that is a double.       *)
LEMMA RoundedKeeps ==
  ASSUME NEW x \in Nat, x <= Top, NEW n \in Nat
  PROVE  /\ x <= n * Grains => Rounded(x) <= n * Grains
         /\ n * Grains <= x => n * Grains <= Rounded(x)
  <1>1. PICK u \in Nat \ {0}, b \in Nat, m \in Nat :
           /\ u = Spacing(x) /\ m < u /\ x = b * u + m /\ b * u \in Nat
           /\ \/ Rounded(x) = b * u /\ 2 * m <= u
              \/ Rounded(x) = b * u + u /\ 2 * m >= u
    BY RoundedIs
  <1> DEFINE k == Grains \div u
             j == n * k
  <1>2. Grains \in Nat /\ Grains % u = 0
    BY <1>1, SpacingIs, SchedulerAssumption
  <1>3. k \in Nat /\ Grains = k * u
    <2>1. k \in Nat /\ Grains = u * k + (Grains % u)
      BY <1>2
    <2> HIDE DEF k
    <2> QED
      BY <1>2, <2>1
  <1> HIDE DEF k
  <1>4. j \in Nat /\ n * Grains = j * u
    <2>1. n * (k * u) = (n * k) * u
      BY <1>3
    <2> QED
      BY <1>3, <2>1
  <1> HIDE DEF j
  <1>5. /\ j * u \in Nat /\ b * u \in Nat /\ (b + 1) * u = b * u + u
    BY <1>4
  <1>6. ASSUME j * u <= x PROVE j * u <= b * u
    <2>1. j * u < (b + 1) * u
      BY <1>1, <1>5, <1>6
    <2>2. j <= b
      BY <1>4, <2>1, QuotientBounded
    <2> QED
      BY <1>4, <2>2, ProductMonotone
  <1>7. ASSUME x <= j * u, 0 < m PROVE b * u + u <= j * u
    <2>1. ~(j <= b)
      <3>1. SUFFICES ASSUME j <= b PROVE FALSE
        OBVIOUS
      <3>2. j * u <= b * u
        BY <1>4, <3>1, ProductMonotone
      <3> QED
        BY <1>1, <1>5, <1>7, <3>2
    <2>2. b + 1 <= j
      BY <1>4, <2>1
    <2>3. (b + 1) * u <= j * u
      BY <1>4, <2>2, ProductMonotone
    <2> QED
      BY <1>5, <2>3
  <1> DEFINE y == b * u
             z == j * u
  <1>8. /\ y \in Nat /\ z \in Nat /\ x = y + m
        /\ (Rounded(x) = y /\ 2 * m <= u) \/ (Rounded(x) = y + u /\ 2 * m >= u)
        /\ z <= x => z <= y
        /\ x <= z /\ 0 < m => y + u <= z
    BY <1>1, <1>5, <1>6, <1>7
  <1>9. n * Grains = z
    BY <1>4
  <1> HIDE DEF y, z
  <1>10. x <= z => Rounded(x) <= z
    BY <1>8
  <1>11. z <= x => z <= Rounded(x)
    BY <1>8
  <1> QED
    BY <1>9, <1>10, <1>11
-----------------------------------------------------------------------------
(* The account.                                                            *)

(* A call's sums: what it earns, what it keeps and what credit is left.    *)
Settled(c, count, r, l) ==
  /\ r \in Nat /\ r <= count
  /\ l \in Nat /\ l <= Grains
  /\ 2 * (c + count * Share) <= 2 * (r * Grains + l) + DriftPerCall
  /\ 2 * (r * Grains + l) <= 2 * (c + count * Share) + DriftPerCall

LEMMA DriftIs ==
  /\ Spacing(Top) \in Nat /\ DriftPerCall \in Nat
  /\ DriftPerCall = 2 * Tolerance + 3 * Spacing(Top)
  <1>1. Spacing(Top) \in Nat /\ Tolerance \in Nat
    BY TopIs, SpacingIs, SchedulerAssumption
  <1> QED
    BY <1>1 DEF DriftPerCall

(* What is left of the credit, from what was earned and what was kept.     *)
LEMMA LeftIs ==
  ASSUME NEW earned \in Nat, NEW n \in Nat, n <= MostPicks,
         earned <= (n + 1) * Grains,
         NEW t \in Nat, 2 * t <= 2 * (earned + Tolerance) + Spacing(Top),
         n * Grains <= t
  PROVE  LET l == CreditLeft(earned, n)
         IN  /\ l \in Nat /\ l <= Grains
             /\ 2 * l + 2 * (n * Grains) <= 2 * earned + (2 * Tolerance + Spacing(Top))
             /\ 2 * earned <= 2 * l + 2 * (n * Grains) + (2 * Tolerance + Spacing(Top))
  <1> DEFINE z == n * Grains
             l == CreditLeft(earned, n)
             U == Spacing(Top)
  <1>1. Grains \in Nat \ {0} /\ Tolerance \in Nat /\ MostPicks \in Nat \ {0}
    BY SchedulerAssumption
  <1>2. U \in Nat
    BY DriftIs
  <1>3. z \in Nat /\ earned <= z + Grains /\ z <= t
    <2>1. n * Grains \in Nat /\ (n + 1) * Grains = n * Grains + Grains
      BY <1>1
    <2> QED
      BY <2>1
  <1>4. l = IF earned >= z THEN Rounded(earned - z) ELSE 0
    BY DEF CreditLeft
  <1>5. CASE earned >= z
    <2> DEFINE d == earned - z
    <2>1. d \in Nat /\ d <= Grains
      <3> HIDE DEF z
      <3> QED
        BY <1>1, <1>3, <1>5
    <2>2. 1 * Grains = Grains /\ 1 * Grains + Tolerance <= Top
      BY <1>1, TopIs
    <2>3. d <= Top
      <3> HIDE DEF d
      <3> QED
        BY <1>1, <2>1, <2>2, TopIs
    <2>4. l = Rounded(d)
      BY <1>4, <1>5
    <2> HIDE DEF l
    <2>5. l \in Nat /\ 2 * l <= 2 * d + U /\ 2 * d <= 2 * l + U
      <3> HIDE DEF d
      <3> QED
        BY <2>1, <2>3, <2>4, RoundedNear
    <2>6. l <= Grains
      <3> HIDE DEF d
      <3>1. d <= 1 * Grains => Rounded(d) <= 1 * Grains
        BY <2>1, <2>3, RoundedKeeps
      <3> QED
        BY <2>1, <2>2, <2>4, <3>1
    <2> HIDE DEF z, U
    <2>7. /\ 2 * l + 2 * z <= 2 * earned + (2 * Tolerance + U)
          /\ 2 * earned <= 2 * l + 2 * z + (2 * Tolerance + U)
      BY <1>1, <1>2, <1>3, <1>5, <2>5
    <2> QED
      BY <2>5, <2>6, <2>7 DEF z, U, l
  <1>6. CASE ~(earned >= z)
    <2>1. l = 0
      BY <1>4, <1>6
    <2> HIDE DEF l
    <2>2. 2 * t <= 2 * (earned + Tolerance) + U
      OBVIOUS
    <2> HIDE DEF z, U
    <2>3. /\ 2 * l + 2 * z <= 2 * earned + (2 * Tolerance + U)
          /\ 2 * earned <= 2 * l + 2 * z + (2 * Tolerance + U)
      BY <1>1, <1>2, <1>3, <1>6, <2>1, <2>2
    <2> QED
      BY <1>1, <2>1, <2>3 DEF z, U, l
  <1> QED
    BY <1>5, <1>6

(* The sums of a call come out within its drift.                           *)
LEMMA CallSettles ==
  ASSUME NEW c \in Nat, c <= Grains, NEW count \in Nat, count <= MostPicks
  PROVE  LET earned == Rounded(c + Rounded(count * Share))
             reserve == Min({count, Rounded(earned + Tolerance) \div Grains})
         IN  Settled(c, count, reserve, CreditLeft(earned, reserve))
  <1> DEFINE w == count * Share
             z == count * Grains
             a == Rounded(w)
             earned == Rounded(c + a)
             t == Rounded(earned + Tolerance)
             q == t \div Grains
             r == Min({count, q})
             l == CreditLeft(earned, r)
             U == Spacing(Top)
  <1>1. /\ Grains \in Nat \ {0} /\ Share \in Nat /\ Share <= Grains
        /\ Tolerance \in Nat /\ MostPicks \in Nat
    BY SchedulerAssumption
  <1>2. U \in Nat /\ Top \in Nat
    BY DriftIs, TopIs
  <1>3. /\ w \in Nat /\ z \in Nat /\ w <= z
        /\ (count + 1) * Grains = z + Grains /\ z + Grains + Tolerance <= Top
    <2>1. Share * count <= Grains * count
      BY <1>1, ProductMonotone
    <2>2. Share * count = count * Share /\ Grains * count = count * Grains
      BY <1>1
    <2>3. count * Share \in Nat /\ count * Grains \in Nat
      BY <1>1
    <2>4. (count + 1) * Grains = count * Grains + Grains
      BY <1>1
    <2>5. (count + 1) * Grains + Tolerance <= Top
      BY <1>1, TopIs
    <2> QED
      BY <2>1, <2>2, <2>3, <2>4, <2>5
  <1>4. a \in Nat /\ a <= z /\ 2 * a <= 2 * w + U /\ 2 * w <= 2 * a + U
    <2> HIDE DEF w
    <2>1. w <= Top
      <3> HIDE DEF z
      <3> QED
        BY <1>1, <1>2, <1>3
    <2>2. w <= count * Grains => Rounded(w) <= count * Grains
      BY <1>3, <2>1, RoundedKeeps
    <2> QED
      BY <1>3, <2>1, <2>2, RoundedNear
  <1> HIDE DEF a
  <1>5. /\ earned \in Nat /\ earned <= z + Grains
        /\ 2 * earned <= 2 * (c + a) + U /\ 2 * (c + a) <= 2 * earned + U
    <2> DEFINE x == c + a
    <2>1. x \in Nat /\ x <= z + Grains /\ x <= Top
      <3> HIDE DEF z
      <3> QED
        BY <1>1, <1>2, <1>3, <1>4
    <2> HIDE DEF x
    <2>2. x <= (count + 1) * Grains => Rounded(x) <= (count + 1) * Grains
      BY <2>1, RoundedKeeps
    <2>3. Rounded(x) <= z + Grains
      BY <1>3, <2>1, <2>2
    <2>4. /\ Rounded(x) \in Nat
          /\ 2 * Rounded(x) <= 2 * x + U /\ 2 * x <= 2 * Rounded(x) + U
      BY <2>1, RoundedNear
    <2> QED
      BY <2>3, <2>4 DEF x
  <1> HIDE DEF earned
  <1>6. /\ earned + Tolerance \in Nat /\ earned + Tolerance <= Top
    <2> HIDE DEF z
    <2> QED
      BY <1>1, <1>2, <1>3, <1>5
  <1>7. /\ t \in Nat /\ 2 * t <= 2 * (earned + Tolerance) + U
        /\ \A n \in Nat : n * Grains <= earned + Tolerance => n * Grains <= t
    <2> DEFINE x == earned + Tolerance
    <2>1. x \in Nat /\ x <= Top
      BY <1>6
    <2> HIDE DEF x
    <2>2. /\ Rounded(x) \in Nat /\ 2 * Rounded(x) <= 2 * x + U
          /\ \A n \in Nat : n * Grains <= x => n * Grains <= Rounded(x)
      BY <2>1, RoundedNear, RoundedKeeps
    <2> QED
      BY <2>2 DEF x
  <1> HIDE DEF t
  <1>8. q \in Nat /\ q * Grains <= t /\ t < (q + 1) * Grains
    BY <1>1, <1>7, Division
  <1> HIDE DEF q
  <1>9. r \in Nat /\ r <= count /\ r <= q /\ (r = count \/ r = q)
    <2>1. \E x \in {count, q} : \A y \in {count, q} : x <= y
      BY <1>8
    <2> QED
      BY <1>8, <2>1 DEF Min
  <1> HIDE DEF r
  <1>10. earned <= (r + 1) * Grains
    <2>1. CASE r = count
      BY <1>3, <1>5, <2>1
    <2>2. CASE r = q
      <3>1. SUFFICES ASSUME ~(earned <= (q + 1) * Grains) PROVE FALSE
        BY <2>2
      <3> DEFINE v == (q + 1) * Grains
      <3>2. v \in Nat /\ q + 1 \in Nat
        BY <1>1, <1>8
      <3>3. v <= earned + Tolerance => v <= t
        BY <1>7, <3>2
      <3>4. t < v /\ ~(earned <= v)
        BY <1>8, <3>1
      <3> HIDE DEF v
      <3> QED
        BY <1>1, <1>5, <1>7, <3>2, <3>3, <3>4
    <2> QED
      BY <1>9, <2>1, <2>2
  <1>11. r * Grains <= t /\ r * Grains \in Nat
    <2>1. r * Grains <= q * Grains /\ r * Grains \in Nat /\ q * Grains \in Nat
      BY <1>1, <1>8, <1>9, ProductMonotone
    <2> QED
      BY <1>7, <1>8, <2>1
  <1>12. r <= MostPicks
    BY <1>1, <1>9
  <1>13. /\ l \in Nat /\ l <= Grains
         /\ 2 * l + 2 * (r * Grains) <= 2 * earned + (2 * Tolerance + U)
         /\ 2 * earned <= 2 * l + 2 * (r * Grains) + (2 * Tolerance + U)
    BY <1>5, <1>7, <1>9, <1>10, <1>11, <1>12, LeftIs
  <1> HIDE DEF l
  <1> DEFINE k == r * Grains
             D == DriftPerCall
  <1>14. D = 2 * Tolerance + 3 * U
    BY DriftIs
  <1>15. k \in Nat
    BY <1>11
  <1>16. /\ 2 * l + 2 * k <= 2 * earned + (2 * Tolerance + U)
         /\ 2 * earned <= 2 * l + 2 * k + (2 * Tolerance + U)
    BY <1>13
  <1> HIDE DEF U, D, k, w
  <1>17. /\ 2 * (c + w) <= 2 * (k + l) + D
         /\ 2 * (k + l) <= 2 * (c + w) + D
    BY <1>1, <1>2, <1>3, <1>4, <1>5, <1>13, <1>14, <1>15, <1>16
  <1>18. Settled(c, count, r, l)
    BY <1>9, <1>13, <1>17 DEF Settled, k, w, D
  <1> QED
    BY <1>18 DEF l, r, q, t, earned, a, w

(* What a call changes of the account. *)
LEMMA SelectKeeps ==
  ASSUME Accounted, NEW count \in 1 .. TotalExperts, Select(count)
  PROVE  Accounted'
  <1> DEFINE earned == Rounded(credit + Rounded(count * Share))
             r == Min({count, Rounded(earned + Tolerance) \div Grains})
             l == CreditLeft(earned, r)
  <1>1. /\ Share \in Nat /\ Grains \in Nat /\ TotalExperts \in Nat /\ DriftPerCall \in Nat
        /\ count \in Nat /\ count <= MostPicks
    BY SchedulerAssumption, DriftIs DEF Select
  <1>2. Counted
    BY DEF Accounted
  <1>3. Settled(credit, count, r, l)
    BY <1>1, <1>2, CallSettles DEF Counted
  <1>4. /\ credit' = l
        /\ history'.calls = history.calls + 1
        /\ history'.requested = history.requested + count
        /\ history'.reserved = history.reserved + r
    BY DEF Select
  <1> HIDE DEF l, r
  <1>5. /\ r \in Nat /\ l \in Nat /\ l <= Grains
        /\ 2 * (credit + count * Share) <= 2 * (r * Grains + l) + DriftPerCall
        /\ 2 * (r * Grains + l) <= 2 * (credit + count * Share) + DriftPerCall
    BY <1>3 DEF Settled
  <1>6. Counted'
    BY <1>1, <1>2, <1>4, <1>5 DEF Counted
  <1> DEFINE C == history.calls * DriftPerCall
             Q == history.requested * Share
             K == history.reserved * Grains
             w == count * Share
             k == r * Grains
             D == DriftPerCall
  <1>7. C \in Nat /\ Q \in Nat /\ K \in Nat /\ w \in Nat /\ k \in Nat
    BY <1>1, <1>2, <1>5 DEF Counted
  <1>8. /\ history'.calls * DriftPerCall = C + D
        /\ history'.requested * Share = Q + w
        /\ history'.reserved * Grains = K + k
    <2>1. (history.calls + 1) * DriftPerCall = history.calls * DriftPerCall + DriftPerCall
      BY <1>1, <1>2 DEF Counted
    <2>2. (history.requested + count) * Share = history.requested * Share + count * Share
      BY <1>1, <1>2 DEF Counted
    <2>3. (history.reserved + r) * Grains = history.reserved * Grains + r * Grains
      BY <1>1, <1>2, <1>5 DEF Counted
    <2> QED
      BY <1>4, <2>1, <2>2, <2>3
  <1>9. /\ 2 * (Q - (K + credit)) <= C /\ -C <= 2 * (Q - (K + credit))
    BY DEF Accounted
  <1>10. 2 * (credit + w) <= 2 * (k + l) + D /\ 2 * (k + l) <= 2 * (credit + w) + D
    BY <1>5
  <1>11. D \in Nat /\ credit \in Nat /\ l \in Nat
    BY <1>1, <1>2, <1>5 DEF Counted
  <1> HIDE DEF C, Q, K, w, k, D
  <1>12. /\ 2 * ((Q + w) - ((K + k) + l)) <= C + D
         /\ -(C + D) <= 2 * ((Q + w) - ((K + k) + l))
    BY <1>7, <1>9, <1>10, <1>11
  <1>13. LET balance == history'.requested * Share - (history'.reserved * Grains + credit')
         IN  /\ 2 * balance <= history'.calls * DriftPerCall
             /\ -(history'.calls * DriftPerCall) <= 2 * balance
    BY <1>4, <1>8, <1>12
  <1> QED
    BY <1>6, <1>13 DEF Accounted, DriftPerCall, Spacing, Top

LEMMA InitAccounted == Init => Accounted
  <1>1. Share \in Nat /\ Grains \in Nat /\ DriftPerCall \in Nat
    BY SchedulerAssumption, DriftIs
  <1>2. 0 * Share = 0 /\ 0 * Grains = 0 /\ 0 * DriftPerCall = 0
    BY <1>1
  <1> QED
    BY <1>1, <1>2 DEF Init, Accounted, Counted

(* Whatever changes neither the credit nor the history keeps the account.  *)
LEMMA AccountKept ==
  ASSUME Accounted, UNCHANGED <<credit, history>>
  PROVE  Accounted'
  BY DEF Accounted, Counted, DriftPerCall, Spacing, Top
-----------------------------------------------------------------------------
(* Over all calls no more than the share of what was asked for is kept for *)
(* exploration, and no less than it by more than the pick under way, but   *)
(* for the tolerance and the rounding of every call (expert_bank.py:447-   *)
(* 449, 483-485).                                                          *)
THEOREM ExplorationShare == Spec => []ShareIsKept
  <1>1. Accounted /\ [Next]_vars => Accounted'
    <2>1. SUFFICES ASSUME Accounted, [Next]_vars PROVE Accounted'
      OBVIOUS
    <2>2. ASSUME NEW count \in 1 .. TotalExperts, Select(count) PROVE Accounted'
      BY <2>1, <2>2, SelectKeeps
    <2>3. ASSUME NEW e \in Experts, NEW gain \in 0 .. MaxGain, Observe(e, gain) PROVE Accounted'
      BY <2>1, <2>3, AccountKept DEF Observe
    <2>4. CASE UNCHANGED vars
      BY <2>1, <2>4, AccountKept DEF vars
    <2> QED
      BY <2>1, <2>2, <2>3, <2>4 DEF Next
  <1>2. Accounted => ShareIsKept
    <2>1. SUFFICES ASSUME Accounted PROVE ShareIsKept
      OBVIOUS
    <2> DEFINE C == history.calls * DriftPerCall
               Q == history.requested * Share
               K == history.reserved * Grains
    <2>2. /\ Share \in Nat /\ Grains \in Nat /\ DriftPerCall \in Nat
          /\ credit \in Nat /\ credit <= Grains /\ history.calls \in Nat
          /\ history.requested \in Nat /\ history.reserved \in Nat
      BY <2>1, SchedulerAssumption, DriftIs DEF Accounted, Counted
    <2>3. C \in Nat /\ Q \in Nat /\ K \in Nat
      BY <2>2
    <2>4. 2 * (Q - (K + credit)) <= C /\ -C <= 2 * (Q - (K + credit))
      BY <2>1 DEF Accounted
    <2>5. 2 * history.requested * Share = 2 * Q /\ 2 * history.reserved * Grains = 2 * K
      BY <2>2
    <2> HIDE DEF C, Q, K
    <2>6. 2 * K - C <= 2 * Q /\ 2 * Q <= 2 * K + 2 * Grains + C
      BY <2>2, <2>3, <2>4
    <2> QED
      BY <2>5, <2>6 DEF ShareIsKept, C
  <1> QED
    BY <1>1, <1>2, InitAccounted, PTL DEF Spec

-----------------------------------------------------------------------------
(* Exploring is a recursion: what it is at 0 and at each number after.     *)

Path(s, n, g) ==
  g = [i \in 0 .. n |-> IF i = 0 THEN s ELSE Explored(g[i-1])]

LEMMA PathExists ==
  ASSUME NEW s, NEW n \in Nat
  PROVE  \E g : Path(s, n, g)
  <1> DEFINE T == {m \in Nat : \E g : Path(s, m, g)}
  <1>1. 0 \in T
    <2> DEFINE g == [i \in 0 .. 0 |-> s]
    <2>1. g = [i \in 0 .. 0 |-> IF i = 0 THEN s ELSE Explored(g[i-1])]
      OBVIOUS
    <2> QED
      BY <2>1 DEF Path
  <1>2. ASSUME NEW m \in T PROVE m + 1 \in T
    <2>1. PICK g : Path(s, m, g)
      OBVIOUS
    <2> DEFINE h == [i \in 0 .. m+1 |-> IF i = 0 THEN s ELSE Explored(g[i-1])]
    <2>2. m \in Nat /\ m + 1 \in Nat
      OBVIOUS
    <2>3. \A i \in 0 .. m : h[i] = g[i]
      BY <2>1, <2>2 DEF Path
    <2>4. \A i \in 0 .. m+1 : i # 0 => i-1 \in 0 .. m
      BY <2>2
    <2>5. h = [i \in 0 .. m+1 |-> IF i = 0 THEN s ELSE Explored(h[i-1])]
      <3>1. \A i \in 0 .. m+1 : i # 0 => h[i-1] = g[i-1]
        BY <2>3, <2>4
      <3> QED
        BY <3>1
    <2> HIDE DEF h
    <2>6. Path(s, m+1, h)
      BY <2>5 DEF Path
    <2> QED
      BY <2>2, <2>6
  <1> HIDE DEF T
  <1>3. T \subseteq Nat
    BY DEF T
  <1>4. T = Nat
    BY <1>1, <1>2, <1>3, SetInduction
  <1> QED
    BY <1>4 DEF T

LEMMA PathTaken ==
  ASSUME NEW s, NEW n \in Nat
  PROVE  \E g : Path(s, n, g) /\ ExploredTimes(s, n) = g[n]
  <1> DEFINE g == CHOOSE after : Path(s, n, after)
  <1>1. Path(s, n, g)
    BY PathExists
  <1>2. ExploredTimes(s, n) = g[n]
    BY DEF ExploredTimes, Path
  <1> QED
    BY <1>1, <1>2

LEMMA PathsAgree ==
  ASSUME NEW s, NEW n \in Nat, NEW m \in Nat, n <= m,
         NEW g, Path(s, n, g), NEW h, Path(s, m, h)
  PROVE  g[n] = h[n]
  <1> DEFINE T == {i \in Nat : i <= n => g[i] = h[i]}
  <1>1. 0 \in T
    BY DEF Path
  <1>2. ASSUME NEW i \in T PROVE i + 1 \in T
    <2>1. i \in Nat /\ i + 1 \in Nat /\ (i + 1) - 1 = i /\ i + 1 # 0
      OBVIOUS
    <2>2. CASE i + 1 <= n
      <3>1. i <= n /\ i + 1 \in 0 .. n /\ i + 1 \in 0 .. m
        BY <2>1, <2>2
      <3>2. g[i+1] = Explored(g[i]) /\ h[i+1] = Explored(h[i])
        <4>1. g[i+1] = Explored(g[(i+1)-1]) /\ h[i+1] = Explored(h[(i+1)-1])
          BY <2>1, <3>1 DEF Path
        <4> QED
          BY <2>1, <4>1
      <3>3. g[i] = h[i]
        BY <3>1
      <3> QED
        BY <2>1, <3>2, <3>3
    <2>3. CASE ~(i + 1 <= n)
      BY <2>1, <2>3
    <2> QED
      BY <2>2, <2>3
  <1>3. T \subseteq Nat
    OBVIOUS
  <1> HIDE DEF T
  <1>4. T = Nat
    BY <1>1, <1>2, <1>3, SetInduction
  <1> QED
    BY <1>4 DEF T

LEMMA ExploredTimesStep ==
  ASSUME NEW s
  PROVE  /\ ExploredTimes(s, 0) = s
         /\ \A n \in Nat : ExploredTimes(s, n+1) = Explored(ExploredTimes(s, n))
  <1>1. ExploredTimes(s, 0) = s
    <2>1. PICK g : Path(s, 0, g) /\ ExploredTimes(s, 0) = g[0]
      BY PathTaken
    <2> QED
      BY <2>1 DEF Path
  <1>2. ASSUME NEW n \in Nat
        PROVE  ExploredTimes(s, n+1) = Explored(ExploredTimes(s, n))
    <2>1. n + 1 \in Nat /\ n <= n + 1 /\ n + 1 # 0 /\ (n + 1) - 1 = n
      OBVIOUS
    <2>2. PICK g : Path(s, n, g) /\ ExploredTimes(s, n) = g[n]
      BY PathTaken
    <2>3. PICK h : Path(s, n+1, h) /\ ExploredTimes(s, n+1) = h[n+1]
      BY <2>1, PathTaken
    <2>4. g[n] = h[n]
      BY <2>1, <2>2, <2>3, PathsAgree
    <2>5. h[n+1] = Explored(h[(n+1)-1])
      BY <2>1, <2>3 DEF Path
    <2> QED
      BY <2>1, <2>2, <2>3, <2>4, <2>5
  <1> QED
    BY <1>1, <1>2


-----------------------------------------------------------------------------
(* The ring of experts.  How far e is ahead of the cursor c.               *)

Ahead(c, e) == (e + TotalExperts - c) % TotalExperts

LEMMA AroundOnce ==
  ASSUME NEW n \in Nat \ {0}, NEW a \in Nat, a < 2 * n
  PROVE  a % n = IF a < n THEN a ELSE a - n
  <1> DEFINE q == a \div n
             r == a % n
  <1>1. q \in Nat /\ r \in 0 .. n - 1 /\ a = n * q + r
    OBVIOUS
  <1> HIDE DEF q, r
  <1>2. CASE q = 0
    BY <1>1, <1>2
  <1>3. CASE q = 1
    BY <1>1, <1>3
  <1>4. CASE q >= 2
    <2>1. 2 * n <= q * n
      BY <1>1, <1>4, ProductMonotone
    <2>2. q * n = n * q /\ q * n \in Nat
      BY <1>1
    <2> QED
      BY <1>1, <2>1, <2>2
  <1>5. q = 0 \/ q = 1 \/ q >= 2
    BY <1>1
  <1> QED
    BY <1>2, <1>3, <1>4, <1>5

LEMMA AheadIs ==
  ASSUME NEW c \in Experts, NEW e \in Experts
  PROVE  /\ Ahead(c, e) = IF e < c THEN e + TotalExperts - c ELSE e - c
         /\ Ahead(c, e) \in 0 .. TotalExperts - 1
  <1>1. TotalExperts \in Nat \ {0}
    BY SchedulerAssumption
  <1>2. /\ c \in Nat /\ e \in Nat /\ c < TotalExperts /\ e < TotalExperts
    BY <1>1 DEF Experts
  <1>3. e + TotalExperts - c \in Nat /\ e + TotalExperts - c < 2 * TotalExperts
    BY <1>1, <1>2
  <1> DEFINE a == e + TotalExperts - c
  <1>4. a % TotalExperts = IF a < TotalExperts THEN a ELSE a - TotalExperts
    <2> HIDE DEF a
    <2>1. a \in Nat /\ a < 2 * TotalExperts
      BY <1>3 DEF a
    <2> QED
      BY <1>1, <2>1, AroundOnce
  <1> QED
    BY <1>1, <1>2, <1>4 DEF Ahead

(* Past x, the nearer of two, the other is nearer by at least one. *)
LEMMA AheadShrinks ==
  ASSUME NEW c \in Experts, NEW x \in Experts, NEW e \in Experts,
         x # e, Ahead(c, x) <= Ahead(c, e)
  PROVE  /\ (x + 1) % TotalExperts \in Experts
         /\ Ahead((x + 1) % TotalExperts, e) + 1 <= Ahead(c, e)
  <1> DEFINE y == (x + 1) % TotalExperts
  <1>1. TotalExperts \in Nat \ {0}
    BY SchedulerAssumption
  <1>2. /\ c \in Nat /\ e \in Nat /\ c < TotalExperts /\ e < TotalExperts
        /\ x \in Nat /\ x < TotalExperts
    BY <1>1 DEF Experts
  <1>3. y = IF x + 1 < TotalExperts THEN x + 1 ELSE 0
    <2> DEFINE a == x + 1
    <2>1. a \in Nat /\ a < 2 * TotalExperts
      BY <1>1, <1>2
    <2>2. a % TotalExperts = IF a < TotalExperts THEN a ELSE a - TotalExperts
      <3> HIDE DEF a
      <3> QED
        BY <1>1, <2>1, AroundOnce
    <2>3. y = a % TotalExperts
      OBVIOUS
    <2> HIDE DEF y
    <2> QED
      BY <1>1, <1>2, <2>2, <2>3
  <1> HIDE DEF y
  <1>4. y \in Experts
    BY <1>1, <1>2, <1>3 DEF Experts
  <1>5. /\ Ahead(c, x) = IF x < c THEN x + TotalExperts - c ELSE x - c
        /\ Ahead(c, e) = IF e < c THEN e + TotalExperts - c ELSE e - c
        /\ Ahead(y, e) = IF e < y THEN e + TotalExperts - y ELSE e - y
    BY <1>4, AheadIs
  <1>6. Ahead(y, e) + 1 <= Ahead(c, e)
    BY <1>1, <1>2, <1>3, <1>5
  <1> QED
    BY <1>4, <1>6 DEF y

LEMMA AfterExpert ==
  ASSUME NEW x \in Experts
  PROVE  (x + 1) % TotalExperts \in Experts
  <1>1. TotalExperts \in Nat \ {0} /\ x + 1 \in Nat
    BY SchedulerAssumption DEF Experts
  <1> DEFINE a == x + 1
             r == a % TotalExperts
  <1>2. r \in 0 .. TotalExperts - 1
    <2> HIDE DEF a
    <2> QED
      BY <1>1 DEF a
  <1> QED
    BY <1>2 DEF Experts

-----------------------------------------------------------------------------
(* Picks.                                                                  *)

LEMMA ExpertsFinite ==
  /\ IsFiniteSet(Experts) /\ Cardinality(Experts) = TotalExperts
  <1>1. TotalExperts \in Nat \ {0} /\ TotalExperts - 1 \in Int /\ 0 \in Int
    BY SchedulerAssumption
  <1>2. /\ IsFiniteSet(0 .. TotalExperts - 1)
        /\ Cardinality(0 .. TotalExperts - 1) =
             IF 0 > TotalExperts - 1 THEN 0 ELSE TotalExperts - 1 - 0 + 1
    BY <1>1, FS_Interval
  <1> QED
    BY <1>1, <1>2 DEF Experts

(* As many experts are chosen as there are picks, if no pick is repeated. *)
LEMMA ChosenCounted ==
  ASSUME NEW p \in Seq(Experts), IsInjective(p)
  PROVE  /\ Chosen(p) \subseteq Experts
         /\ IsFiniteSet(Chosen(p)) /\ Cardinality(Chosen(p)) = Len(p)
         /\ Len(p) \in Nat
  <1>1. Len(p) \in Nat /\ DOMAIN p = 1 .. Len(p) /\ p \in [1 .. Len(p) -> Experts]
    OBVIOUS
  <1>2. Chosen(p) = {p[i] : i \in 1 .. Len(p)}
    BY <1>1 DEF Chosen, Range
  <1>3. p \in Bijection(1 .. Len(p), Chosen(p))
    <2>1. p \in [1 .. Len(p) -> Chosen(p)]
      BY <1>1, <1>2
    <2> QED
      BY <1>2, <2>1 DEF Bijection, Injection, Surjection
  <1>4. IsFiniteSet(1 .. Len(p)) /\ Cardinality(1 .. Len(p)) = Len(p)
    BY <1>1, FS_Interval
  <1>5. ExistsBijection(1 .. Len(p), Chosen(p))
    BY <1>3 DEF ExistsBijection
  <1>6. IsFiniteSet(Chosen(p)) /\ Cardinality(Chosen(p)) = Len(p)
    BY <1>4, <1>5, FS_Bijection
  <1>7. Chosen(p) \subseteq Experts
    BY <1>1, <1>2
  <1> QED
    BY <1>1, <1>6, <1>7

LEMMA AppendPick ==
  ASSUME NEW p \in Seq(Experts), IsInjective(p), NEW e \in Experts \ Chosen(p)
  PROVE  /\ Append(p, e) \in Seq(Experts) /\ IsInjective(Append(p, e))
         /\ Len(Append(p, e)) = Len(p) + 1
         /\ \A i \in 1 .. Len(p) : Append(p, e)[i] = p[i]
         /\ Chosen(Append(p, e)) = Chosen(p) \cup {e}
  <1> DEFINE q == Append(p, e)
             n == Len(p)
  <1>1. /\ q \in Seq(Experts) /\ n \in Nat /\ Len(q) = n + 1
        /\ \A i \in 1 .. n : q[i] = p[i]
        /\ q[n+1] = e /\ DOMAIN q = 1 .. n+1 /\ DOMAIN p = 1 .. n
    OBVIOUS
  <1>2. \A i \in 1 .. n : p[i] # e
    BY <1>1 DEF Chosen, Range
  <1> HIDE DEF q, n
  <1>3. IsInjective(q)
    <2> SUFFICES ASSUME NEW a \in 1 .. n+1, NEW b \in 1 .. n+1, q[a] = q[b]
                 PROVE  a = b
      BY <1>1 DEF IsInjective
    <2>1. CASE a = n + 1
      BY <1>1, <1>2, <2>1
    <2>2. CASE b = n + 1
      BY <1>1, <1>2, <2>2
    <2>3. CASE a # n + 1 /\ b # n + 1
      <3>1. a \in 1 .. n /\ b \in 1 .. n
        BY <1>1, <2>3
      <3> QED
        BY <1>1, <3>1 DEF IsInjective
    <2> QED
      BY <2>1, <2>2, <2>3
  <1>4. Chosen(q) = Chosen(p) \cup {e}
    <2>1. Chosen(q) = {q[i] : i \in 1 .. n+1} /\ Chosen(p) = {p[i] : i \in 1 .. n}
      BY <1>1 DEF Chosen, Range
    <2>2. \A i : i \in 1 .. n+1 <=> i \in 1 .. n \/ i = n + 1
      BY <1>1
    <2> QED
      BY <1>1, <2>1, <2>2
  <1> QED
    BY <1>1, <1>3, <1>4 DEF q, n

-----------------------------------------------------------------------------
(* Exploring.  What k picks make of a call: the picks stay, k new ones     *)
(* follow, and the cursor comes nearer by k to whoever is left out.        *)

States == [picks: Seq(Experts), cursor: Experts]

ExploresBy(s, t, k) ==
  /\ t \in States /\ IsInjective(t.picks)
  /\ Len(t.picks) = Len(s.picks) + k
  /\ \A i \in 1 .. Len(s.picks) : t.picks[i] = s.picks[i]
  /\ Chosen(s.picks) \subseteq Chosen(t.picks)
  /\ \A e \in Experts \ Chosen(t.picks) :
       Ahead(t.cursor, e) + k <= Ahead(s.cursor, e)

LEMMA ExploredIs ==
  ASSUME NEW s \in States, IsInjective(s.picks), Len(s.picks) < TotalExperts
  PROVE  ExploresBy(s, Explored(s), 1)
  <1> DEFINE free == Experts \ Chosen(s.picks)
             Nearest(x) == \A y \in free : Ahead(s.cursor, x) <= Ahead(s.cursor, y)
             e == CHOOSE x \in free : Nearest(x)
             d == Explored(s)
  <1>1. s.picks \in Seq(Experts) /\ s.cursor \in Experts
    BY DEF States
  <1>2. free # {}
    <2>1. Cardinality(Chosen(s.picks)) # TotalExperts
      BY <1>1, ChosenCounted, SchedulerAssumption
    <2>2. Chosen(s.picks) # Experts
      BY <2>1, ExpertsFinite
    <2> QED
      BY <1>1, <2>2, ChosenCounted
  <1>3. \E x \in free : Nearest(x)
    <2> DEFINE T == {Ahead(s.cursor, x) : x \in free}
    <2>1. T \subseteq Nat /\ T # {}
      BY <1>1, <1>2, AheadIs
    <2>2. PICK m \in T : \A y \in T : m <= y
      BY <2>1, Least
    <2> QED
      BY <2>2
  <1>4. e \in free /\ Nearest(e)
    BY <1>3
  <1>5. d = [picks |-> Append(s.picks, e), cursor |-> (e + 1) % TotalExperts]
    BY DEF Explored, Ahead
  <1> HIDE DEF e, d
  <1>6. /\ Append(s.picks, e) \in Seq(Experts) /\ IsInjective(Append(s.picks, e))
        /\ Len(Append(s.picks, e)) = Len(s.picks) + 1
        /\ \A i \in 1 .. Len(s.picks) : Append(s.picks, e)[i] = s.picks[i]
        /\ Chosen(Append(s.picks, e)) = Chosen(s.picks) \cup {e}
    BY <1>1, <1>4, AppendPick
  <1>7. (e + 1) % TotalExperts \in Experts
    BY <1>4, AfterExpert
  <1>8. \A x \in Experts \ Chosen(d.picks) : Ahead(d.cursor, x) + 1 <= Ahead(s.cursor, x)
    <2> SUFFICES ASSUME NEW x \in Experts \ Chosen(d.picks)
                 PROVE  Ahead((e + 1) % TotalExperts, x) + 1 <= Ahead(s.cursor, x)
      BY <1>5
    <2>1. x \in free /\ x # e
      BY <1>5, <1>6
    <2> QED
      BY <1>1, <1>4, <2>1, AheadShrinks
  <1>9. d \in States
    BY <1>5, <1>6, <1>7 DEF States
  <1>10. ExploresBy(s, d, 1)
    BY <1>5, <1>6, <1>8, <1>9 DEF ExploresBy
  <1> QED
    BY <1>10 DEF d

LEMMA NearerTwice ==
  ASSUME NEW near \in Int, NEW mid \in Int, NEW far \in Int, NEW j \in Nat, NEW k \in Nat,
         near + k <= mid, mid + j <= far
  PROVE  near + (j + k) <= far
  OBVIOUS

LEMMA ExploresCompose ==
  ASSUME NEW s \in States, NEW t, NEW u, NEW j \in Nat, NEW k \in Nat,
         ExploresBy(s, t, j), ExploresBy(t, u, k)
  PROVE  ExploresBy(s, u, j + k)
  <1>1. /\ Len(s.picks) \in Nat /\ t \in States /\ u \in States
        /\ s.cursor \in Experts /\ t.cursor \in Experts /\ u.cursor \in Experts
        /\ Len(t.picks) = Len(s.picks) + j /\ Len(u.picks) = Len(t.picks) + k
    BY DEF ExploresBy, States
  <1>2. Len(u.picks) = Len(s.picks) + (j + k)
    <2> DEFINE ls == Len(s.picks)
               lt == Len(t.picks)
               lu == Len(u.picks)
    <2>1. ls \in Nat /\ lt = ls + j /\ lu = lt + k
      BY <1>1
    <2> HIDE DEF ls, lt, lu
    <2>2. lu = ls + (j + k)
      BY <2>1
    <2> QED
      BY <2>2 DEF ls, lu
  <1>3. \A i \in 1 .. Len(s.picks) : u.picks[i] = s.picks[i]
    <2>1. \A i \in 1 .. Len(s.picks) : i \in 1 .. Len(t.picks)
      BY <1>1
    <2> QED
      BY <2>1 DEF ExploresBy
  <1>4. ASSUME NEW e \in Experts \ Chosen(u.picks)
        PROVE  Ahead(u.cursor, e) + (j + k) <= Ahead(s.cursor, e)
    <2> DEFINE near == Ahead(u.cursor, e)
               mid == Ahead(t.cursor, e)
               far == Ahead(s.cursor, e)
    <2>1. near + k <= mid /\ mid + j <= far
      BY DEF ExploresBy
    <2>2. near \in Int /\ mid \in Int /\ far \in Int
      <3>1. \A c \in Experts : Ahead(c, e) \in 0 .. TotalExperts - 1
        BY AheadIs
      <3>2. \A i \in 0 .. TotalExperts - 1 : i \in Int
        OBVIOUS
      <3> HIDE DEF Ahead
      <3> QED
        BY <1>1, <3>1, <3>2
    <2> HIDE DEF near, mid, far
    <2>3. near + (j + k) <= far
      BY <2>1, <2>2, NearerTwice
    <2> QED
      BY <2>3 DEF near, far
  <1> QED
    BY <1>1, <1>2, <1>3, <1>4 DEF ExploresBy

LEMMA ExploredTimesIs ==
  ASSUME NEW s \in States, IsInjective(s.picks), NEW n \in Nat,
         Len(s.picks) + n <= TotalExperts
  PROVE  ExploresBy(s, ExploredTimes(s, n), n)
  <1> DEFINE T == {k \in Nat : Len(s.picks) + k <= TotalExperts =>
                                 ExploresBy(s, ExploredTimes(s, k), k)}
  <1>1. TotalExperts \in Nat /\ Len(s.picks) \in Nat /\ s.cursor \in Experts
    BY SchedulerAssumption DEF States
  <1>2. 0 \in T
    <2>1. Len(s.picks) + 0 = Len(s.picks)
      BY <1>1
    <2>2. \A e \in Experts : Ahead(s.cursor, e) + 0 <= Ahead(s.cursor, e)
      BY <1>1, AheadIs
    <2>3. ExploresBy(s, s, 0)
      BY <2>1, <2>2 DEF ExploresBy
    <2> QED
      BY <2>3, ExploredTimesStep
  <1>3. ASSUME NEW k \in T PROVE k + 1 \in T
    <2>1. k \in Nat /\ k + 1 \in Nat
      OBVIOUS
    <2> SUFFICES ASSUME Len(s.picks) + (k + 1) <= TotalExperts
                 PROVE  ExploresBy(s, ExploredTimes(s, k+1), k+1)
      BY <2>1
    <2> DEFINE t == ExploredTimes(s, k)
    <2>2. ExploresBy(s, t, k)
      <3> DEFINE ls == Len(s.picks)
      <3>1. ls + k <= TotalExperts
        <4>1. ls \in Nat /\ ls + (k + 1) <= TotalExperts
          BY <1>1
        <4> HIDE DEF ls
        <4> QED
          BY <1>1, <2>1, <4>1
      <3> HIDE DEF ls
      <3>2. k \in T
        OBVIOUS
      <3> QED
        BY <3>1, <3>2 DEF ls
    <2>3. ExploredTimes(s, k+1) = Explored(t)
      BY <2>1, ExploredTimesStep
    <2> HIDE DEF t, T
    <2>4. t \in States /\ IsInjective(t.picks) /\ Len(t.picks) < TotalExperts
      <3>1. /\ t \in States /\ IsInjective(t.picks)
            /\ Len(t.picks) = Len(s.picks) + k
        BY <2>2 DEF ExploresBy
      <3> DEFINE ls == Len(s.picks)
      <3>2. ls \in Nat /\ ls + (k + 1) <= TotalExperts
        BY <1>1
      <3> HIDE DEF ls
      <3>3. ls + k < TotalExperts
        BY <1>1, <2>1, <3>2
      <3> QED
        BY <3>1, <3>3 DEF ls
    <2>5. ExploresBy(t, Explored(t), 1)
      BY <2>4, ExploredIs
    <2> QED
      BY <2>1, <2>2, <2>3, <2>5, ExploresCompose
  <1>4. T \subseteq Nat
    OBVIOUS
  <1> HIDE DEF T
  <1>5. T = Nat
    BY <1>2, <1>3, <1>4, SetInduction
  <1> QED
    BY <1>5 DEF T


-----------------------------------------------------------------------------
(* Ranking.  Before orders the experts in a line, so the ranks of a set of *)
(* them are the numbers below its size, each taken once.                   *)

Gainful == gains \in [Experts -> 0 .. MaxGain]

Rank(S, e) == Cardinality({d \in S : Before(d, e)})

LEMMA BeforeIsALine ==
  ASSUME Gainful, NEW d \in Experts, NEW e \in Experts, NEW f \in Experts
  PROVE  /\ ~Before(d, d)
         /\ Before(d, e) /\ Before(e, f) => Before(d, f)
         /\ Before(d, e) \/ Before(e, d) \/ d = e
  <1>1. gains[d] \in Int /\ gains[e] \in Int /\ gains[f] \in Int
    BY SchedulerAssumption DEF Gainful
  <1>2. d \in Int /\ e \in Int /\ f \in Int
    BY SchedulerAssumption DEF Experts
  <1> QED
    BY <1>1, <1>2 DEF Before

LEMMA RankGrows ==
  ASSUME Gainful, NEW S \in SUBSET Experts, NEW d \in S, NEW e \in S
  PROVE  /\ Rank(S, e) \in Nat /\ Rank(S, e) < Cardinality(S)
         /\ Cardinality(S) \in Nat
         /\ Before(d, e) => Rank(S, d) < Rank(S, e)
  <1> DEFINE Lower(x) == {y \in S : Before(y, x)}
  <1>1. IsFiniteSet(S) /\ Cardinality(S) \in Nat
    BY ExpertsFinite, FS_Subset, FS_CardinalityType
  <1>2. \A x \in S : /\ Lower(x) \in SUBSET S
                     /\ IsFiniteSet(Lower(x))
                     /\ Cardinality(Lower(x)) \in Nat
    BY <1>1, FS_Subset, FS_CardinalityType
  <1>3. Lower(e) # S
    <2>1. e \notin Lower(e)
      BY BeforeIsALine
    <2> QED
      BY <2>1
  <1>4. Cardinality(Lower(e)) <= Cardinality(S) /\ Cardinality(Lower(e)) # Cardinality(S)
    BY <1>1, <1>2, <1>3, FS_Subset
  <1>5. ASSUME Before(d, e) PROVE Rank(S, d) < Rank(S, e)
    <2>1. Lower(d) \in SUBSET Lower(e)
      <3> SUFFICES ASSUME NEW y \in S, Before(y, d) PROVE Before(y, e)
        OBVIOUS
      <3>1. y \in Experts /\ d \in Experts /\ e \in Experts
        OBVIOUS
      <3> QED
        BY <1>5, <3>1, BeforeIsALine
    <2>2. d \in Lower(e) /\ d \notin Lower(d)
      BY <1>5, BeforeIsALine
    <2>3. /\ Cardinality(Lower(d)) <= Cardinality(Lower(e))
          /\ Cardinality(Lower(d)) # Cardinality(Lower(e))
      BY <1>2, <2>1, <2>2, FS_Subset
    <2>4. Cardinality(Lower(d)) \in Nat /\ Cardinality(Lower(e)) \in Nat
      BY <1>2
    <2>5. Rank(S, d) = Cardinality(Lower(d)) /\ Rank(S, e) = Cardinality(Lower(e))
      BY DEF Rank
    <2> QED
      BY <2>3, <2>4, <2>5
  <1>6. Rank(S, e) = Cardinality(Lower(e))
    BY DEF Rank
  <1>7. Cardinality(Lower(e)) \in Nat
    BY <1>2
  <1> QED
    BY <1>1, <1>4, <1>5, <1>6, <1>7

LEMMA RanksAreTaken ==
  ASSUME Gainful, NEW S \in SUBSET Experts, NEW i \in Nat, i < Cardinality(S)
  PROVE  \E e \in S : Rank(S, e) = i
  <1> DEFINE n == Cardinality(S)
             f == [e \in S |-> Rank(S, e)]
  <1>1. IsFiniteSet(S) /\ n \in Nat
    BY ExpertsFinite, FS_Subset, FS_CardinalityType
  <1>2. IsFiniteSet(0 .. n-1) /\ Cardinality(0 .. n-1) = n
    <2>1. n - 1 \in Int /\ 0 \in Int
      BY <1>1
    <2>2. /\ IsFiniteSet(0 .. n-1)
          /\ Cardinality(0 .. n-1) = IF 0 > n-1 THEN 0 ELSE n-1 - 0 + 1
      BY <2>1, FS_Interval
    <2> QED
      BY <1>1, <2>2
  <1>3. f \in [S -> 0 .. n-1]
    <2>1. \A e \in S : Rank(S, e) \in Nat /\ Rank(S, e) < n
      BY RankGrows
    <2> HIDE DEF n
    <2>2. \A e \in S : Rank(S, e) \in 0 .. n-1
      BY <1>1, <2>1
    <2> QED
      BY <2>2
  <1>4. \A a, b \in S : f[a] = f[b] => a = b
    <2> SUFFICES ASSUME NEW a \in S, NEW b \in S, Rank(S, a) = Rank(S, b) PROVE a = b
      OBVIOUS
    <2>1. Before(a, b) \/ Before(b, a) \/ a = b
      BY BeforeIsALine
    <2>2. Rank(S, a) \in Nat /\ Rank(S, b) \in Nat
      BY RankGrows
    <2> QED
      BY <2>1, <2>2, RankGrows
  <1>5. f \in Injection(S, 0 .. n-1)
    <2>1. DOMAIN f = S
      OBVIOUS
    <2> HIDE DEF f, n
    <2> QED
      BY <1>3, <1>4, <2>1 DEF Injection, IsInjective
  <1>6. f \in Surjection(S, 0 .. n-1)
    <2> HIDE DEF f
    <2> QED
      BY <1>2, <1>5, FS_Injection
  <1>7. i \in 0 .. n-1
    BY <1>1
  <1>8. \A t \in 0 .. n-1 : \E e \in S : f[e] = t
    <2> HIDE DEF f, n
    <2> QED
      BY <1>6 DEF Surjection
  <1> QED
    BY <1>7, <1>8

(* What the ranked picks are: the first n of those left, in order. *)
Left(s) == {e \in Experts : gains[e] > 0} \ Chosen(s.picks)

FilledBy(s, t, n, count) ==
  /\ t \in States /\ IsInjective(t.picks) /\ t.cursor = s.cursor
  /\ n \in Nat /\ Len(t.picks) = Len(s.picks) + n
  /\ Len(t.picks) <= count
  /\ \A i \in 1 .. Len(s.picks) : t.picks[i] = s.picks[i]
  /\ \A i \in 1 .. n : /\ t.picks[Len(s.picks) + i] \in Left(s)
                       /\ Rank(Left(s), t.picks[Len(s.picks) + i]) = i - 1
  /\ Chosen(s.picks) \subseteq Chosen(t.picks)
  /\ Len(t.picks) < count => Left(s) \subseteq Chosen(t.picks)
  /\ \A e \in Left(s) \ Chosen(t.picks) : Rank(Left(s), e) >= n

LEMMA RankedIs ==
  ASSUME Gainful, NEW s \in States, IsInjective(s.picks), NEW count \in Nat,
         Len(s.picks) <= count
  PROVE  \E n : FilledBy(s, Ranked(s, count), n, count)
  <1> DEFINE left == Left(s)
             k == Len(s.picks)
             c == Cardinality(left)
             n == Min({count - k, c})
             r == [i \in 1 .. n |-> CHOOSE e \in left : Rank(left, e) = i-1]
             q == s.picks \o r
             t == Ranked(s, count)
  <1>1. /\ s.picks \in Seq(Experts) /\ k \in Nat /\ left \in SUBSET Experts
        /\ IsFiniteSet(left) /\ c \in Nat
    <2>1. s.picks \in Seq(Experts) /\ left \in SUBSET Experts
      BY DEF States, Left
    <2> QED
      BY <2>1, ExpertsFinite, FS_Subset, FS_CardinalityType
  <1>2. t = [s EXCEPT !.picks = q]
    BY DEF Ranked, Left, Rank
  <1>3. /\ n \in Nat /\ n <= count - k /\ n <= c
        /\ n = count - k \/ n = c
    <2> DEFINE m == count - k
    <2>1. m \in Nat
      BY <1>1
    <2> HIDE DEF m, c
    <2>2. \E x \in {m, c} : \A y \in {m, c} : x <= y
      BY <1>1, <2>1
    <2>3. /\ Min({m, c}) \in {m, c}
          /\ \A y \in {m, c} : Min({m, c}) <= y
      BY <2>2 DEF Min
    <2>4. /\ Min({m, c}) \in Nat /\ Min({m, c}) <= m /\ Min({m, c}) <= c
          /\ Min({m, c}) = m \/ Min({m, c}) = c
      BY <1>1, <2>1, <2>3
    <2> QED
      BY <2>4 DEF m
  <1> HIDE DEF n, t
  <1>4. \A i \in 1 .. n : r[i] \in left /\ Rank(left, r[i]) = i - 1
    <2> SUFFICES ASSUME NEW i \in 1 .. n
                 PROVE  \E e \in left : Rank(left, e) = i - 1
      OBVIOUS
    <2>1. i - 1 \in Nat /\ i - 1 < Cardinality(left)
      BY <1>1, <1>3
    <2> QED
      BY <1>1, <2>1, RanksAreTaken
  <1>5. /\ r \in Seq(Experts) /\ Len(r) = n
    <2>1. r \in [1 .. n -> Experts]
      BY <1>1, <1>4
    <2>2. n \in Nat
      BY <1>3
    <2> HIDE DEF r
    <2> QED
      BY <2>1, <2>2
  <1> HIDE DEF r
  <1>6. /\ q \in Seq(Experts) /\ Len(q) = k + n
        /\ \A i \in 1 .. k : q[i] = s.picks[i]
        /\ \A i \in 1 .. n : q[k + i] = r[i]
        /\ DOMAIN q = 1 .. k + n /\ DOMAIN s.picks = 1 .. k
    BY <1>1, <1>3, <1>5
  <1> HIDE DEF q
  <1>7. \A i \in 1 .. k+n : i \in 1 .. k \/ (i - k \in 1 .. n /\ i = k + (i - k))
    BY <1>1, <1>3
  <1>8. /\ \A i \in 1 .. k : q[i] \in Chosen(s.picks)
        /\ \A i \in 1 .. n : q[k + i] \notin Chosen(s.picks)
    <2>1. \A i \in 1 .. k : q[i] \in Chosen(s.picks)
      BY <1>6 DEF Chosen, Range
    <2>2. \A i \in 1 .. n : q[k + i] \notin Chosen(s.picks)
      BY <1>4, <1>6 DEF Left
    <2> QED
      BY <2>1, <2>2
  <1>9. IsInjective(q)
    <2> SUFFICES ASSUME NEW a \in 1 .. k+n, NEW b \in 1 .. k+n, q[a] = q[b]
                 PROVE  a = b
      BY <1>6 DEF IsInjective
    <2>1. CASE a \in 1 .. k /\ b \in 1 .. k
      BY <1>6, <2>1 DEF IsInjective
    <2>2. CASE a \in 1 .. k /\ b \notin 1 .. k
      BY <1>7, <1>8, <2>2
    <2>3. CASE a \notin 1 .. k /\ b \in 1 .. k
      BY <1>7, <1>8, <2>3
    <2>4. CASE a \notin 1 .. k /\ b \notin 1 .. k
      <3>1. a - k \in 1 .. n /\ b - k \in 1 .. n /\ a = k + (a - k) /\ b = k + (b - k)
        BY <1>7, <2>4
      <3>2. q[a] = r[a - k] /\ q[b] = r[b - k]
        BY <1>6, <3>1
      <3>3. (a - k) - 1 = (b - k) - 1
        BY <1>4, <3>1, <3>2
      <3> QED
        BY <1>1, <3>1, <3>3
    <2> QED
      BY <2>1, <2>2, <2>3, <2>4
  <1>10. /\ t \in States /\ t.picks = q /\ t.cursor = s.cursor
    BY <1>2, <1>6 DEF States
  <1>11. Chosen(s.picks) \subseteq Chosen(q)
    <2>1. \A i \in 1 .. k : i \in 1 .. k + n
      BY <1>1, <1>3
    <2> QED
      BY <1>6, <2>1 DEF Chosen, Range
  <1>12. \A e \in left : Rank(left, e) < n => e \in Chosen(q)
    <2> SUFFICES ASSUME NEW e \in left, Rank(left, e) < n PROVE e \in Chosen(q)
      OBVIOUS
    <2> DEFINE i == Rank(left, e) + 1
    <2>1. Rank(left, e) \in Nat
      BY <1>1, RankGrows
    <2>2. i \in 1 .. n /\ i - 1 = Rank(left, e) /\ k + i \in 1 .. k + n
      BY <1>1, <1>3, <2>1
    <2> HIDE DEF i
    <2>3. r[i] \in left /\ Rank(left, r[i]) = Rank(left, e)
      BY <1>4, <2>2
    <2>4. r[i] = e
      <3>1. r[i] \in Experts /\ e \in Experts
        BY <1>1, <2>3
      <3>2. Before(r[i], e) \/ Before(e, r[i]) \/ r[i] = e
        BY <3>1, BeforeIsALine
      <3>3. /\ Before(r[i], e) => Rank(left, r[i]) < Rank(left, e)
            /\ Before(e, r[i]) => Rank(left, e) < Rank(left, r[i])
        BY <1>1, <2>3, RankGrows
      <3> QED
        BY <2>1, <2>3, <3>2, <3>3
    <2>5. q[k + i] = e
      BY <1>6, <2>2, <2>4
    <2> QED
      BY <1>6, <2>2, <2>5 DEF Chosen, Range
  <1>13. \A e \in left \ Chosen(q) : Rank(left, e) >= n
    <2>1. \A e \in left : Rank(left, e) \in Nat
      BY <1>1, RankGrows
    <2> QED
      BY <1>3, <1>12, <2>1
  <1>14. Len(q) <= count /\ (Len(q) < count => left \subseteq Chosen(q))
    <2>1. Len(q) <= count /\ (Len(q) < count => n = c)
      BY <1>1, <1>3, <1>6
    <2>2. \A e \in left : Rank(left, e) < c
      BY <1>1, RankGrows
    <2> QED
      BY <1>12, <2>1, <2>2
  <1>15. FilledBy(s, t, n, count)
    BY <1>3, <1>4, <1>6, <1>9, <1>10, <1>11, <1>13, <1>14 DEF FilledBy
  <1> QED
    BY <1>15 DEF t


-----------------------------------------------------------------------------
(* A call: explored picks, ranked ones, and explored ones again.           *)

(* What a call answers, from the three stages its picks come in. *)
Answered(count, r, x, y, z, n) ==
  LET s == [picks |-> << >>, cursor |-> cursor]
  IN  /\ r \in Nat /\ r <= count
      /\ ExploresBy(s, x, r)
      /\ FilledBy(x, y, n, count)
      /\ ExploresBy(y, z, count - Len(y.picks))
      /\ Len(z.picks) = count
      /\ cursor' = z.cursor
      /\ answer' = [picks |-> z.picks, reserved |-> r]
      /\ history'.waited = [e \in Experts |->
                              Waited(e, z.picks, r + (count - Len(y.picks)))]

LEMMA SelectAnswers ==
  ASSUME Accounted, Gainful, cursor \in Experts,
         NEW count \in 1 .. TotalExperts, Select(count)
  PROVE  \E r, x, y, z, n : Answered(count, r, x, y, z, n)
  <1> DEFINE earned == Rounded(credit + Rounded(count * Share))
             r == Min({count, Rounded(earned + Tolerance) \div Grains})
             s == [picks |-> << >>, cursor |-> cursor]
             x == ExploredTimes(s, r)
             y == Ranked(x, count)
             f == count - Len(y.picks)
             z == ExploredTimes(y, f)
  <1>1. /\ TotalExperts \in Nat /\ count \in Nat /\ count <= TotalExperts
        /\ count <= MostPicks
    BY SchedulerAssumption DEF Select
  <1>2. r \in Nat /\ r <= count
    <2>1. Settled(credit, count, r, CreditLeft(earned, r))
      BY <1>1, CallSettles DEF Accounted, Counted
    <2> HIDE DEF r
    <2> QED
      BY <2>1 DEF Settled
  <1>3. /\ cursor' = z.cursor
        /\ answer' = [picks |-> z.picks, reserved |-> r]
        /\ history'.waited = [e \in Experts |-> Waited(e, z.picks, r + f)]
    BY DEF Select
  <1> HIDE DEF r
  <1>4. s \in States /\ IsInjective(s.picks) /\ Len(s.picks) = 0
    BY DEF States, IsInjective
  <1>5. ExploresBy(s, x, r)
    <2>1. Len(s.picks) + r <= TotalExperts
      BY <1>1, <1>2, <1>4
    <2> HIDE DEF s
    <2> QED
      BY <1>2, <1>4, <2>1, ExploredTimesIs
  <1>6. x \in States /\ IsInjective(x.picks) /\ Len(x.picks) = r
    <2>1. Len(x.picks) = Len(s.picks) + r
      BY <1>5 DEF ExploresBy
    <2>2. x \in States /\ IsInjective(x.picks)
      BY <1>5 DEF ExploresBy
    <2> HIDE DEF x, s
    <2>3. Len(x.picks) = r
      BY <1>2, <1>4, <2>1
    <2> QED
      BY <2>2, <2>3
  <1> HIDE DEF x, s
  <1>7. PICK n : FilledBy(x, y, n, count)
    BY <1>1, <1>2, <1>6, RankedIs
  <1> HIDE DEF y
  <1>8. /\ y \in States /\ IsInjective(y.picks) /\ Len(y.picks) \in Nat
        /\ Len(y.picks) <= count
    BY <1>7 DEF FilledBy, States
  <1>9. f \in Nat /\ Len(y.picks) + f = count
    BY <1>1, <1>8
  <1> HIDE DEF f
  <1>10. ExploresBy(y, z, f)
    BY <1>1, <1>8, <1>9, ExploredTimesIs
  <1>11. Len(z.picks) = count
    BY <1>9, <1>10 DEF ExploresBy
  <1> HIDE DEF z
  <1>12. Answered(count, r, x, y, z, n)
    BY <1>2, <1>3, <1>5, <1>7, <1>10, <1>11 DEF Answered, s, f
  <1> QED
    BY <1>12

(* A call's answer: as many experts as were asked for, each once. *)
LEMMA AnswerTypes ==
  ASSUME NEW count \in 1 .. TotalExperts, NEW r, NEW x, NEW y, NEW z, NEW n,
         Answered(count, r, x, y, z, n)
  PROVE  /\ answer'.picks \in Seq(Experts) /\ IsInjective(answer'.picks)
         /\ Len(answer'.picks) = count /\ cursor' \in Experts
  BY DEF Answered, ExploresBy, States

(* Who is left out waits for as many exploring picks as the cursor came    *)
(* nearer by.                                                              *)
Waiting(h, c) ==
  \A e \in Experts : h.waited[e] \in Nat /\ h.waited[e] + Ahead(c, e) < TotalExperts

LEMMA WaitedOnce ==
  ASSUME NEW w \in Nat, NEW a0 \in Nat, NEW a1 \in Nat, NEW a2 \in Nat, NEW a3 \in Nat,
         NEW t \in Nat, NEW r \in Nat, NEW f \in Nat,
         w + a0 < t, a1 + r <= a0, a2 = a1, a3 + f <= a2
  PROVE  w + (r + f) \in Nat /\ (w + (r + f)) + a3 < t
  OBVIOUS

LEMMA SelectWaiting ==
  ASSUME Waiting(history, cursor), cursor \in Experts,
         NEW count \in 1 .. TotalExperts, NEW r, NEW x, NEW y, NEW z, NEW n,
         Answered(count, r, x, y, z, n)
  PROVE  Waiting(history, cursor)'
  <1> DEFINE s == [picks |-> << >>, cursor |-> cursor]
             f == count - Len(y.picks)
  <1>1. TotalExperts \in Nat /\ count \in Nat
    BY SchedulerAssumption
  <1>2. /\ r \in Nat /\ ExploresBy(s, x, r) /\ FilledBy(x, y, n, count)
        /\ ExploresBy(y, z, f)
        /\ cursor' = z.cursor
        /\ history'.waited = [e \in Experts |-> Waited(e, z.picks, r + f)]
    BY DEF Answered
  <1>3. f \in Nat
    <2>1. Len(y.picks) \in Nat /\ Len(y.picks) <= count
      BY <1>2 DEF FilledBy, States
    <2> QED
      BY <1>1, <2>1
  <1>4. /\ x.cursor \in Experts /\ y.cursor = x.cursor /\ z.cursor \in Experts
        /\ s.cursor = cursor
        /\ Chosen(x.picks) \subseteq Chosen(y.picks)
        /\ Chosen(y.picks) \subseteq Chosen(z.picks)
    BY <1>2 DEF ExploresBy, FilledBy, States
  <1>5. /\ \A e \in Experts \ Chosen(x.picks) : Ahead(x.cursor, e) + r <= Ahead(cursor, e)
        /\ \A e \in Experts \ Chosen(z.picks) : Ahead(z.cursor, e) + f <= Ahead(y.cursor, e)
    BY <1>2, <1>4 DEF ExploresBy
  <1>6. \A c, e \in Experts : Ahead(c, e) \in Nat /\ Ahead(c, e) < TotalExperts
    <2>1. \A i \in 0 .. TotalExperts - 1 : i \in Nat /\ i < TotalExperts
      BY <1>1
    <2> QED
      BY <2>1, AheadIs
  <1> HIDE DEF f, s
  <1> SUFFICES ASSUME NEW e \in Experts
               PROVE  /\ history'.waited[e] \in Nat
                      /\ history'.waited[e] + Ahead(z.cursor, e) < TotalExperts
    BY <1>2 DEF Waiting, Ahead
  <1>7. history'.waited[e] = Waited(e, z.picks, r + f)
    BY <1>2
  <1>8. CASE e \in Chosen(z.picks)
    <2>1. history'.waited[e] = 0
      BY <1>7, <1>8 DEF Waited
    <2>2. Ahead(z.cursor, e) \in Nat /\ Ahead(z.cursor, e) < TotalExperts
      BY <1>4, <1>6
    <2> HIDE DEF Ahead
    <2> QED
      BY <2>1, <2>2
  <1>9. CASE e \notin Chosen(z.picks)
    <2>1. history'.waited[e] = history.waited[e] + (r + f)
      BY <1>7, <1>9 DEF Waited
    <2>2. /\ Ahead(x.cursor, e) + r <= Ahead(cursor, e)
          /\ Ahead(z.cursor, e) + f <= Ahead(y.cursor, e)
          /\ Ahead(y.cursor, e) = Ahead(x.cursor, e)
      BY <1>4, <1>5, <1>9
    <2>3. /\ Ahead(x.cursor, e) \in Nat /\ Ahead(y.cursor, e) \in Nat
          /\ Ahead(z.cursor, e) \in Nat /\ Ahead(cursor, e) \in Nat
      BY <1>4, <1>6
    <2>4. history.waited[e] \in Nat /\ history.waited[e] + Ahead(cursor, e) < TotalExperts
      BY DEF Waiting
    <2> HIDE DEF Ahead
    <2>5. /\ history.waited[e] + (r + f) \in Nat
          /\ (history.waited[e] + (r + f)) + Ahead(z.cursor, e) < TotalExperts
      BY <1>1, <1>2, <1>3, <2>2, <2>3, <2>4, WaitedOnce
    <2> QED
      BY <2>1, <2>5
  <1> QED
    BY <1>8, <1>9


(* Who is left out of a call comes after every ranked or filling pick. *)
LEMMA SelectBest ==
  ASSUME Gainful, NEW count \in 1 .. TotalExperts,
         NEW r, NEW x, NEW y, NEW z, NEW n, Answered(count, r, x, y, z, n),
         NEW i \in answer'.reserved + 1 .. Len(answer'.picks),
         NEW e \in Experts \ Chosen(answer'.picks), gains[e] > 0
  PROVE  Before(answer'.picks[i], e)
  <1> DEFINE s == [picks |-> << >>, cursor |-> cursor]
             left == Left(x)
             j == i - r
  <1>1. TotalExperts \in Nat /\ count \in Nat
    BY SchedulerAssumption
  <1>2. /\ r \in Nat /\ ExploresBy(s, x, r) /\ FilledBy(x, y, n, count)
        /\ ExploresBy(y, z, count - Len(y.picks)) /\ Len(z.picks) = count
        /\ answer'.picks = z.picks /\ answer'.reserved = r
    BY DEF Answered
  <1>3. /\ x \in States /\ y \in States /\ z \in States
        /\ Chosen(x.picks) \subseteq Chosen(y.picks)
        /\ Chosen(y.picks) \subseteq Chosen(z.picks)
    BY <1>2 DEF ExploresBy, FilledBy
  <1>4. Len(x.picks) = r
    <2>1. Len(x.picks) = Len(s.picks) + r /\ Len(s.picks) = 0
      BY <1>2 DEF ExploresBy
    <2> HIDE DEF s
    <2> QED
      BY <1>2, <2>1
  <1>5. e \in left /\ left \subseteq Experts /\ e \notin Chosen(y.picks)
    BY <1>2, <1>3 DEF Left
  <1>6. Len(y.picks) = count /\ Len(y.picks) = r + n /\ n \in Nat
    <2>1. /\ Len(y.picks) = Len(x.picks) + n /\ Len(y.picks) <= count /\ n \in Nat
          /\ Len(y.picks) < count => left \subseteq Chosen(y.picks)
      BY <1>2 DEF FilledBy
    <2>2. Len(y.picks) \in Nat
      BY <1>3 DEF States
    <2>3. Len(y.picks) = count
      BY <1>1, <1>5, <2>1, <2>2
    <2> QED
      BY <1>4, <2>1, <2>3
  <1>7. i \in r + 1 .. count
    BY <1>2
  <1>8. j \in 1 .. n /\ i = r + j /\ i \in 1 .. Len(y.picks)
    <2>1. count = r + n
      BY <1>6
    <2>2. \A k \in r + 1 .. r + n : k - r \in 1 .. n /\ k = r + (k - r) /\ k \in 1 .. r + n
      BY <1>2, <1>6
    <2> QED
      BY <1>6, <1>7, <2>1, <2>2
  <1> HIDE DEF j
  <1>9. z.picks[i] = y.picks[i]
    BY <1>2, <1>8 DEF ExploresBy
  <1>10. y.picks[i] \in left /\ Rank(left, y.picks[i]) = j - 1
    <2>1. \A k \in 1 .. n : /\ y.picks[Len(x.picks) + k] \in left
                            /\ Rank(left, y.picks[Len(x.picks) + k]) = k - 1
      BY <1>2 DEF FilledBy
    <2> QED
      BY <1>4, <1>8, <2>1
  <1>11. Rank(left, e) >= n
    BY <1>2, <1>5 DEF FilledBy
  <1> DEFINE p == y.picks[i]
  <1>12. /\ p \in left /\ Rank(left, p) = j - 1
         /\ Rank(left, e) \in Nat /\ Rank(left, p) \in Nat
         /\ Before(e, p) => Rank(left, e) < Rank(left, p)
    BY <1>5, <1>10, RankGrows
  <1>13. Before(p, e) \/ Before(e, p) \/ p = e
    BY <1>5, <1>10, BeforeIsALine
  <1> HIDE DEF p, left
  <1>14. Rank(left, p) < Rank(left, e)
    BY <1>6, <1>8, <1>11, <1>12
  <1>15. Before(p, e)
    BY <1>12, <1>13, <1>14
  <1> QED
    BY <1>2, <1>9, <1>15 DEF p

-----------------------------------------------------------------------------
(* The invariant: the account, the types and the waits. *)
SInv ==
  /\ Accounted
  /\ Gainful
  /\ cursor \in Experts
  /\ answer.picks \in Seq(Experts) /\ IsInjective(answer.picks)
  /\ Waiting(history, cursor)

LEMMA InitSInv == Init => SInv
  <1> SUFFICES ASSUME Init PROVE SInv
    OBVIOUS
  <1>1. MaxGain \in Nat /\ TotalExperts \in Nat \ {0}
    BY SchedulerAssumption
  <1>2. Accounted
    BY InitAccounted
  <1>3. Gainful
    BY <1>1 DEF Init, Gainful
  <1>4. cursor \in Experts
    BY <1>1 DEF Init, Experts
  <1>5. answer.picks \in Seq(Experts) /\ IsInjective(answer.picks)
    BY DEF Init, IsInjective
  <1>6. Waiting(history, cursor)
    <2> SUFFICES ASSUME NEW e \in Experts
                 PROVE  /\ history.waited[e] \in Nat
                        /\ history.waited[e] + Ahead(cursor, e) < TotalExperts
      BY DEF Waiting
    <2>1. history.waited[e] = 0
      BY DEF Init
    <2>2. \A i \in 0 .. TotalExperts - 1 : 0 + i < TotalExperts
      BY <1>1
    <2> QED
      BY <1>4, <2>1, <2>2, AheadIs
  <1> QED
    BY <1>2, <1>3, <1>4, <1>5, <1>6 DEF SInv

LEMMA StepSInv == SInv /\ [Next]_vars => SInv'
  <1> SUFFICES ASSUME SInv, [Next]_vars PROVE SInv'
    OBVIOUS
  <1>1. ASSUME NEW count \in 1 .. TotalExperts, Select(count) PROVE SInv'
    <2>1. Accounted'
      BY <1>1, SelectKeeps DEF SInv
    <2>2. Gainful'
      BY <1>1 DEF Select, SInv, Gainful
    <2>3. PICK r, x, y, z, n : Answered(count, r, x, y, z, n)
      BY <1>1, SelectAnswers DEF SInv
    <2>4. /\ answer'.picks \in Seq(Experts) /\ IsInjective(answer'.picks)
          /\ cursor' \in Experts
      BY <2>3, AnswerTypes
    <2>5. Waiting(history, cursor)'
      BY <2>3, SelectWaiting DEF SInv
    <2> QED
      BY <2>1, <2>2, <2>4, <2>5 DEF SInv
  <1>2. ASSUME NEW e \in Experts, NEW gain \in 0 .. MaxGain, Observe(e, gain) PROVE SInv'
    <2>1. Accounted'
      BY <1>2, AccountKept DEF Observe, SInv
    <2>2. Gainful'
      BY <1>2 DEF Observe, SInv, Gainful
    <2>3. Waiting(history, cursor)'
      BY <1>2 DEF Observe, SInv, Waiting, Ahead
    <2> QED
      BY <1>2, <2>1, <2>2, <2>3 DEF Observe, SInv
  <1>3. CASE UNCHANGED vars
    <2>1. Accounted'
      BY <1>3, AccountKept DEF vars, SInv
    <2>2. Waiting(history, cursor)'
      BY <1>3 DEF vars, SInv, Waiting, Ahead
    <2> QED
      BY <1>3, <2>1, <2>2 DEF vars, SInv, Gainful
  <1> QED
    BY <1>1, <1>2, <1>3 DEF Next

(* The scheduler keeps its types, whatever is asked and observed: the      *)
(* credit never passes one pick, and no call picks an expert twice.        *)
THEOREM TypeCorrect == Spec => []TypeOK
  <1>1. SInv => TypeOK
    <2> SUFFICES ASSUME SInv PROVE TypeOK
      OBVIOUS
    <2>1. credit \in 0 .. Grains
      <3>1. Grains \in Nat /\ credit \in Nat /\ credit <= Grains
        BY SchedulerAssumption DEF SInv, Accounted, Counted
      <3> QED
        BY <3>1
    <2> QED
      BY <2>1 DEF SInv, Gainful, TypeOK
  <1> QED
    BY <1>1, InitSInv, StepSInv, PTL DEF Spec

(* No expert waits for as many exploring picks as there are experts, for   *)
(* any sizes of request: an expert that has waited w of them is less than  *)
(* the number of experts less w ahead of the cursor.                       *)
THEOREM EveryoneIsReached == Spec => []NobodyStarves
  <1>1. SInv => NobodyStarves
    <2> SUFFICES ASSUME SInv, NEW e \in Experts PROVE history.waited[e] < TotalExperts
      BY DEF NobodyStarves
    <2>1. /\ history.waited[e] \in Nat /\ cursor \in Experts
          /\ history.waited[e] + Ahead(cursor, e) < TotalExperts
      BY DEF SInv, Waiting
    <2>2. Ahead(cursor, e) \in 0 .. TotalExperts - 1 /\ TotalExperts \in Nat
      BY <2>1, AheadIs, SchedulerAssumption
    <2> DEFINE a == Ahead(cursor, e)
               w == history.waited[e]
    <2>3. a \in Nat /\ w \in Nat /\ w + a < TotalExperts /\ TotalExperts \in Nat
      BY <2>1, <2>2
    <2> HIDE DEF a, w
    <2>4. w < TotalExperts
      BY <2>3
    <2> QED
      BY <2>4 DEF w
  <1> QED
    BY <1>1, InitSInv, StepSInv, PTL DEF Spec

(* Every call gives the picks it does not reserve to the best: no expert   *)
(* with an observed gain is left out for one with less.                    *)
THEOREM BestComeFirst == Spec => BestFirst
  <1> DEFINE Best ==
        \A count \in 1 .. TotalExperts : Select(count) =>
          \A i \in answer'.reserved + 1 .. Len(answer'.picks) :
            \A e \in Experts \ Chosen(answer'.picks) :
              gains[e] > 0 => Before(answer'.picks[i], e)
  <1>1. SInv => Best
    <2> SUFFICES ASSUME SInv, NEW count \in 1 .. TotalExperts, Select(count),
                        NEW i \in answer'.reserved + 1 .. Len(answer'.picks),
                        NEW e \in Experts \ Chosen(answer'.picks), gains[e] > 0
                 PROVE  Before(answer'.picks[i], e)
      OBVIOUS
    <2>1. PICK r, x, y, z, n : Answered(count, r, x, y, z, n)
      BY SelectAnswers DEF SInv
    <2> QED
      BY <2>1, SelectBest DEF SInv
  <1> HIDE DEF Best
  <1>2. SInv /\ [Next]_vars => [Best]_vars
    BY <1>1
  <1>3. Spec => [][Best]_vars
    BY <1>2, InitSInv, StepSInv, PTL DEF Spec
  <1> QED
    BY <1>3 DEF BestFirst, Best
=============================================================================
