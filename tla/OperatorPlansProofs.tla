------------------------- MODULE OperatorPlansProofs -------------------------
(***************************************************************************)
(* Theorems about the operator plans, for every width, extent, stride and  *)
(* limit of the model's constants.                                         *)
(*                                                                         *)
(* Geometry: the order-and-reach test of the planners makes the addresses  *)
(* of a view distinct, the capacity test keeps them in storage, and the    *)
(* folded grid starts every unit within the limit of an axis.              *)
(*                                                                         *)
(* Plans as wholes: whatever has been asked before, the plan in force is   *)
(* the answer to the request in force; its passes declare what they touch, *)
(* and their kernels are built; the radix sort leaves rows in order; a     *)
(* pass finds in the scratch what an earlier pass of its own call left     *)
(* there; the splits of a product sum different terms; and the accesses of *)
(* thirteen families stay in the storage they name.                        *)
(*                                                                         *)
(* A property of plans is proved family by family.  Each family has a      *)
(* lemma that its own operators, admitted or refused, have the property,   *)
(* and AnswerTo is the case of the request's operation that joins them.    *)
(***************************************************************************)
EXTENDS OperatorPlans, FiniteSetTheorems, WellFoundedInduction, TLAPS

Shapes == [Dims -> Nat \ {0}]
Strides == [Dims -> Nat]
CoordinatesOf(e) == {c \in [Dims -> Nat] : \A k \in Dims : c[k] < e[k]}

----------------------------------------
(* Arithmetic.                                                             *)

LEMMA ProductMonotone ==
  ASSUME NEW x \in Nat, NEW y \in Nat, NEW s \in Nat, x <= y PROVE x * s <= y * s
  <1> DEFINE d == y - x
  <1>1. d \in Nat /\ y = x + d  OBVIOUS
  <1>2. d * s \in Nat /\ y * s = x * s + d * s  BY <1>1
  <1> QED BY <1>2

LEMMA ProductNat ==
  ASSUME NEW x \in Nat, NEW s \in Nat PROVE x * s \in Nat
  OBVIOUS

LEMMA Distributes ==
  ASSUME NEW x \in Nat, NEW y \in Nat, NEW s \in Nat PROVE (x + y) * s = x * s + y * s
  OBVIOUS

LEMMA Associates ==
  ASSUME NEW x \in Nat, NEW y \in Nat, NEW z \in Nat PROVE (x * y) * z = x * (y * z)
  OBVIOUS

(* The quotient and the remainder of a division. *)
LEMMA Division ==
  ASSUME NEW a \in Nat, NEW b \in Nat \ {0}
  PROVE  /\ a \div b \in Nat /\ a % b \in Nat
         /\ a % b < b
         /\ a = (a \div b) * b + (a % b)
  <1>1. a \div b \in Nat  OBVIOUS
  <1>2. a % b \in 0 .. b - 1  OBVIOUS
  <1>3. a = b * (a \div b) + (a % b)  OBVIOUS
  <1> QED BY <1>1, <1>2, <1>3

LEMMA QuotientUnique ==
  ASSUME NEW b \in Nat \ {0}, NEW p \in Nat, NEW q \in Nat,
         NEW r \in Nat, NEW t \in Nat, r < b, t < b, p * b + r = q * b + t
  PROVE  p = q /\ r = t
  <1>1. ~(p < q)
    <2>1. SUFFICES ASSUME p < q PROVE FALSE  OBVIOUS
    <2>2. (p + 1) * b <= q * b  BY <2>1, ProductMonotone
    <2>3. (p + 1) * b = p * b + b  OBVIOUS
    <2> QED BY <2>2, <2>3
  <1>2. ~(q < p)
    <2>1. SUFFICES ASSUME q < p PROVE FALSE  OBVIOUS
    <2>2. (q + 1) * b <= p * b  BY <2>1, ProductMonotone
    <2>3. (q + 1) * b = q * b + b  OBVIOUS
    <2> QED BY <2>2, <2>3
  <1> QED BY <1>1, <1>2

(* Dividing twice is dividing by the product. *)
LEMMA DividedTwice ==
  ASSUME NEW l \in Nat, NEW a \in Nat \ {0}, NEW b \in Nat \ {0}
  PROVE  l \div (a * b) = (l \div b) \div a
  <1> DEFINE
      q == l \div b
      p == q \div a
      r == (q % a) * b + (l % b)
  <1>1. /\ q \in Nat /\ l % b \in Nat /\ l % b < b
        /\ l = q * b + (l % b)
    BY Division
  <1>2. /\ p \in Nat /\ q % a \in Nat /\ q % a < a
        /\ q = p * a + (q % a)
    BY <1>1, Division
  <1> HIDE DEF q, p
  <1>3. r \in Nat /\ r < a * b
    <2>1. ((q % a) + 1) * b <= a * b  BY <1>2, ProductMonotone
    <2>2. ((q % a) + 1) * b = (q % a) * b + b  BY <1>2
    <2>3. (q % a) * b \in Nat /\ a * b \in Nat  BY <1>2
    <2> QED BY <1>1, <2>1, <2>2, <2>3
  <1>4. l = p * (a * b) + r
    <2>1. p * a \in Nat /\ q * b = (p * a) * b + (q % a) * b  BY <1>2, Distributes
    <2>2. (p * a) * b = p * (a * b)  BY <1>2, Associates
    <2>3. p * (a * b) \in Nat /\ (q % a) * b \in Nat /\ (q % a) * b + (l % b) = r  BY <1>1, <1>2
    <2> HIDE DEF r
    <2> QED BY <1>1, <2>1, <2>2, <2>3
  <1> DEFINE n == a * b
             p2 == l \div n
  <1>5. n \in Nat \ {0}  OBVIOUS
  <1>6. p2 \in Nat /\ l % n \in Nat /\ l % n < n /\ l = p2 * n + (l % n)  BY <1>5, Division
  <1> HIDE DEF n, r, p2
  <1>7. p2 = p  BY <1>2, <1>3, <1>4, <1>5, <1>6, QuotientUnique DEF n
  <1> QED BY <1>7 DEF p2, n, p, q

----------------------------------------
(* Addresses.                                                              *)

(* The order of two dimensions is strict, total and transitive. *)
LEMMA BeforeOrders ==
  ASSUME NEW strides \in Strides, NEW e \in Shapes
  PROVE  /\ \A j, k \in Dims : j # k => Before(strides, e, j, k) \/ Before(strides, e, k, j)
         /\ \A i, j, k \in Dims :
              Before(strides, e, i, j) /\ Before(strides, e, j, k) => Before(strides, e, i, k)
         /\ \A k \in Dims : ~Before(strides, e, k, k)
  <1> USE DEF Dims, Strides, Shapes
  <1>1. \A k \in Dims : strides[k] \in Nat /\ e[k] \in Nat /\ k \in Nat
    OBVIOUS
  <1>2. \A j, k \in Dims :
          Before(strides, e, j, k) <=>
            \/ strides[j] < strides[k]
            \/ strides[j] = strides[k] /\ e[j] < e[k]
            \/ strides[j] = strides[k] /\ e[j] = e[k] /\ j < k
    BY <1>1 DEF Before
  <1> QED BY <1>1, <1>2

(* A set of dimensions has a last one. *)
LEMMA LastOfDims ==
  ASSUME NEW strides \in Strides, NEW e \in Shapes, NEW D \in SUBSET Dims, D # {}
  PROVE  \E k \in D : \A j \in D \ {k} : Before(strides, e, j, k)
  <1> DEFINE Less(j, k) == Before(strides, e, j, k)
             LastIn(S) == \E k \in S : \A j \in S \ {k} : Less(j, k)
  <1>1. \A j, k \in Dims : j # k => Less(j, k) \/ Less(k, j)  BY BeforeOrders
  <1>2. \A i, j, k \in Dims : Less(i, j) /\ Less(j, k) => Less(i, k)  BY BeforeOrders
  <1> HIDE DEF Less
  <1>3. ASSUME NEW S \in SUBSET Dims, NEW k \in Dims, S = {} \/ LastIn(S) PROVE LastIn(S \cup {k})
    <2>1. CASE S = {}  BY <2>1
    <2>2. CASE k \in S  BY <1>3, <2>2
    <2>3. CASE S # {} /\ k \notin S
      <3>1. PICK last \in S : \A j \in S \ {last} : Less(j, last)  BY <1>3, <2>3
      <3>2. CASE Less(last, k)
        <4>1. \A j \in S : Less(j, k)  BY <1>2, <3>1, <3>2
        <4> QED BY <4>1
      <3>3. CASE Less(k, last)  BY <3>1, <3>3
      <3> QED BY <1>1, <2>3, <3>2, <3>3
    <2> QED BY <2>1, <2>2, <2>3
  <1> DEFINE
      D1 == D \cap {1}
      D2 == D \cap {1, 2}
      D3 == D \cap {1, 2, 3}
  <1>4. D1 = {} \/ LastIn(D1)  OBVIOUS
  <1>5. Dims = {1, 2, 3, 4} /\ D1 \subseteq Dims /\ D2 \subseteq Dims /\ D3 \subseteq Dims  BY DEF Dims
  <1>6. /\ D2 = D1 \/ D2 = D1 \cup {2}
        /\ D3 = D2 \/ D3 = D2 \cup {3}
        /\ D = D3 \/ D = D3 \cup {4}
    BY <1>5
  <1> HIDE DEF D1, D2, D3, LastIn
  <1>7. D2 = {} \/ LastIn(D2)  BY <1>3, <1>4, <1>5, <1>6
  <1>8. D3 = {} \/ LastIn(D3)  BY <1>3, <1>5, <1>6, <1>7
  <1>9. LastIn(D)  BY <1>3, <1>5, <1>6, <1>8
  <1> QED BY <1>9 DEF Less, LastIn

(* One sum is beyond another when one term is by more than all the others  *)
(* together fall short.                                                    *)
LEMMA SumBeyond ==
  ASSUME NEW X \in [Dims -> Nat], NEW Y \in [Dims -> Nat], NEW R \in [Dims -> Nat],
         NEW s \in Nat, NEW k \in Dims,
         Y[k] + s <= X[k], R[k] = 0, s >= 1 + R[1] + R[2] + R[3] + R[4],
         \A j \in Dims \ {k} : X[j] + R[j] >= Y[j]
  PROVE  X[1] + X[2] + X[3] + X[4] > Y[1] + Y[2] + Y[3] + Y[4]
  <1>1. Dims = {1, 2, 3, 4}  BY DEF Dims
  <1>2. \A j \in Dims : X[j] \in Nat /\ Y[j] \in Nat /\ R[j] \in Nat
    OBVIOUS
  <1> QED BY <1>1, <1>2

LEMMA DotNat ==
  ASSUME NEW strides \in Strides, NEW e \in Shapes, NEW x \in CoordinatesOf(e)
  PROVE  Dot(x, strides) \in Nat
  <1>1. Dims = {1, 2, 3, 4}  BY DEF Dims
  <1>2. \A k \in Dims : x[k] * strides[k] \in Nat  BY ProductNat DEF CoordinatesOf, Strides
  <1> QED BY <1>1, <1>2 DEF Dot

(* The last dimension two coordinates differ in decides which address is   *)
(* the greater.                                                            *)
LEMMA LastDecides ==
  ASSUME NEW strides \in Strides, NEW e \in Shapes, AddressesAreDistinct(strides, e),
         NEW x \in CoordinatesOf(e), NEW y \in CoordinatesOf(e), NEW k \in Dims, y[k] < x[k],
         \A j \in Dims \ {k} : x[j] # y[j] => Before(strides, e, j, k)
  PROVE  Dot(x, strides) > Dot(y, strides)
  <1> DEFINE
      X == [j \in Dims |-> x[j] * strides[j]]
      Y == [j \in Dims |-> y[j] * strides[j]]
      below == {j \in Dims : Before(strides, e, j, k)}
      R == [j \in Dims |-> IF j \in below THEN (e[j] - 1) * strides[j] ELSE 0]
  <1>1. \A j \in Dims : /\ strides[j] \in Nat /\ e[j] \in Nat \ {0} /\ x[j] \in Nat /\ y[j] \in Nat
                        /\ x[j] <= e[j] - 1 /\ y[j] <= e[j] - 1 /\ e[j] - 1 \in Nat
    BY DEF Strides, Shapes, CoordinatesOf
  <1>2. X \in [Dims -> Nat] /\ Y \in [Dims -> Nat] /\ R \in [Dims -> Nat]  BY <1>1, ProductNat
  <1>3. R[k] = 0  BY BeforeOrders
  <1>4. Y[k] + strides[k] <= X[k]
    <2>1. (y[k] + 1) * strides[k] <= x[k] * strides[k]  BY <1>1, ProductMonotone
    <2>2. (y[k] + 1) * strides[k] = y[k] * strides[k] + strides[k]  BY <1>1
    <2> QED BY <2>1, <2>2
  <1>5. ASSUME NEW j \in Dims \ {k} PROVE X[j] + R[j] >= Y[j]
    <2>1. X[j] \in Nat /\ Y[j] \in Nat /\ R[j] \in Nat  BY <1>2
    <2>2. CASE x[j] = y[j]  BY <2>1, <2>2
    <2>3. CASE j \in below
      <3>1. y[j] * strides[j] <= (e[j] - 1) * strides[j]  BY <1>1, ProductMonotone
      <3>2. R[j] = (e[j] - 1) * strides[j] /\ Y[j] = y[j] * strides[j]  BY <2>3
      <3> HIDE DEF X, Y, R
      <3> QED BY <2>1, <3>1, <3>2
    <2> QED BY <2>2, <2>3
  <1>6. strides[k] >= 1 + R[1] + R[2] + R[3] + R[4]
    <2>1. strides[k] >= Reach(strides, e, below)  BY <1>1 DEF AddressesAreDistinct
    <2>2. \A j \in Dims : (IF j \in below THEN e[j] - 1 ELSE 0) * strides[j] = R[j]  BY <1>1
    <2>3. Dims = {1, 2, 3, 4}  BY DEF Dims
    <2>4. Reach(strides, e, below) = 1 + (R[1] + R[2] + R[3] + R[4])  BY <2>2, <2>3 DEF Reach, Dot
    <2>5. R[1] \in Nat /\ R[2] \in Nat /\ R[3] \in Nat /\ R[4] \in Nat /\ strides[k] \in Nat
      BY <1>1, <1>2, <2>3
    <2> HIDE DEF R
    <2> QED BY <2>1, <2>4, <2>5
  <1>7. /\ Dot(x, strides) = X[1] + X[2] + X[3] + X[4]
        /\ Dot(y, strides) = Y[1] + Y[2] + Y[3] + Y[4]
    BY DEF Dot, Dims
  <1> HIDE DEF X, Y, R
  <1>8. strides[k] \in Nat  BY <1>1
  <1> QED BY <1>2, <1>3, <1>4, <1>5, <1>6, <1>7, <1>8, SumBeyond

(* addresses_are_distinct is sound (pointwise, index, intwise and convert  *)
(* plans rest their exclusive writes on it): a view that passes it has no  *)
(* two coordinates at one address.                                         *)
THEOREM DistinctAddresses ==
  ASSUME NEW strides \in Strides, NEW e \in Shapes, AddressesAreDistinct(strides, e),
         NEW x \in CoordinatesOf(e), NEW y \in CoordinatesOf(e), x # y
  PROVE  Dot(x, strides) # Dot(y, strides)
  <1> DEFINE D == {k \in Dims : x[k] # y[k]}
  <1>1. D # {}  BY DEF CoordinatesOf
  <1>2. PICK k \in D : \A j \in D \ {k} : Before(strides, e, j, k)  BY <1>1, LastOfDims
  <1>3. x[k] \in Nat /\ y[k] \in Nat  BY DEF CoordinatesOf
  <1>4. Dot(x, strides) \in Nat /\ Dot(y, strides) \in Nat  BY DotNat
  <1>5. CASE y[k] < x[k]
    <2>1. Dot(x, strides) > Dot(y, strides)  BY <1>2, <1>5, LastDecides
    <2> QED BY <1>4, <2>1
  <1>6. CASE x[k] < y[k]
    <2>1. Dot(y, strides) > Dot(x, strides)  BY <1>2, <1>6, LastDecides
    <2> QED BY <1>4, <2>1
  <1> QED BY <1>2, <1>3, <1>5, <1>6
----------------------------------------
(* Coordinates.                                                            *)

(* The coordinates of an element say which element it is: Horner's rule    *)
(* gives it back, and only the first coordinate can be out of its extent.  *)
LEMMA RowMajorOrder ==
  ASSUME NEW e \in Shapes, NEW l \in Nat, NEW c, c = Coordinates(l, e)
  PROVE  /\ c \in [Dims -> Nat]
         /\ c[2] < e[2] /\ c[3] < e[3] /\ c[4] < e[4]
         /\ l = ((c[1] * e[2] + c[2]) * e[3] + c[3]) * e[4] + c[4]
  <1> DEFINE
      e2 == e[2]
      e3 == e[3]
      e4 == e[4]
      q3 == l \div e4
      q2 == l \div (e3 * e4)
      q1 == l \div (e2 * e3 * e4)
  <1>1. e2 \in Nat \ {0} /\ e3 \in Nat \ {0} /\ e4 \in Nat \ {0}  BY DEF Shapes, Dims
  <1>2. c = <<q1, q2 % e2, q3 % e3, l % e4>>  BY DEF Coordinates
  <1> HIDE DEF e2, e3, e4
  <1>3. q3 \in Nat /\ l % e4 \in Nat /\ (l % e4) < e4 /\ l = q3 * e4 + (l % e4)  BY <1>1, Division
  <1>4. q2 = q3 \div e3  BY <1>1, DividedTwice
  <1>5. q1 = q2 \div e2
    <2>1. e3 * e4 \in Nat \ {0}  BY <1>1
    <2>2. e2 * e3 * e4 = e2 * (e3 * e4)  BY <1>1, Associates
    <2> DEFINE n == e3 * e4
    <2> HIDE DEF n
    <2>3. l \div (e2 * n) = (l \div n) \div e2  BY <1>1, <2>1, DividedTwice DEF n
    <2> QED BY <2>2, <2>3 DEF n
  <1> HIDE DEF q1, q2, q3
  <1>6. q2 \in Nat /\ q3 % e3 \in Nat /\ (q3 % e3) < e3 /\ q3 = q2 * e3 + (q3 % e3)
    BY <1>1, <1>3, <1>4, Division
  <1>7. q1 \in Nat /\ q2 % e2 \in Nat /\ (q2 % e2) < e2 /\ q2 = q1 * e2 + (q2 % e2)
    BY <1>1, <1>5, <1>6, Division
  <1>8. c[1] = q1 /\ c[2] = q2 % e2 /\ c[3] = q3 % e3 /\ c[4] = l % e4  BY <1>2
  <1>9. c \in [Dims -> Nat]  BY <1>2, <1>3, <1>6, <1>7 DEF Dims
  <1>10. l = ((c[1] * e2 + c[2]) * e3 + c[3]) * e4 + c[4]  BY <1>3, <1>6, <1>7, <1>8
  <1> QED BY <1>3, <1>6, <1>7, <1>8, <1>9, <1>10 DEF e2, e3, e4

(* Every element of a view has coordinates within its extents. *)
LEMMA CoordinatesInExtents ==
  ASSUME NEW e \in Shapes, NEW l \in Nat, l < Count(e) PROVE Coordinates(l, e) \in CoordinatesOf(e)
  <1> DEFINE c == Coordinates(l, e)
             n == e[2] * e[3] * e[4]
  <1>1. /\ c \in [Dims -> Nat]
        /\ c[2] < e[2] /\ c[3] < e[3] /\ c[4] < e[4]
    BY RowMajorOrder
  <1>2. e[1] \in Nat \ {0} /\ e[2] \in Nat \ {0} /\ e[3] \in Nat \ {0} /\ e[4] \in Nat \ {0}
    BY DEF Shapes, Dims
  <1>3. n \in Nat \ {0}  BY <1>2
  <1>4. Count(e) = e[1] * n
    <2>1. e[1] * e[2] \in Nat /\ e[2] * e[3] \in Nat  BY <1>2
    <2>2. (e[1] * e[2]) * e[3] = e[1] * (e[2] * e[3])  BY <1>2, Associates
    <2>3. (e[1] * (e[2] * e[3])) * e[4] = e[1] * ((e[2] * e[3]) * e[4])  BY <1>2, <2>1, Associates
    <2> QED BY <2>2, <2>3 DEF Count
  <1>5. c[1] = l \div n  BY DEF Coordinates
  <1> HIDE DEF n, c
  <1>6. c[1] \in Nat /\ l % n \in Nat /\ l = c[1] * n + (l % n)  BY <1>3, <1>5, Division
  <1>7. c[1] < e[1]
    <2>1. SUFFICES ASSUME e[1] <= c[1] PROVE FALSE  BY <1>2, <1>6
    <2>2. e[1] * n <= c[1] * n  BY <1>2, <1>3, <1>6, <2>1, ProductMonotone
    <2>3. e[1] * n \in Nat /\ c[1] * n \in Nat  BY <1>2, <1>3, <1>6
    <2> QED BY <1>4, <1>6, <2>2, <2>3
  <1> QED BY <1>1, <1>7 DEF c, CoordinatesOf, Dims

(* Exclusive writes (every strided plan): units numbered by the elements   *)
(* of an output that passes addresses_are_distinct write at addresses of   *)
(* their own, whatever the offset.                                         *)
THEOREM UnitsWriteApart ==
  ASSUME NEW view, view.strides \in Strides, view.offset \in Nat,
         NEW e \in Shapes, AddressesAreDistinct(view.strides, e),
         NEW l \in Nat, NEW m \in Nat, l < Count(e), m < Count(e), l # m
  PROVE  Address(view, Coordinates(l, e)) # Address(view, Coordinates(m, e))
  <1> DEFINE x == Coordinates(l, e)
             y == Coordinates(m, e)
  <1>1. x \in CoordinatesOf(e) /\ y \in CoordinatesOf(e)  BY CoordinatesInExtents
  <1>2. x # y
    <2>1. /\ l = ((x[1] * e[2] + x[2]) * e[3] + x[3]) * e[4] + x[4]
          /\ m = ((y[1] * e[2] + y[2]) * e[3] + y[3]) * e[4] + y[4]
      BY RowMajorOrder
    <2> HIDE DEF x, y
    <2> QED BY <2>1
  <1> HIDE DEF x, y
  <1>3. Dot(x, view.strides) # Dot(y, view.strides)  BY <1>1, <1>2, DistinctAddresses
  <1>4. Dot(x, view.strides) \in Nat /\ Dot(y, view.strides) \in Nat  BY <1>1, DotNat
  <1>5. Address(view, x) # Address(view, y)  BY <1>3, <1>4 DEF Address
  <1> QED BY <1>5 DEF x, y

----------------------------------------
(* Capacity.                                                               *)

(* check_capacity is sound: an element of a view that fits lies in its     *)
(* storage, and its address is one a shader's word can hold.               *)
THEOREM FittingViewsStay ==
  ASSUME NEW view, view.strides \in Strides, view.offset \in Nat,
         NEW e \in Shapes, NEW bytes \in Nat \ {0}, NEW capacity \in Nat,
         Fits(view, e, bytes, capacity), NEW c \in CoordinatesOf(e)
  PROVE  /\ Address(view, c) < WordLimit
         /\ (Address(view, c) + 1) * bytes <= capacity
  <1> DEFINE
      s == view.strides
      top == [k \in Dims |-> e[k] - 1]
      a == Address(view, c)
      max == MaxElement(view, e)
  <1>1. WordLimit \in Nat  BY WidthAssumption
  <1>2. Dims = {1, 2, 3, 4}  BY DEF Dims
  <1>3. \A k \in Dims : s[k] \in Nat /\ c[k] \in Nat /\ top[k] \in Nat /\ c[k] <= top[k]
    BY DEF Strides, Shapes, CoordinatesOf
  <1>4. top \in [Dims -> Nat] /\ c \in [Dims -> Nat]  BY <1>3 DEF CoordinatesOf
  <1>5. a \in Nat /\ max \in Nat /\ a <= max
    <2>1. \A k \in Dims : c[k] * s[k] <= top[k] * s[k]  BY <1>3, ProductMonotone
    <2>2. \A k \in Dims : c[k] * s[k] \in Nat /\ top[k] * s[k] \in Nat  BY <1>3, ProductNat
    <2> HIDE DEF top, s
    <2>3. Dot(c, s) \in Nat /\ Dot(top, s) \in Nat /\ Dot(c, s) <= Dot(top, s)
      BY <1>2, <2>1, <2>2 DEF Dot
    <2>4. a = view.offset + Dot(c, s) /\ max = view.offset + Dot(top, s)
      BY DEF Address, MaxElement, s, top
    <2> HIDE DEF a, max
    <2> QED BY <2>3, <2>4
  <1>6. max < WordLimit /\ (max + 1) * bytes <= capacity  BY DEF Fits
  <1> HIDE DEF a, max
  <1>7. (a + 1) * bytes <= (max + 1) * bytes  BY <1>5, ProductMonotone
  <1>8. (a + 1) * bytes \in Nat /\ (max + 1) * bytes \in Nat  BY <1>5
  <1> QED BY <1>1, <1>5, <1>6, <1>7, <1>8 DEF a

----------------------------------------
(* Grids.                                                                  *)

LEMMA CeilDivCovers ==
  ASSUME NEW n \in Nat, NEW d \in Nat \ {0}
  PROVE  /\ CeilDiv(n, d) \in Nat
         /\ n <= CeilDiv(n, d) * d
         /\ n > 0 => CeilDiv(n, d) > 0
  <1> DEFINE q == CeilDiv(n, d)
             r == (n + d - 1) % d
  <1>1. /\ q \in Nat /\ r \in Nat /\ r < d
        /\ n + d - 1 = q * d + r
    <2>1. n + d - 1 \in Nat  OBVIOUS
    <2> QED BY <2>1, Division DEF CeilDiv
  <1> HIDE DEF q, r
  <1>2. q * d \in Nat  BY <1>1
  <1>3. n <= q * d  BY <1>1, <1>2
  <1>4. n > 0 => q > 0  BY <1>1, <1>3
  <1> QED BY <1>1, <1>3, <1>4 DEF q

(* dispatch_groups of every one-dimensional plan: the folded grid starts   *)
(* every unit and its first axis is within the device's.                   *)
THEOREM FoldedGridCovers ==
  ASSUME NEW units \in Nat \ {0}, NEW per \in Nat \ {0}, NEW groups, groups = Folded(units, per)
  PROVE  /\ groups[1] \in 1..MaxGroups
         /\ units <= (groups[1] * groups[2]) * per
  <1> DEFINE
      total == CeilDiv(units, per)
      x == Most(Least(total, MaxGroups), 1)
      rows == CeilDiv(total, x)
      y == Most(rows, 1)
  <1>1. MaxGroups \in Nat \ {0}  BY WidthAssumption
  <1>2. total \in Nat /\ units <= total * per /\ total > 0  BY CeilDivCovers
  <1>3. groups[1] = x /\ groups[2] = y  BY DEF Folded
  <1> HIDE DEF total
  <1>4. x \in Nat \ {0} /\ x \in 1..MaxGroups  BY <1>1, <1>2 DEF Least, Most
  <1> HIDE DEF x
  <1>5. rows \in Nat /\ total <= rows * x /\ rows > 0  BY <1>2, <1>4, CeilDivCovers
  <1> HIDE DEF rows
  <1>6. y = rows  BY <1>5 DEF Most
  <1>7. rows * x = x * y /\ x * y \in Nat  BY <1>4, <1>5, <1>6
  <1>8. total * per <= (x * y) * per  BY <1>2, <1>5, <1>7, ProductMonotone
  <1>9. total * per \in Nat /\ (x * y) * per \in Nat  BY <1>2, <1>7
  <1> HIDE DEF y
  <1> QED BY <1>2, <1>3, <1>4, <1>8, <1>9
----------------------------------------
(* Bytes of two different elements of one width are apart. *)
LEMMA ElementsApart ==
  ASSUME NEW at, NEW how, NEW way, NEW a \in Nat, NEW b \in Nat, NEW bytes \in Nat \ {0},
         NEW s, NEW t, s = ElementTouch(at, how, a, bytes), t = ElementTouch(at, way, b, bytes),
         s.first <= t.last, t.first <= s.last
  PROVE  a = b
  <1>1. /\ s.first = a * bytes /\ s.last = a * bytes + bytes - 1
        /\ t.first = b * bytes /\ t.last = b * bytes + bytes - 1
    BY DEF ElementTouch, Touch
  <1>2. a * bytes \in Nat /\ b * bytes \in Nat  OBVIOUS
  <1>3. ASSUME NEW x \in Nat, NEW y \in Nat, x < y PROVE x * bytes + bytes <= y * bytes
    <2>1. (x + 1) * bytes <= y * bytes  BY <1>3, ProductMonotone
    <2>2. (x + 1) * bytes = x * bytes + bytes  OBVIOUS
    <2> QED BY <2>1, <2>2
  <1>4. ~(a < b)  BY <1>1, <1>2, <1>3
  <1>5. ~(b < a)  BY <1>1, <1>2, <1>3
  <1> QED BY <1>4, <1>5

(* What a unit of an elementwise pass does: it writes its own element of   *)
(* the output, and reads that element or storage that is not the output's. *)
ElementUnit(touches, l, out, view, e, bytes, storage) ==
  \A t \in touches :
    \/ \E how \in {"read", "write"} :
         t = ElementTouch(out, how, Address(view, Coordinates(l, e)), bytes)
    \/ t.how = "read" /\ storage[t.at].identity # storage[out].identity

(* The test of addresses and of the capacity is all an elementwise pass    *)
(* needs, in place or not: whatever the extents, strides and offsets of    *)
(* its output, its units do not race and none writes past the output       *)
(* (convert_ops.rs, addresses_are_distinct and check_capacity; the refusal *)
(* of an output that shares an input's storage through another view).      *)
THEOREM ElementPassIsSafe ==
  ASSUME NEW view, view.strides \in Strides, view.offset \in Nat,
         NEW e \in Shapes, NEW bytes \in Nat \ {0}, NEW out, NEW storage,
         storage[out].capacity \in Nat,
         AddressesAreDistinct(view.strides, e), Fits(view, e, bytes, storage[out].capacity),
         NEW pass, DOMAIN pass.touches = 0 .. Count(e) - 1,
         \A l \in DOMAIN pass.touches :
           ElementUnit(pass.touches[l], l, out, view, e, bytes, storage)
  PROVE  /\ UnitsAreIndependent(pass, storage)
         /\ \A l \in DOMAIN pass.touches : \A t \in pass.touches[l] :
              t.how = "write" => t.at = out /\ t.last < storage[out].capacity
  <1> DEFINE At(l) == Address(view, Coordinates(l, e))
  <1>1. Count(e) \in Nat
    <2>1. e[1] \in Nat /\ e[2] \in Nat /\ e[3] \in Nat /\ e[4] \in Nat  BY DEF Shapes, Dims
    <2>2. e[1] * e[2] \in Nat  BY <2>1, ProductNat
    <2>3. e[1] * e[2] * e[3] \in Nat  BY <2>1, <2>2, ProductNat
    <2> QED BY <2>1, <2>3, ProductNat DEF Count
  <1>2. ASSUME NEW l \in DOMAIN pass.touches
        PROVE  /\ l \in Nat /\ l < Count(e)
               /\ Coordinates(l, e) \in CoordinatesOf(e)
               /\ At(l) \in Nat
    <2>1. l \in Nat /\ l < Count(e)  BY <1>1
    <2>2. Coordinates(l, e) \in CoordinatesOf(e)  BY <2>1, CoordinatesInExtents
    <2>3. Dot(Coordinates(l, e), view.strides) \in Nat  BY <2>2, DotNat
    <2> QED BY <2>1, <2>2, <2>3 DEF Address
  <1>3. ASSUME NEW l \in DOMAIN pass.touches, NEW m \in DOMAIN pass.touches, l < m PROVE At(l) # At(m)
    BY <1>2, <1>3, UnitsWriteApart
  <1> HIDE DEF At
  <1>4. ASSUME NEW l \in DOMAIN pass.touches, NEW m \in DOMAIN pass.touches, l < m,
               NEW s \in pass.touches[l], NEW t \in pass.touches[m], Overlap(s, t, storage)
        PROVE  Compatible(s, t)
    <2> DEFINE Own(x, l2) == \E how \in {"read", "write"} : x = ElementTouch(out, how, At(l2), bytes)
               Other(x) == x.how = "read" /\ storage[x.at].identity # storage[out].identity
    <2>1. (Own(s, l) \/ Other(s)) /\ (Own(t, m) \/ Other(t))  BY DEF ElementUnit, At
    <2>2. \A x, l2 : Own(x, l2) => x.at = out  BY DEF ElementTouch, Touch
    <2>3. CASE Other(s) /\ Other(t)  BY <2>3 DEF Compatible
    <2>4. CASE Own(s, l) /\ Other(t)  BY <1>4, <2>2, <2>4 DEF Overlap
    <2>5. CASE Other(s) /\ Own(t, m)  BY <1>4, <2>2, <2>5 DEF Overlap
    <2>6. CASE Own(s, l) /\ Own(t, m)
      <3>1. PICK how \in {"read", "write"} : s = ElementTouch(out, how, At(l), bytes)  BY <2>6
      <3>2. PICK way \in {"read", "write"} : t = ElementTouch(out, way, At(m), bytes)  BY <2>6
      <3>3. s.first <= t.last /\ t.first <= s.last  BY <1>4 DEF Overlap
      <3>4. At(l) \in Nat /\ At(m) \in Nat  BY <1>2 DEF At
      <3>5. At(l) = At(m)  BY <3>1, <3>2, <3>3, <3>4, ElementsApart
      <3> QED BY <1>3, <1>4, <3>5
    <2> HIDE DEF Own, Other
    <2> QED BY <2>1, <2>3, <2>4, <2>5, <2>6
  <1>5. ASSUME NEW l \in DOMAIN pass.touches, NEW t \in pass.touches[l], t.how = "write"
        PROVE  t.at = out /\ t.last < storage[out].capacity
    <2>1. PICK how \in {"read", "write"} : t = ElementTouch(out, how, At(l), bytes)
      BY <1>5 DEF ElementUnit, At
    <2>2. t.at = out /\ t.last = At(l) * bytes + bytes - 1  BY <2>1 DEF ElementTouch, Touch
    <2>3. (At(l) + 1) * bytes <= storage[out].capacity  BY <1>2, FittingViewsStay DEF At
    <2>4. (At(l) + 1) * bytes = At(l) * bytes + bytes /\ At(l) * bytes \in Nat  BY <1>2
    <2> QED BY <2>2, <2>3, <2>4
  <1> QED BY <1>4, <1>5 DEF UnitsAreIndependent
----------------------------------------
(* Induction over the naturals, for sets; the least of some naturals.      *)

LEMMA NatOrderWellFounded ==
  IsWellFoundedOn({ss \in Nat \X Nat : ss[1] < ss[2]}, Nat)
  BY NatLessThanWellFounded DEF OpToRel

LEMMA LeastOf ==
  ASSUME NEW T, T \subseteq Nat, T # {} PROVE \E x \in T : \A y \in T : x <= y
  <1> DEFINE R == {ss \in Nat \X Nat : ss[1] < ss[2]}
  <1>1. IsWellFoundedOn(R, Nat)  BY NatOrderWellFounded
  <1> HIDE DEF R
  <1>2. PICK x \in T : \A y \in T : ~(<<y, x>> \in R)  BY <1>1, WFMin
  <1>3. x \in Nat /\ \A y \in T : y \in Nat /\ ~(<<y, x>> \in R)  BY <1>2
  <1>4. ASSUME NEW y \in T PROVE x <= y
    <2>1. <<y, x>> \in Nat \X Nat /\ <<y, x>>[1] = y /\ <<y, x>>[2] = x  BY <1>3
    <2>2. ~(y < x)  BY <1>3, <2>1 DEF R
    <2> QED BY <1>3, <2>2
  <1> QED BY <1>4

LEMMA SetInduction ==
  ASSUME NEW T, T \subseteq Nat, 0 \in T, \A n \in T : n + 1 \in T PROVE T = Nat
  <1> SUFFICES ASSUME Nat \ T # {} PROVE FALSE  OBVIOUS
  <1>1. PICK x \in Nat \ T : \A y \in Nat \ T : x <= y  BY LeastOf
  <1>2. x # 0 /\ x - 1 \in Nat /\ x - 1 < x /\ (x - 1) + 1 = x  OBVIOUS
  <1>3. x - 1 \in T  BY <1>1, <1>2
  <1> QED BY <1>2, <1>3

----------------------------------------
(* Nothing refused: none of the conditions of a list of refusals holds.    *)
Listed(refusals) ==
  /\ DOMAIN refusals \subseteq Nat
  /\ \A i \in DOMAIN refusals : refusals[i][2] # "none"

LEMMA NothingRefused ==
  ASSUME NEW refusals, Listed(refusals), FirstOf(refusals) = "none", NEW i \in DOMAIN refusals
  PROVE  ~refusals[i][1]
  <1> DEFINE hits == {j \in DOMAIN refusals : refusals[j][1]}
             first == CHOOSE h \in hits : \A j \in hits : h <= j
  <1>1. SUFFICES ASSUME hits # {} PROVE FALSE  OBVIOUS
  <1>2. hits \subseteq Nat  BY DEF Listed
  <1>3. \E h \in hits : \A j \in hits : h <= j  BY <1>1, <1>2, LeastOf
  <1>4. first \in hits  BY <1>3
  <1>5. FirstOf(refusals) = refusals[first][2]  BY <1>1 DEF FirstOf
  <1> QED BY <1>4, <1>5 DEF Listed

LEMMA BothRefuseNothing ==
  ASSUME NEW a, NEW b, Either(a, b) = "none" PROVE a = "none" /\ b = "none"
  BY DEF Either

(* What the batch is given to record: passes that declare what they touch  *)
(* and run kernels that are there.                                         *)

\* A pass's units touch nothing but what it is launched to read and to write.
Bound(touches, reads, writes) ==
  \A u \in DOMAIN touches : \A t \in touches[u] : t.at \in writes \/ (t.how = "read" /\ t.at \in reads)
PassPrepared(pass, built) ==
  Bound(pass.touches, pass.reads, pass.writes) /\ pass.kernel \in Opened \cup built

LEMMA LaunchFields ==
  ASSUME NEW kernel, NEW units, NEW per, NEW groups, NEW touches, NEW reads, NEW writes,
         NEW p, p = Launch(kernel, units, per, groups, touches, reads, writes)
  PROVE  /\ p.kernel = kernel /\ p.units = units /\ p.per = per /\ p.groups = groups /\ p.touches = touches
         /\ p.reads = reads /\ p.writes = writes
  BY DEF Launch, Declaring, Pass

LEMMA LaunchPrepared ==
  ASSUME NEW kernel, NEW units, NEW per, NEW groups, NEW touches, NEW reads, NEW writes, NEW built,
         kernel \in Opened \cup built, Bound(touches, reads, writes)
  PROVE  PassPrepared(Launch(kernel, units, per, groups, touches, reads, writes), built)
  BY LaunchFields DEF PassPrepared

LEMMA AnsweredPasses ==
  ASSUME NEW passes, NEW scratch, NEW built, plan = Answered(passes, scratch, built)
  PROVE  Passes = passes /\ plan.built = built /\ plan.scratch = scratch /\ Admitted(plan)
  BY DEF Passes, Admitted, Answered

LEMMA AnsweredPrepared ==
  ASSUME NEW passes, NEW scratch, NEW built, plan = Answered(passes, scratch, built),
         \A i \in DOMAIN passes : PassPrepared(passes[i], built)
  PROVE  PassesArePrepared
  <1>1. Passes = passes /\ plan.built = built  BY AnsweredPasses
  <1>2. AccessesDeclared  BY <1>1 DEF AccessesDeclared, TouchesOf, PassPrepared, Bound
  <1>3. KernelsAreBuilt  BY <1>1 DEF KernelsAreBuilt, PassPrepared
  <1> QED BY <1>2, <1>3 DEF PassesArePrepared

LEMMA RefusedPasses ==
  ASSUME NEW why, why # "none", plan = Refused(why) PROVE Passes = <<>> /\ ~Admitted(plan)
  BY DEF Passes, Admitted, Refused

LEMMA RefusedPrepared ==
  ASSUME NEW why, why # "none", plan = Refused(why) PROVE PassesArePrepared
  BY RefusedPasses DEF PassesArePrepared, AccessesDeclared, KernelsAreBuilt

LEMMA EnteredPrepared ==
  ASSUME NEW why, NEW passes, NEW scratch, NEW built, plan = Entered(why, passes, scratch, built),
         why = "none" => \A i \in DOMAIN passes : PassPrepared(passes[i], built)
  PROVE  PassesArePrepared
  <1>1. CASE why # "none"  BY <1>1, RefusedPrepared DEF Entered
  <1>2. CASE why = "none"  BY <1>2, AnsweredPrepared DEF Entered
  <1> QED BY <1>1, <1>2

LEMMA OneLaunchPrepared ==
  ASSUME NEW why, NEW kernel, NEW units, NEW per, NEW groups, NEW touches, NEW reads, NEW writes,
         NEW scratch, NEW built,
         plan = Entered(why, <<Launch(kernel, units, per, groups, touches, reads, writes)>>, scratch, built),
         why = "none" => kernel \in Opened \cup built /\ Bound(touches, reads, writes)
  PROVE  PassesArePrepared
  <1> DEFINE p == Launch(kernel, units, per, groups, touches, reads, writes)
             passes == <<p>>
  <1>1. why = "none" => PassPrepared(p, built)  BY LaunchPrepared
  <1> HIDE DEF p
  <1>2. why = "none" => \A i \in DOMAIN passes : PassPrepared(passes[i], built)  BY <1>1
  <1>3. plan = Entered(why, passes, scratch, built)  BY DEF p
  <1> QED BY <1>2, <1>3, EnteredPrepared

----------------------------------------
(* Prepared: the families of one or two kernels.                           *)

LEMMA RotaryPrepared ==
  ASSUME plan = RotaryEntry(request) PROVE PassesArePrepared
  <1> DEFINE
      r == request
      pairs == (r.rows * r.cols) \div 2
      touches == [id \in 0..(pairs - 1) |-> RotaryTouches(r, id)]
      reads == {"x", "cos", "sin"}
      writes == {"out"}
  <1>1. ASSUME NEW v \in DOMAIN touches, NEW t \in touches[v]
        PROVE  t.at \in writes \/ (t.how = "read" /\ t.at \in reads)
    <2>1. t \in RotaryTouches(r, v)  OBVIOUS
    <2> HIDE DEF touches
    <2> QED BY <2>1 DEF RotaryTouches, ElementTouch, WordTouch, Span, Touch
  <1>2. Bound(touches, reads, writes)  BY <1>1 DEF Bound
  <1>3. plan = Entered(FirstOf(RotaryRefusals(r)),
          <<Launch(<<"rotary">>, pairs, Bounds.lanes, Folded(pairs, Bounds.lanes), touches, reads, writes)>>, 0, {<<"rotary">>})
    BY DEF RotaryEntry
  <1>4. <<"rotary">> \in Opened \cup {<<"rotary">>}  BY DEF Opened
  <1> HIDE DEF touches, reads, writes
  <1> QED BY <1>2, <1>3, <1>4, OneLaunchPrepared

LEMMA SwigluPrepared ==
  ASSUME plan = SwigluEntry(request), request.kind \in {"Forward", "Backward"} PROVE PassesArePrepared
  <1> DEFINE
      r == request
      n == r.rows * r.cols
      touches == [id \in 0..(n - 1) |-> SwigluTouches(r, id)]
      reads == {"packed"} \cup BackwardOnly(r, {"upstream"})
      writes == {"out"}
  <1>1. ASSUME NEW v \in DOMAIN touches, NEW t \in touches[v]
        PROVE  t.at \in writes \/ (t.how = "read" /\ t.at \in reads)
    <2>1. t \in SwigluTouches(r, v)  OBVIOUS
    <2> HIDE DEF touches
    <2> QED BY <2>1 DEF SwigluTouches, BackwardOnly, ElementTouch, WordTouch, Span, Touch
  <1>2. Bound(touches, reads, writes)  BY <1>1 DEF Bound
  <1>3. plan = Entered(FirstOf(SwigluRefusals(r)),
          <<Launch(<<"swiglu", r.type>>, n, Bounds.lanes, Folded(n, Bounds.lanes), touches, reads, writes)>>, 0, {<<"swiglu", r.type>>})
    BY DEF SwigluEntry
  <1>4. <<"swiglu", r.type>> \in Opened \cup {<<"swiglu", r.type>>}  BY DEF Opened
  <1> HIDE DEF touches, reads, writes
  <1> QED BY <1>2, <1>3, <1>4, OneLaunchPrepared

LEMMA ScaledPrepared ==
  ASSUME plan = ScaledEntry(request) PROVE PassesArePrepared
  <1> DEFINE
      r == request
      n == r.rows * r.cols
      touches == [id \in 0..(n - 1) |-> ScaledTouches(r, id)]
      reads == ScaledIns(r)
      writes == ScaledOuts(r)
  <1>1. ASSUME NEW v \in DOMAIN touches, NEW t \in touches[v]
        PROVE  t.at \in writes \/ (t.how = "read" /\ t.at \in reads)
    <2>1. t \in ScaledTouches(r, v)  OBVIOUS
    <2> HIDE DEF touches
    <2> QED BY <2>1 DEF ScaledTouches, ElementTouch, WordTouch, Span, Touch
  <1>2. Bound(touches, reads, writes)  BY <1>1 DEF Bound
  <1>3. plan = Entered(FirstOf(ScaledRefusals(r)),
          <<Launch(<<"swiglu_scaled", r.type>>, n, Bounds.lanes, Folded(n, Bounds.lanes), touches, reads, writes)>>, 0, {<<"swiglu_scaled", r.type>>})
    BY DEF ScaledEntry
  <1>4. <<"swiglu_scaled", r.type>> \in Opened \cup {<<"swiglu_scaled", r.type>>}  BY DEF Opened
  <1> HIDE DEF touches, reads, writes
  <1> QED BY <1>2, <1>3, <1>4, OneLaunchPrepared

LEMMA LsePrepared ==
  ASSUME plan = LseEntry(request) PROVE PassesArePrepared
  <1> DEFINE
      r == request
      x == Least(r.rows, MaxGroups)
      touches == [row \in 0..(r.rows - 1) |-> LseTouches(r, row)]
      reads == LseIns
      writes == {"out"}
  <1>1. ASSUME NEW v \in DOMAIN touches, NEW t \in touches[v]
        PROVE  t.at \in writes \/ (t.how = "read" /\ t.at \in reads)
    <2>1. t \in LseTouches(r, v)  OBVIOUS
    <2> HIDE DEF touches
    <2> QED BY <2>1 DEF LseTouches, LseIns, ElementTouch, WordTouch, Span, Touch
  <1>2. Bound(touches, reads, writes)  BY <1>1 DEF Bound
  <1>3. plan = Entered(FirstOf(LseRefusals(r)),
          <<Launch(<<"head_lse">>, r.rows, 1, <<x, CeilDiv(r.rows, x), 1>>, touches, reads, writes)>>, 0, {<<"head_lse">>})
    BY DEF LseEntry
  <1>4. <<"head_lse">> \in Opened \cup {<<"head_lse">>}  BY DEF Opened
  <1> HIDE DEF touches, reads, writes
  <1> QED BY <1>2, <1>3, <1>4, OneLaunchPrepared

LEMMA GradPrepared ==
  ASSUME plan = GradEntry(request) PROVE PassesArePrepared
  <1> DEFINE
      r == request
      groups == CeilDiv(r.rows, r.perGroup)
      blocks == CeilDiv(r.cols, Bounds.block)
      touches == [u \in 0..(groups * blocks - 1) |-> GradTouches(r, u)]
      reads == GradIns
      writes == GradOuts
  <1>1. ASSUME NEW v \in DOMAIN touches, NEW t \in touches[v]
        PROVE  t.at \in writes \/ (t.how = "read" /\ t.at \in reads)
    <2>1. t \in GradTouches(r, v)  OBVIOUS
    <2> HIDE DEF touches
    <2> QED BY <2>1 DEF GradTouches, GradIns, GradOuts, LseIns, ElementTouch, WordTouch, Span, Touch
  <1>2. Bound(touches, reads, writes)  BY <1>1 DEF Bound
  <1>3. plan = Entered(FirstOf(GradRefusals(r)),
          <<Launch(<<"head_grad">>, groups * blocks, 1, <<blocks, groups, 1>>, touches, reads, writes)>>, 0, {<<"head_grad">>})
    BY DEF GradEntry
  <1>4. <<"head_grad">> \in Opened \cup {<<"head_grad">>}  BY DEF Opened
  <1> HIDE DEF touches, reads, writes
  <1> QED BY <1>2, <1>3, <1>4, OneLaunchPrepared

LEMMA VqPrepared ==
  ASSUME plan = VqEntry(request),
         request.kind \in {"Encode", "Decode", "AdamW", "Matmul"}
  PROVE  PassesArePrepared
  <1> DEFINE
      r == request
      items == VqItems(r)
      touches == [i \in 0..(items - 1) |-> VqTouches(r, i)]
      reads == {"b0", "b1", "b2", "b3"}
      writes == {"out", "status"}
  <1>1. ASSUME NEW v \in DOMAIN touches, NEW t \in touches[v]
        PROVE  t.at \in writes \/ (t.how = "read" /\ t.at \in reads)
    <2>1. t \in VqTouches(r, v)  OBVIOUS
    <2> HIDE DEF touches
    <2> DEFINE
        Fine == t.at \in writes \/ (t.how = "read" /\ t.at \in reads)
        Decodes == \E codes, book \in reads : \E base, first, logical : t \in Unpacked(r, codes, book, base, first, logical)
        Word == \/ \E at \in writes : \E how, word : t = WordTouch(at, how, word)
                \/ \E at \in reads : \E word : t = WordTouch(at, "read", word)
    <2>2. t \in BookCheck(r, v) \/ Decodes \/ Word
      <3>1. CASE r.kind = "Encode"  BY <2>1, <3>1 DEF VqTouches
      <3>2. CASE r.kind = "Decode"  BY <2>1, <3>2 DEF VqTouches
      <3>3. CASE r.kind = "AdamW"  BY <2>1, <3>3 DEF VqTouches
      <3>4. CASE r.kind = "Matmul"  BY <2>1, <3>4 DEF VqTouches
      <3> QED BY <3>1, <3>2, <3>3, <3>4
    <2>3. CASE t \in BookCheck(r, v)  BY <2>3 DEF BookCheck, WordTouch, Touch
    <2>4. CASE Decodes  BY <2>4 DEF Unpacked, WordTouch, Touch
    <2>5. CASE Word  BY <2>5 DEF WordTouch, Touch
    <2> QED BY <2>2, <2>3, <2>4, <2>5
  <1>2. Bound(touches, reads, writes)  BY <1>1 DEF Bound
  <1>3. plan = Entered(Either(FirstOf(VqRefusals(r)), FirstOf(VqShares(r))),
          <<Launch(<<"vq">>, items, Sizes.vqLanes, Folded(items, Sizes.vqLanes), touches, reads, writes)>>, 0, {<<"vq">>})
    BY DEF VqEntry
  <1>4. <<"vq">> \in Opened \cup {<<"vq">>}  BY DEF Opened
  <1> HIDE DEF touches, reads, writes
  <1> QED BY <1>2, <1>3, <1>4, OneLaunchPrepared

LEMMA DecodePrepared ==
  ASSUME plan = DecodeEntry(request) PROVE PassesArePrepared
  <1> DEFINE
      r == request
      words == CeilDiv(r.n, Mats.perWord)
      touches == [w \in 0..(words - 1) |-> DecodeTouches(r, w)]
      reads == SourceNames \cup (IF Selected(r) = 0 THEN {} ELSE {"ids"})
      writes == {"out"}
  <1>1. ASSUME NEW v \in DOMAIN touches, NEW t \in touches[v]
        PROVE  t.at \in writes \/ (t.how = "read" /\ t.at \in reads)
    <2>1. t \in DecodeTouches(r, v)  OBVIOUS
    <2> HIDE DEF touches
    <2> QED BY <2>1 DEF DecodeTouches, Decoded, Searched, SourceNames, ElementTouch, WordTouch, Span, Touch
  <1>2. Bound(touches, reads, writes)  BY <1>1 DEF Bound
  <1>3. plan = Entered(Either(FirstOf(DecodeRefusals(r)), FirstOf(DecodeRoles(r))),
          <<Launch(<<"nf4_decode", r.width>>, words, Mats.decodeLanes, Folded(words, Mats.decodeLanes), touches, reads, writes)>>, 0, {<<"nf4_decode", r.width>>})
    BY DEF DecodeEntry
  <1>4. <<"nf4_decode", r.width>> \in Opened \cup {<<"nf4_decode", r.width>>}  BY DEF Opened
  <1> HIDE DEF touches, reads, writes
  <1> QED BY <1>2, <1>3, <1>4, OneLaunchPrepared

LEMMA FactorPrepared ==
  ASSUME plan = FactorEntry(request),
         request.kind \in {"LatentForward", "PackedForward", "LatentBackward", "PackedBackwardRow", "PackedBackwardCol"}
  PROVE  PassesArePrepared
  <1> DEFINE
      r == request
      units == IF r.kind = "PackedBackwardCol" THEN r.p * r.r ELSE r.p * r.m
      touches == [u \in 0..(units - 1) |-> FactorTouches(r, u)]
      reads == FactorRoles \ FactorWrites(r)
      writes == FactorWrites(r)
  <1>1. ASSUME NEW v \in DOMAIN touches, NEW t \in touches[v]
        PROVE  t.at \in writes \/ (t.how = "read" /\ t.at \in reads)
    <2>1. t \in FactorTouches(r, v)  OBVIOUS
    <2> HIDE DEF touches
    <2> QED
      BY <2>1 DEF FactorTouches, EntryWrites, EntryWords, ColumnWords, RowScale, ColScale, Signed, FactorRoles, FactorWrites,
                  Forward, ElementTouch, WordTouch, Span, Touch
  <1>2. Bound(touches, reads, writes)  BY <1>1 DEF Bound
  <1>3. plan = Entered(Either(FirstOf(FactorRefusals(r)), FirstOf(FactorShares(r))),
          <<Launch(<<"expert_factor">>, units, Sizes.factorLanes, Folded(units, Sizes.factorLanes), touches, reads, writes)>>,
          0, {<<"expert_factor">>})
    BY DEF FactorEntry
  <1>4. <<"expert_factor">> \in Opened \cup {<<"expert_factor">>}  OBVIOUS
  <1> HIDE DEF touches, reads, writes
  <1> QED BY <1>2, <1>3, <1>4, OneLaunchPrepared

LEMMA GroupedPrepared ==
  ASSUME plan = GroupedEntry(request), request.bT \in BOOLEAN PROVE PassesArePrepared
  <1> DEFINE
      r == request
      grid == GroupedGrid(r)
      touches == [u \in 0..(GroupCount(grid) - 1) |-> GroupedTouches(r, u)]
      reads == SourceNames \cup {"a", "groups"}
  <1>1. ASSUME NEW v \in DOMAIN touches, NEW t \in touches[v]
        PROVE  t.at \in {"c"} \/ (t.how = "read" /\ t.at \in reads)
    <2>1. t \in GroupedTouches(r, v)  OBVIOUS
    <2> HIDE DEF touches
    <2>2. \/ t \in {WordTouch("groups", "read", (3 * GroupAt(GroupedGrid(r), v)[3]) + i) : i \in 0..2}
          \/ \E g, rows, cols : t \in TilesTouched(r, g, rows, cols)
      BY <2>1, Zenon DEF GroupedTouches
    <2>3. CASE t \in {WordTouch("groups", "read", (3 * GroupAt(GroupedGrid(r), v)[3]) + i) : i \in 0..2}
      BY <2>3 DEF WordTouch, Touch
    <2>4. ASSUME NEW g, NEW rows, NEW cols, t \in TilesTouched(r, g, rows, cols)
          PROVE  t.at \in {"c"} \/ (t.how = "read" /\ t.at \in reads)
      <3>1. CASE t \in Searched(r)  BY <3>1 DEF Searched, SourceNames, WordTouch, Touch
      <3>2. CASE t \in RowsRead(r, g, rows)  BY <3>2 DEF RowsRead, ElementTouch, Touch
      <3>3. ASSUME NEW j, NEW k, t \in WeightRead(r, g, j, k) PROVE t.how = "read" /\ t.at \in reads
        BY <3>3 DEF WeightRead, Decoded, SourceNames, WordTouch, Touch
      <3>4. CASE t \in WeightsRead(r, g, cols)  BY <3>3, <3>4 DEF WeightsRead
      <3>5. CASE t \in TileWritten(r, g, rows, cols)  BY <3>5 DEF TileWritten, WordTouch, Touch
      <3> QED BY <2>4, <3>1, <3>2, <3>4, <3>5 DEF TilesTouched
    <2> QED BY <2>2, <2>3, <2>4
  <1>2. Bound(touches, reads, {"c"})  BY <1>1 DEF Bound
  <1>3. plan = Entered(Either(FirstOf(GroupedRefusals(r)), FirstOf(GroupedRoles(r))),
          <<Launch(GroupedKernel(r), GroupCount(grid), 1, grid, touches, reads, {"c"})>>, 0, GroupedBuilt(r))
    BY DEF GroupedEntry
  <1>4. GroupedKernel(r) \in GroupedBuilt(r)
    <2>1. CASE Gemv(r)  BY <2>1 DEF GroupedBuilt
    <2>2. CASE ~Gemv(r)
      <3>1. GroupedKernel(r) = <<"nf4_matmul", r.elem, r.half, r.bT>>  BY <2>2 DEF GroupedKernel
      <3> QED BY <2>2, <3>1 DEF GroupedBuilt
    <2> QED BY <2>1, <2>2
  <1> HIDE DEF touches, reads
  <1> QED BY <1>2, <1>3, <1>4, OneLaunchPrepared

LEMMA CastPrepared ==
  ASSUME plan = CastEntry(request) PROVE PassesArePrepared
  <1> DEFINE
      r == request
      units == CeilDiv(r.n, 4)
      Lane(u) == {Span(at, IF at = "src" THEN "read" ELSE "write", 4 * u, Least(4, r.n - 4 * u), CastWidth(r, at)) :
                    at \in {"src", "dst"}}
      touches == [u \in 0..(units - 1) |-> Lane(u)]
      built == {}
  <1>1. ASSUME NEW v \in DOMAIN touches, NEW t \in touches[v]
        PROVE  t.at \in {"dst"} \/ (t.how = "read" /\ t.at \in {"src"})
    BY <1>1 DEF Span, Touch
  <1>2. Bound(touches, {"src"}, {"dst"})  BY <1>1 DEF Bound
  <1>3. plan = Entered(FirstOf(CastRefusals(r)),
          <<Launch(<<"cast", r.mode>>, units, Mats.castLanes, <<CeilDiv(units, Mats.castLanes), 1, 1>>,
                   touches, {"src"}, {"dst"})>>, 0, built)
    BY DEF CastEntry
  <1>4. ASSUME FirstOf(CastRefusals(r)) = "none" PROVE <<"cast", r.mode>> \in Opened \cup built
    <2>1. Listed(CastRefusals(r)) /\ 1 \in DOMAIN CastRefusals(r)
          /\ CastRefusals(r)[1][1] = (r.n \notin 1..(U32 - 1) \/ r.mode \notin {0, 1})
      BY DEF Listed, CastRefusals
    <2>2. ~CastRefusals(r)[1][1]  BY <1>4, <2>1, NothingRefused
    <2>3. r.mode \in {0, 1}  BY <2>1, <2>2
    <2> QED BY <2>3 DEF Opened
  <1> HIDE DEF touches, built
  <1> QED BY <1>2, <1>3, <1>4, OneLaunchPrepared

LEMMA RowPrepared ==
  ASSUME plan = RowEntry(request) PROVE PassesArePrepared
  <1> DEFINE
      r == request
      groups == IF r.kind = "RmsNormGammaReduction" THEN r.cols ELSE r.rows
      touches == [g \in 0..(groups - 1) |-> RowTouches(r, g)]
      reads == {"primary", "upstream", "gamma"}
      built == {}
      why == FirstOf(<< <<r.rows \notin 1..Limit.rows \/ r.cols \notin 1..Limit.cols, "SHAPE">>,
                        <<r.rows * r.cols > Limit.elements, "SIZE">>,
                        <<~r.finite, "SHAPE">>,
                        <<\E at \in RowReads(r) \cup {"out"} : ~Room(r, at, 4 * RowLength(r, at)), "SIZE">>,
                        <<\E at \in RowReads(r) : Same(r, at, "out"), "SHAPE">> >>)
  <1>1. ASSUME NEW v \in DOMAIN touches, NEW t \in touches[v]
        PROVE  t.at \in {"out"} \/ (t.how = "read" /\ t.at \in reads)
    <2>1. t \in RowTouches(r, v)  OBVIOUS
    <2> HIDE DEF touches
    <2> QED BY <2>1 DEF RowTouches, RowReads, ElementTouch, Span, Touch
  <1>2. Bound(touches, reads, {"out"})  BY <1>1 DEF Bound
  <1>3. plan = Entered(why, <<Launch(<<"rowwise">>, groups, 1, <<groups, 1, 1>>, touches, reads, {"out"})>>, 0, built)
    BY DEF RowEntry
  <1>4. <<"rowwise">> \in Opened \cup built  BY DEF Opened
  <1> HIDE DEF touches, reads, built, why
  <1> QED BY <1>2, <1>3, <1>4, OneLaunchPrepared

LEMMA UpdatePrepared ==
  ASSUME plan = UpdateEntry(request) PROVE PassesArePrepared
  <1> DEFINE
      r == request
      word == [scale |-> r.scaleAt, tracker |-> r.trackerAt, found |-> r.foundAt]
      each == {WordTouch(at, "read", word[at]) : at \in DOMAIN word}
                \cup {WordTouch(at, "write", word[at]) : at \in {"scale", "tracker"}}
      touches == [u \in {0} |-> each]
      reads == {"found"}
      writes == {"scale", "tracker"}
  <1>1. ASSUME NEW v \in DOMAIN touches, NEW t \in touches[v]
        PROVE  t.at \in writes \/ (t.how = "read" /\ t.at \in reads)
    BY <1>1 DEF WordTouch, Touch
  <1>2. Bound(touches, reads, writes)  BY <1>1 DEF Bound
  <1>3. plan = Entered(FirstOf(UpdateRefusals(r)),
          <<Launch(<<"amp_update">>, 1, 1, <<1, 1, 1>>, touches, reads, writes)>>, 0, {<<"amp_update">>})
    BY DEF UpdateEntry
  <1>4. <<"amp_update">> \in Opened \cup {<<"amp_update">>}  OBVIOUS
  <1> HIDE DEF touches, reads, writes
  <1> QED BY <1>2, <1>3, <1>4, OneLaunchPrepared

LEMMA UnscalePrepared ==
  ASSUME plan = UnscaleEntry(request) PROVE PassesArePrepared
  <1> DEFINE
      r == request
      groups == Most(Least(CeilDiv(r.count, Sizes.ampLanes), MaxGroups), 1)
      started == groups * Sizes.ampLanes
      units == Least(started, r.count)
      touches == [u \in 0..(units - 1) |-> UnscaleTouches(r, u, started)]
      reads == {"scale"}
      writes == {"data", "found"}
      pass == Launch(<<"amp_unscale">>, units, Sizes.ampLanes, <<groups, 1, 1>>, touches, reads, writes)
      passes == IF r.count = 0 THEN <<>> ELSE <<pass>>
      built == {<<"amp_unscale">>}
  <1>1. ASSUME NEW v \in DOMAIN touches, NEW t \in touches[v]
        PROVE  t.at \in writes \/ (t.how = "read" /\ t.at \in reads)
    <2>1. t \in UnscaleTouches(r, v, started)  OBVIOUS
    <2> HIDE DEF touches
    <2> QED BY <2>1 DEF UnscaleTouches, WordTouch, Touch
  <1>2. Bound(touches, reads, writes)  BY <1>1 DEF Bound
  <1>3. plan = Entered(FirstOf(UnscaleRefusals(r)), passes, 0, built)  BY DEF UnscaleEntry
  <1> HIDE DEF touches, reads, writes
  <1>4. PassPrepared(pass, built)  BY <1>2, LaunchPrepared
  <1> HIDE DEF pass
  <1>5. \A i \in DOMAIN passes : PassPrepared(passes[i], built)  BY <1>4
  <1> HIDE DEF passes, built
  <1> QED BY <1>3, <1>5, EnteredPrepared

LEMMA BagRunPrepared ==
  ASSUME NEW r, NEW op \in 0..7, NEW units, NEW per,
         r.kind \in {"Forward", "GradWeights", "GradTable"},
         op = 0 <=> r.kind = "Forward", op = 1 <=> r.kind = "GradWeights"
  PROVE  PassPrepared(BagRun(r, op, units, per), {<<"weighted_bag">>})
  <1> DEFINE
      writes == IF op \in {0, 1, 7} THEN {"out"} ELSE {"scratch"}
      reads == (BagIns(r) \cup BagScratch(r) \cup {"out"}) \ writes
      touches == [u \in 0..(units - 1) |-> BagTouches(r, op, u)]
  <1>1. ASSUME NEW v \in DOMAIN touches, NEW t \in touches[v]
        PROVE  t.at \in writes \/ (t.how = "read" /\ t.at \in reads)
    <2>1. t \in BagTouches(r, op, v)  OBVIOUS
    <2> HIDE DEF touches
    <2>2. CASE op = 0  BY <2>1, <2>2 DEF BagTouches, BagIns, BagScratch, ElementTouch, Touch
    <2>3. CASE op = 1  BY <2>1, <2>3 DEF BagTouches, BagIns, BagScratch, ElementTouch, Span, Touch
    <2>4. CASE op = 2  BY <2>1, <2>4 DEF BagTouches, Scratched, WordTouch, Touch
    <2>5. CASE op = 3
      BY <2>1, <2>5 DEF BagTouches, BagIns, BagScratch, Scratched, ElementTouch, WordTouch, Touch
    <2>6. CASE op = 4  BY <2>1, <2>6 DEF BagTouches, Scratched, WordTouch, Touch
    <2>7. CASE op = 5
      BY <2>1, <2>7 DEF BagTouches, BagIns, BagScratch, Scratched, ElementTouch, WordTouch, Touch
    <2>8. CASE op = 6  BY <2>1, <2>8 DEF BagTouches, RowEnds, Scratched, WordTouch, Touch
    <2>9. CASE op = 7
      BY <2>1, <2>9 DEF BagTouches, BagIns, BagScratch, RowEnds, Scratched, ElementTouch, WordTouch, Touch
    <2> QED BY <2>2, <2>3, <2>4, <2>5, <2>6, <2>7, <2>8, <2>9
  <1>2. Bound(touches, reads, writes)  BY <1>1 DEF Bound
  <1>3. BagRun(r, op, units, per) = Launch(<<"weighted_bag">>, units, per, Folded(units, per), touches, reads, writes)
    BY DEF BagRun
  <1> HIDE DEF touches, reads, writes
  <1> QED BY <1>2, <1>3, LaunchPrepared

LEMMA BagPrepared ==
  ASSUME plan = BagEntry(request), request.kind \in {"Forward", "GradWeights", "GradTable"}
  PROVE  PassesArePrepared
  <1> DEFINE
      r == request
      lanes == Bounds.bagLanes
      built == {<<"weighted_bag">>}
      passes == BagPasses(r)
  <1>1. plan = Entered(FirstOf(BagRefusals(r)), passes, 0, built)  BY DEF BagEntry
  <1>2. \A i \in DOMAIN passes : PassPrepared(passes[i], built)
    <2>1. CASE r.kind = "Forward"
      <3>1. PassPrepared(BagRun(r, 0, BagOutput(r), lanes), built)  BY <2>1, BagRunPrepared
      <3>2. passes = <<BagRun(r, 0, BagOutput(r), lanes)>>  BY <2>1 DEF BagPasses
      <3> QED BY <3>1, <3>2
    <2>2. CASE r.kind = "GradWeights"
      <3>1. PassPrepared(BagRun(r, 1, BagPairs(r), 1), built)  BY <2>2, BagRunPrepared
      <3>2. passes = <<BagRun(r, 1, BagPairs(r), 1)>>  BY <2>2 DEF BagPasses
      <3> QED BY <3>1, <3>2
    <2>3. CASE r.kind = "GradTable"
      <3>1. \A op \in 2..7 : \A units, per : PassPrepared(BagRun(r, op, units, per), built)
        BY <2>3, BagRunPrepared
      <3>2. passes = <<BagRun(r, 2, r.vocab + 1, lanes), BagRun(r, 3, BagPairs(r), lanes), BagRun(r, 4, 1, 1),
                       BagRun(r, 5, BagPairs(r), lanes), BagRun(r, 6, r.vocab, lanes), BagRun(r, 7, BagOutput(r), lanes)>>
        BY <2>3 DEF BagPasses
      <3> HIDE DEF built
      <3> QED BY <3>1, <3>2
    <2> QED BY <2>1, <2>2, <2>3
  <1> HIDE DEF passes, built
  <1> QED BY <1>1, <1>2, EnteredPrepared

LEMMA RoleRowTouch ==
  ASSUME NEW r, NEW at, NEW how, NEW row, NEW bytes, NEW t \in RoleRow(r, at, how, row, bytes)
  PROVE  t.at = at /\ t.how = how /\ RoleBytes(r, at) # 0
  BY DEF RoleRow, Span, Touch

LEMMA NormWrites ==
  ASSUME NEW r, r.kind = "Norm", r.rows \in Nat, r.d \in Nat, NEW at \in {"out0", "out1", "io2"}, RoleBytes(r, at) # 0
  PROVE  at \in Written(r)
  <1> DEFINE n == r.rows * r.d
  <1>1. n \in Nat  OBVIOUS
  <1> HIDE DEF n
  <1>2. RoleBytes(r, "out0") = (IF "Y32" \in r.flags THEN n * 4 ELSE 0) + 0 + 0
        /\ RoleBytes(r, "out1") = (IF "Y16" \in r.flags THEN n * 2 ELSE 0) + 0
        /\ RoleBytes(r, "io2") = (IF "Add" \in r.flags THEN n * 4 ELSE 0) + 0
    BY DEF RoleBytes, n, QkKinds
  <1>3. RoleBytes(r, at) \in Nat  BY <1>1, <1>2
  <1>4. RoleBytes(r, at) > 0  BY <1>3
  <1>5. Written(r) = {a \in {"out0", "out1", "io2"} : RoleBytes(r, a) > 0}  BY DEF Written, Backward
  <1> QED BY <1>4, <1>5

LEMMA NormRowTouched ==
  ASSUME NEW r, r.kind \in QkKinds \cup {"Norm", "NormBackward"}, r.rows \in Nat, r.d \in Nat,
         NEW row, NEW t \in NormRowTouches(r, row)
  PROVE  t.at \in Written(r) \/ (t.how = "read" /\ t.at \in Roles \ Written(r))
  <1> DEFINE
      half == r.kind \in QkKinds
      position == (row \div r.h) % r.t
      moved == OutRow(r, row)
      Fine(x) == x.at \in Written(r) \/ (x.how = "read" /\ x.at \in Roles \ Written(r))
  <1>1. Written(r) \subseteq {"out0", "out1", "io2"}  BY DEF Written, Backward, QkKinds
  <1>2. r.kind # "Norm" => Written(r) \subseteq {"out0", "out1"} /\ "out0" \in Written(r)
    BY DEF Written, Backward, QkKinds
  <1>3. \A f, n, b : \A x \in {Span("w", "read", f, n, b), Span("tab", "read", f, n, b)} : Fine(x)
    BY <1>1 DEF Span, Touch, Roles
  <1>4. ASSUME NEW at \in {"x", "aux", "dy"}, NEW rw, NEW b, NEW x \in RoleRow(r, at, "read", rw, b)
        PROVE  Fine(x)
    BY <1>1, RoleRowTouch DEF Roles
  <1>5. ASSUME NEW rw, NEW b, NEW x \in RoleRow(r, "out0", "write", rw, b) PROVE Fine(x)
    BY <1>2, RoleRowTouch, NormWrites
  <1>6. CASE r.kind = "Norm"
    <2>1. ASSUME NEW at \in {"out1", "io2"}, NEW rw, NEW b, NEW x \in RoleRow(r, at, "write", rw, b)
          PROVE  Fine(x)
      BY <1>6, RoleRowTouch, NormWrites
    <2> HIDE DEF Fine
    <2>2. Fine(t)  BY <1>3, <1>4, <1>5, <1>6, <2>1 DEF NormRowTouches, QkKinds
    <2> QED BY <2>2 DEF Fine
  <1>7. CASE r.kind = "NormBackward"
    <2>1. ASSUME NEW rw, NEW b, NEW x \in RoleRow(r, "io2", "read", rw, b) PROVE Fine(x)
      BY <1>2, <1>7, RoleRowTouch DEF Roles
    <2> HIDE DEF Fine
    <2>2. Fine(t)  BY <1>3, <1>4, <1>5, <1>7, <2>1 DEF NormRowTouches, QkKinds
    <2> QED BY <2>2 DEF Fine
  <1>8. CASE r.kind \in QkKinds
    <2> HIDE DEF Fine
    <2>1. Fine(t)  BY <1>3, <1>4, <1>5, <1>8 DEF NormRowTouches, QkKinds
    <2> QED BY <2>1 DEF Fine
  <1> QED BY <1>6, <1>7, <1>8

LEMMA NormPrepared ==
  ASSUME plan = NormEntry(request),
         request.kind \in QkKinds \cup {"Norm", "NormBackward"}, request.rows \in Nat, request.d \in Nat
  PROVE  PassesArePrepared
  <1> DEFINE
      r == request
      groups == NormGroups(r)
      x == Least(groups, MaxGroups)
      why == Either(FirstOf(NormRefusals(r)), IF CeilDiv(groups, x) > MaxGroups THEN "SIZE" ELSE "none")
      touches == [g \in 0..(groups - 1) |-> NormTouches(r, g)]
      reads == Roles \ Written(r)
      writes == Written(r)
  <1>1. ASSUME NEW v \in DOMAIN touches, NEW t \in touches[v]
        PROVE  t.at \in writes \/ (t.how = "read" /\ t.at \in reads)
    <2>1. t \in NormTouches(r, v)  OBVIOUS
    <2> HIDE DEF touches
    <2>2. CASE \E row : t \in NormRowTouches(r, row)  BY <2>2, NormRowTouched
    <2>3. CASE Backward(r) /\ t = Span("out1", "write", v * r.d, r.d, 4)
      BY <2>3 DEF Span, Touch, Written, Backward
    <2> QED BY <2>1, <2>2, <2>3 DEF NormTouches
  <1>2. Bound(touches, reads, writes)  BY <1>1 DEF Bound
  <1>3. plan = Entered(Either(why, FirstOf(StudentRefusals(r))),
          <<Launch(<<"student_norm">>, groups, 1, <<x, CeilDiv(groups, x), 1>>, touches, reads, writes)>>, 0, {<<"student_norm">>})
    BY DEF NormEntry
  <1>4. <<"student_norm">> \in Opened \cup {<<"student_norm">>}  OBVIOUS
  <1> HIDE DEF touches, reads, writes, why
  <1> QED BY <1>2, <1>3, <1>4, OneLaunchPrepared

LEMMA UploadPrepared ==
  ASSUME NEW at, NEW bytes, NEW built PROVE PassPrepared(Upload(at, bytes), built)
  <1> DEFINE touches == [u \in {0} |-> {Touch(at, "write", 0, bytes)}]
  <1>1. Bound(touches, {}, {at})  BY DEF Bound, Touch
  <1>2. <<"upload">> \in Opened \cup built  BY DEF Opened
  <1> HIDE DEF touches
  <1>3. PassPrepared(Launch(<<"upload">>, 1, 1, <<1, 1, 1>>, touches, {}, {at}), built)
    BY <1>1, <1>2, LaunchPrepared
  <1> QED BY <1>3 DEF Upload, touches

LEMMA LossPrepared ==
  ASSUME plan = LossEntry(request), request.kind \in LossKinds, request.primary16 \in BOOLEAN, request.out16 \in BOOLEAN
  PROVE  PassesArePrepared
  <1> DEFINE
      r == request
      rows == IF r.kind = "Reduce" THEN 1 ELSE r.rows
      half == r.primary16 \/ r.out16
      kernel == IF half THEN <<"loss_bf16", r.out16>> ELSE <<"loss">>
      touches == IF r.kind = "Reduce" THEN [u \in {0} |-> ReduceLoss(r)] ELSE [u \in 0..(rows - 1) |-> LossTouches(r, u)]
      reads == {"primary", "targets", "upstream"}
      built == IF half THEN {"loss_bf16"} \X BOOLEAN ELSE {}
      up == Upload("targets", 4 * r.rows)
      main == Launch(kernel, rows, 1, <<rows, 1, 1>>, touches, reads, {"out"})
      passes == <<up, main>>
  <1>1. ASSUME NEW v \in DOMAIN touches, NEW t \in touches[v]
        PROVE  t.at \in {"out"} \/ (t.how = "read" /\ t.at \in reads)
    <2>1. CASE r.kind = "Reduce" /\ t \in ReduceLoss(r)
      BY <2>1 DEF ReduceLoss, ElementTouch, Span, Touch
    <2>2. CASE r.kind # "Reduce" /\ t \in LossTouches(r, v)
      <3> HIDE DEF touches
      <3> QED BY <2>2 DEF LossTouches, LossKinds, ElementTouch, Span, Touch
    <2> QED BY <2>1, <2>2
  <1>2. Bound(touches, reads, {"out"})  BY <1>1 DEF Bound
  <1>3. plan = Entered(FirstOf(LossRefusals(r)), passes, 0, built)  BY DEF LossEntry
  <1>4. kernel \in Opened \cup built  BY DEF Opened
  <1>5. PassPrepared(up, built)  BY UploadPrepared
  <1> HIDE DEF touches, reads, built, kernel
  <1>6. PassPrepared(main, built)  BY <1>2, <1>4, LaunchPrepared
  <1> HIDE DEF up, main
  <1>7. \A i \in DOMAIN passes : PassPrepared(passes[i], built)  BY <1>5, <1>6
  <1> HIDE DEF passes
  <1> QED BY <1>3, <1>7, EnteredPrepared

LEMMA EmbeddingPrepared ==
  ASSUME plan = EmbeddingEntry(request) PROVE PassesArePrepared
  <1> DEFINE
      r == request
      units == OutElements(r)
      touches == [i \in 0..(units - 1) |-> EmbeddingTouches(r, i)]
      reads == {"primary", "indices", "offsets"}
      built == {}
      indices == Upload("indices", IndexImage(r))
      offsets == Upload("offsets", OffsetImage(r))
      main == Launch(<<"embedding">>, units, Limit.lanes, <<CeilDiv(units, Limit.lanes), 1, 1>>, touches, reads, {"out"})
      passes == <<indices, offsets, main>>
  <1>1. ASSUME NEW v \in DOMAIN touches, NEW t \in touches[v]
        PROVE  t.at \in {"out"} \/ (t.how = "read" /\ t.at \in reads)
    <2>1. t \in EmbeddingTouches(r, v)  OBVIOUS
    <2> HIDE DEF touches
    <2> QED BY <2>1 DEF EmbeddingTouches, ElementTouch, Span, Touch
  <1>2. Bound(touches, reads, {"out"})  BY <1>1 DEF Bound
  <1>3. plan = Entered(FirstOf(EmbeddingRefusals(r)), passes, 0, built)  BY DEF EmbeddingEntry
  <1>4. <<"embedding">> \in Opened \cup built  BY DEF Opened
  <1>5. PassPrepared(indices, built) /\ PassPrepared(offsets, built)  BY UploadPrepared
  <1> HIDE DEF touches, reads, built
  <1>6. PassPrepared(main, built)  BY <1>2, <1>4, LaunchPrepared
  <1> HIDE DEF indices, offsets, main
  <1>7. \A i \in DOMAIN passes : PassPrepared(passes[i], built)  BY <1>5, <1>6
  <1> HIDE DEF passes
  <1> QED BY <1>3, <1>7, EnteredPrepared

LEMMA ProductPrepared ==
  ASSUME plan = ProductEntry(request) PROVE PassesArePrepared
  <1> DEFINE
      r == request
      groups == ProductGroups(r)
      touches == [u \in 0..(GroupCount(groups) - 1) |-> ProductTouches(r, u)]
      reads == {"a", "b"}
      built == {}
      kernel == <<"matmul_f32", IF Plain(r) THEN "v2" ELSE "v1">>
      why == FirstOf(<< <<Shared(r, {"c"}, {"a", "b"}), "SHAPE">> >>
               \o (MatrixViewRefusals(r, "a") \o MatrixViewRefusals(r, "b") \o MatrixViewRefusals(r, "c"))
               \o ProductRefusals(r) \o GridRefusals(ProductGroups(r)))
  <1>1. ASSUME NEW v \in DOMAIN touches, NEW t \in touches[v]
        PROVE  t.at \in {"c"} \/ (t.how = "read" /\ t.at \in reads)
    <2>1. t \in ProductTouches(r, v)  OBVIOUS
    <2> HIDE DEF touches
    <2> QED BY <2>1 DEF ProductTouches, WordTouch, Touch
  <1>2. Bound(touches, reads, {"c"})  BY <1>1 DEF Bound
  <1>3. plan = Entered(why, <<Launch(kernel, GroupCount(groups), 1, groups, touches, reads, {"c"})>>, 0, built)
    BY DEF ProductEntry, Products
  <1>4. kernel \in Opened \cup built  BY DEF Opened
  <1> HIDE DEF touches, reads, built, kernel, why
  <1> QED BY <1>2, <1>3, <1>4, OneLaunchPrepared

LEMMA BothListsRefuseNothing ==
  ASSUME NEW T, NEW a \in Seq(T), NEW b \in Seq(T), \A x \in T : x[2] # "none",
         FirstOf(a \o b) = "none", NEW i \in DOMAIN a
  PROVE  ~a[i][1]
  <1>1. a \o b \in Seq(T) /\ i \in DOMAIN (a \o b) /\ (a \o b)[i] = a[i]  OBVIOUS
  <1> DEFINE refusals == a \o b
  <1>2. DOMAIN refusals \subseteq Nat /\ \A j \in DOMAIN refusals : refusals[j] \in T  BY <1>1
  <1>3. refusals \in Seq(T) /\ i \in DOMAIN refusals /\ refusals[i] = a[i] /\ FirstOf(refusals) = "none"
    BY <1>1
  <1> HIDE DEF refusals
  <1>4. Listed(refusals)  BY <1>2 DEF Listed
  <1> QED BY <1>3, <1>4, NothingRefused

\* A kernel of the set a device that has bf16 opens.
LEMMA ModuleInSet ==
  ASSUME NEW r PROVE ModuleIndex(r) \in 0..(SetLength(r) - 1)
  <1>1. SetLength(r) \in {8, 12} /\ Layout(r) \in 0..3  BY DEF SetLength, Layout
  <1>2. CASE BandIndex(r) = {}  BY <1>1, <1>2 DEF ModuleIndex
  <1>3. CASE BandIndex(r) # {}
    <2>1. BandIndex(r) = {8 + Layout(r)} /\ SetLength(r) = 12  BY <1>1, <1>3 DEF BandIndex
    <2>2. ModuleIndex(r) = 8 + Layout(r)  BY <2>1 DEF ModuleIndex
    <2> QED BY <1>1, <2>1, <2>2
  <1> QED BY <1>2, <1>3

LEMMA OpenedForHalf ==
  ASSUME request.entry \in {"dense", "z", "half", "halfz"}, request.elem = "bf16", ~ToHalf(request),
         FirstOf(HalfRefusals(request) \o GridRefusals(HalfGroups(request))) = "none"
  PROVE  "bf16" \in request.device
  <1> DEFINE
      r == request
      zero == <<0 \in {r.m, r.n, r.k}, "SHAPE">>
      depth == <<r.z \notin 1..MaxGroups, "SHAPE">>
      narrow == <<\E at \in {"a", "b"} : Pitch(r, at) < Stored(r, at)[2], "SHAPE">>
      mode == <<r.zmode > 1, "SHAPE">>
      strides == <<IF r.zmode = 1 THEN SplitRefused(r) ELSE NarrowStrides(r), "SHAPE">>
      lacks == <<r.elem = "f16" /\ ~Capable(r), "UNSUPPORTED">>
      span == SpanRefusal(r)
      alias == AliasRefusal(r)
      absent == <<~Capable(r), "UNSUPPORTED">>
      wide == LET groups == HalfGroups(r) IN
              <<groups[1] > Mats.gridX \/ groups[2] > MaxGroups \/ groups[3] > MaxGroups, "UNSUPPORTED">>
      T == {zero, depth, narrow, mode, strides, lacks, span, alias, absent, wide}
      a == HalfRefusals(r)
      b == GridRefusals(HalfGroups(r))
  <1>1. /\ zero[2] # "none" /\ depth[2] # "none" /\ narrow[2] # "none" /\ mode[2] # "none" /\ strides[2] # "none"
        /\ lacks[2] # "none" /\ absent[2] # "none" /\ wide[2] # "none"
    OBVIOUS
  <1>2. span[2] # "none" /\ alias[2] # "none"  BY DEF SpanRefusal, AliasRefusal
  <1>3. r.entry \in {"dense", "z"}  BY DEF ToHalf
  <1>4. b = <<wide>>  BY DEF GridRefusals
  <1>5. ~absent[1] => "bf16" \in r.device  BY DEF Capable
  <1>6. r.entry = "dense" => a = <<zero, lacks, span, absent>>  BY DEF HalfRefusals
  <1>7. r.entry = "z" => a = <<zero, depth, mode, narrow, strides, lacks, alias, span, absent>>
    BY DEF HalfRefusals
  <1>8. FirstOf(a \o b) = "none"  OBVIOUS
  <1> HIDE DEF a, b, zero, depth, narrow, mode, strides, lacks, span, alias, absent, wide
  <1>9. \A x \in T : x[2] # "none"  BY <1>1, <1>2
  <1>10. b \in Seq(T)  BY <1>4
  <1>11. a \in Seq(T) /\ Len(a) \in DOMAIN a /\ a[Len(a)] = absent
    <2>1. CASE r.entry = "dense"
      <3>1. a = <<zero, lacks, span, absent>>  BY <1>6, <2>1
      <3> QED BY <3>1
    <2>2. CASE r.entry = "z"
      <3>1. a = <<zero, depth, mode, narrow, strides, lacks, alias, span, absent>>  BY <1>7, <2>2
      <3> QED BY <3>1
    <2> QED BY <1>3, <2>1, <2>2
  <1> HIDE DEF T
  <1>12. ~absent[1]  BY <1>8, <1>9, <1>10, <1>11, BothListsRefuseNothing
  <1> QED BY <1>5, <1>12

LEMMA HalfTouched ==
  ASSUME NEW r, NEW groups, NEW index, NEW u, NEW t \in HalfTouches(r, groups, index, u)
  PROVE  t.at \in {"c"} \/ (t.how = "read" /\ t.at \in {"a", "b"})
  <1>1. \/ \E z, rows, terms : t \in LeftRead(r, index, z, rows, terms)
        \/ \E z, cols, terms : t \in RightRead(r, index, z, cols, terms)
        \/ \E z, written : t \in ProductWritten(r, z, written)
    BY DEF HalfTouches
  <1>2. \A z, name, row, col : HalfRead(r, index, z, name, row, col).at = name /\ HalfRead(r, index, z, name, row, col).how = "read"
    BY DEF HalfRead, ElementTouch, Touch
  <1>3. \A z, i, j : HalfWritten(r, z, i, j).at = "c"  BY DEF HalfWritten, WordTouch, Touch
  <1> QED BY <1>1, <1>2, <1>3 DEF LeftRead, RightRead, ProductWritten

LEMMA HalfPrepared ==
  ASSUME plan = HalfEntry(request), request.op = "matmul_16", request.entry \in {"dense", "z", "half", "halfz"}
  PROVE  PassesArePrepared
  <1> DEFINE
      r == request
      groups == HalfGroups(r)
      index == ModuleIndex(r)
      touches == [u \in 0..(GroupCount(groups) - 1) |-> HalfTouches(r, groups, index, u)]
      reads == {"a", "b"}
      kernel == <<r.elem, ToHalf(r), index>>
      built == IF r.elem = "bf16" /\ ~ToHalf(r) THEN {} ELSE ModuleSet(r)
      why == FirstOf(HalfRefusals(r) \o GridRefusals(HalfGroups(r)))
  <1>1. ASSUME NEW v \in DOMAIN touches, NEW t \in touches[v]
        PROVE  t.at \in {"c"} \/ (t.how = "read" /\ t.at \in reads)
    <2>1. t \in HalfTouches(r, groups, index, v)  OBVIOUS
    <2> HIDE DEF touches, groups, index
    <2> QED BY <2>1, HalfTouched
  <1>2. Bound(touches, reads, {"c"})  BY <1>1 DEF Bound
  <1>3. plan = Entered(why, <<Launch(kernel, GroupCount(groups), 1, groups, touches, reads, {"c"})>>, 0, built)
    BY DEF HalfEntry, Products
  <1>4. index \in 0..(SetLength(r) - 1)  BY ModuleInSet
  <1>5. why = "none" => kernel \in Opened \cup built
    <2>1. CASE r.elem = "bf16" /\ ~ToHalf(r)
      <3>1. ToHalf(r) = FALSE  BY <2>1 DEF ToHalf
      <3>2. why = "none" => "bf16" \in r.device  BY <2>1, OpenedForHalf
      <3>3. "bf16" \in r.device => {<<"bf16", FALSE, i>> : i \in 0..(SetLength(r) - 1)} \subseteq Opened
        BY DEF Opened
      <3>4. kernel \in {<<"bf16", FALSE, i>> : i \in 0..(SetLength(r) - 1)}  BY <1>4, <2>1, <3>1
      <3> QED BY <3>2, <3>3, <3>4
    <2>2. CASE ~(r.elem = "bf16" /\ ~ToHalf(r))  BY <1>4, <2>2 DEF ModuleSet
    <2> QED BY <2>1, <2>2
  <1> HIDE DEF touches, reads, built, kernel, why, groups
  <1> QED BY <1>2, <1>3, <1>5, OneLaunchPrepared

LEMMA QueryTouched ==
  ASSUME NEW r, NEW backward \in BOOLEAN, NEW x, NEW h, NEW b, NEW t \in QueryTouches(r, backward, x, h, b)
  PROVE  \/ t.at \in (IF backward THEN {"dq"} ELSE {"o", "lse"})
         \/ t.how = "read" /\ t.at \in (IF backward THEN {"q", "k", "v", "o", "g", "lse"} ELSE {"q", "k", "v"})
  BY DEF QueryTouches, QueryReads, LseReads, KeyReads, RowWrites, RowTouch, WordTouch, Span, Touch

LEMMA KeyTouched ==
  ASSUME NEW r, NEW block, NEW hk, NEW b, NEW t \in KeyTouches(r, block, hk, b)
  PROVE  t.at \in {"dk", "dv"} \/ (t.how = "read" /\ t.at \in {"q", "k", "v", "o", "g", "lse"})
  BY DEF KeyTouches, QueryReads, LseReads, KeyReads, RowWrites, RowTouch, WordTouch, Span, Touch

LEMMA QueryPassPrepared ==
  ASSUME NEW r, NEW half, NEW writes,
         r.backward \in BOOLEAN,
         IF r.backward THEN half = "dq" /\ writes = {"dq"} ELSE half = "fwd" /\ writes = {"o", "lse"}
  PROVE  PassPrepared(QueryPass(r, half, writes), {AttentionKernel(r, k) : k \in {"fwd", "dq", "dkdv"}})
  <1> DEFINE
      groups == QueryGroups(r)
      touches == [u \in 0..(GroupCount(groups) - 1) |->
         QueryTouches(r, half = "dq", GroupAt(groups, u)[1], GroupAt(groups, u)[2], GroupAt(groups, u)[3])]
      reads == AttentionReads(r)
      built == {AttentionKernel(r, k) : k \in {"fwd", "dq", "dkdv"}}
      kernel == AttentionKernel(r, half)
      back == half = "dq"
  <1>1. back \in BOOLEAN /\ (back <=> r.backward)  OBVIOUS
  <1>2. ASSUME NEW v \in DOMAIN touches, NEW t \in touches[v]
        PROVE  t.at \in writes \/ (t.how = "read" /\ t.at \in reads)
    <2>1. t \in QueryTouches(r, back, GroupAt(groups, v)[1], GroupAt(groups, v)[2], GroupAt(groups, v)[3])
      OBVIOUS
    <2> HIDE DEF touches, groups, back
    <2> QED BY <1>1, <2>1, QueryTouched DEF AttentionReads
  <1>3. Bound(touches, reads, writes)  BY <1>2 DEF Bound
  <1>4. kernel \in Opened \cup built  OBVIOUS
  <1> HIDE DEF touches, reads, built, kernel
  <1>5. PassPrepared(Launch(kernel, GroupCount(groups), 1, groups, touches, reads, writes), built)
    BY <1>3, <1>4, LaunchPrepared
  <1> QED BY <1>5 DEF QueryPass, touches, reads, built, kernel

LEMMA KeyPassPrepared ==
  ASSUME NEW r, r.backward = TRUE
  PROVE  PassPrepared(KeyPass(r), {AttentionKernel(r, k) : k \in {"fwd", "dq", "dkdv"}})
  <1> DEFINE
      groups == KeyGroups(r)
      touches == [u \in 0..(GroupCount(groups) - 1) |->
         KeyTouches(r, GroupAt(groups, u)[1], GroupAt(groups, u)[2], GroupAt(groups, u)[3])]
      reads == AttentionReads(r)
      built == {AttentionKernel(r, k) : k \in {"fwd", "dq", "dkdv"}}
      kernel == AttentionKernel(r, "dkdv")
  <1>2. ASSUME NEW v \in DOMAIN touches, NEW t \in touches[v]
        PROVE  t.at \in {"dk", "dv"} \/ (t.how = "read" /\ t.at \in reads)
    <2>1. t \in KeyTouches(r, GroupAt(groups, v)[1], GroupAt(groups, v)[2], GroupAt(groups, v)[3])
      OBVIOUS
    <2> HIDE DEF touches, groups
    <2> QED BY <2>1, KeyTouched DEF AttentionReads
  <1>3. Bound(touches, reads, {"dk", "dv"})  BY <1>2 DEF Bound
  <1>4. kernel \in Opened \cup built  OBVIOUS
  <1> HIDE DEF touches, reads, built, kernel
  <1>5. PassPrepared(Launch(kernel, GroupCount(groups), 1, groups, touches, reads, {"dk", "dv"}), built)
    BY <1>3, <1>4, LaunchPrepared
  <1> QED BY <1>5 DEF KeyPass, touches, reads, built, kernel

LEMMA AttentionPrepared ==
  ASSUME plan = AttentionEntry(request), request.backward \in BOOLEAN PROVE PassesArePrepared
  <1> DEFINE
      r == request
      query == QueryPass(r, IF r.backward THEN "dq" ELSE "fwd", IF r.backward THEN {"dq"} ELSE {"o", "lse"})
      key == KeyPass(r)
      passes == IF r.backward THEN <<query, key>> ELSE <<query>>
      built == {AttentionKernel(r, k) : k \in {"fwd", "dq", "dkdv"}}
  <1>1. plan = Entered(FirstOf(AttentionRefusals(r)), passes, 0, built)  BY DEF AttentionEntry
  <1>2. PassPrepared(query, built)  BY QueryPassPrepared
  <1>3. r.backward => PassPrepared(key, built)  BY KeyPassPrepared
  <1> HIDE DEF query, key, built
  <1>4. \A i \in DOMAIN passes : PassPrepared(passes[i], built)  BY <1>2, <1>3
  <1> HIDE DEF passes
  <1> QED BY <1>1, <1>4, EnteredPrepared

LEMMA ReduceTouched ==
  ASSUME NEW r, NEW kernel \in {"v1", "v2", "v3"}, NEW module, NEW v, NEW mask, NEW law, NEW from, NEW to, NEW in, NEW out,
         NEW built, <<kernel, module>> \in Opened \cup built
  PROVE  PassPrepared(ReducePass(r, kernel, module, v, mask, law, from, to, in, out), built)
  <1> DEFINE
      kept == Kept(v, mask)
      reduced == ReducedCount(v, mask)
      rows == KeptCount(v, mask) * law.splits
      lanes == V3Lanes(Least(law.chunk, reduced), rows)
      Strided(base, split) == {ElementTouch(from, "read", base + Stepped(v, mask, q), in) : q \in Part(split, law, reduced)}
      Row(q) ==
        {ElementTouch(to, "write", q, out)} \cup
        IF kernel = "v1" THEN Strided(v.offset + Stepped(v, kept, q \div law.splits), q % law.splits)
        ELSE {ElementTouch(from, "read", v.offset + Stepped(v, kept, q \div law.splits) + i, in) :
                i \in Part(q % law.splits, law, reduced)}
      Fine(t) == t.at \in {to} \/ (t.how = "read" /\ t.at \in {from})
      p == ReducePass(r, kernel, module, v, mask, law, from, to, in, out)
  <1>1. ASSUME NEW base, NEW split, NEW t \in Strided(base, split) PROVE Fine(t)
    BY DEF ElementTouch, Touch
  <1>2. \A base, split : \A t \in Strided(base, split) : Fine(t)  BY <1>1
  <1>3. \A e : Fine(ElementTouch(to, "write", e, out)) /\ Fine(ElementTouch(from, "read", e, in))
    BY DEF ElementTouch, Touch
  <1> HIDE DEF Fine, Strided
  <1>4. ASSUME NEW q, NEW t \in Row(q) PROVE Fine(t)  BY <1>2, <1>3
  <1>5. CASE kernel \in {"v1", "v3"}
    <2> DEFINE
        touches == [u \in 0..(rows - 1) |-> Row(u)]
        per == IF kernel = "v1" THEN 1 ELSE Law.lanes \div lanes
        groups == CeilDiv(rows, Law.lanes \div lanes)
        x == Least(groups, MaxGroups)
        grid == IF kernel = "v1" THEN <<rows, 1, 1>> ELSE <<x, CeilDiv(groups, Most(x, 1)), 1>>
    <2>1. p = Launch(<<kernel, module>>, rows, per, grid, touches, {from}, {to})
      BY <1>5 DEF ReducePass, Strided
    <2>2. ASSUME NEW u \in DOMAIN touches, NEW t \in touches[u] PROVE Fine(t)
      <3>1. t \in Row(u)  OBVIOUS
      <3> QED BY <1>4, <3>1
    <2> HIDE DEF touches, per, grid
    <2>3. Bound(touches, {from}, {to})  BY <2>2 DEF Bound, Fine
    <2> QED BY <2>1, <2>3, LaunchPrepared
  <1>6. CASE kernel = "v2"
    <2> DEFINE
        g == CHOOSE x \in law.v2 : TRUE
        tiles == CeilDiv(g.wide, g.tile)
        units == tiles * law.splits * g.outer
        Column(w, c, outer) ==
          Stepped(w, kept \ g.flat, outer) + (c % v.shape[g.cdim]) * w.stride[g.cdim]
            + MapThenSumSet(LAMBDA d : (c \div v.shape[g.cdim]) * w.stride[d], g.flat \ {g.cdim})
        written == [v EXCEPT !.stride = [d \in DOMAIN v.shape |-> Extent(v, {e \in kept : e > d})]]
        Cols(u) == ((u % tiles) * g.tile)..(Least((u % tiles) * g.tile + g.tile, g.wide) - 1)
        SplitOf(u) == (u \div tiles) % law.splits
        OuterOf(u) == u \div (tiles * law.splits)
        Each(u, c) == Strided(v.offset + Column(v, c, OuterOf(u)), SplitOf(u))
              \cup {ElementTouch(to, "write", Column(written, c, OuterOf(u)) * law.splits + SplitOf(u), out)}
        Grouped(u) == UNION {Each(u, c) : c \in Cols(u)}
        touches == [u \in 0..(units - 1) |-> Grouped(u)]
        grid == <<tiles, law.splits, g.outer>>
    <2>1. p = Launch(<<kernel, module>>, units, 1, grid, touches, {from}, {to})
      BY <1>6 DEF ReducePass, Strided
    <2>2. ASSUME NEW u, NEW c, NEW t \in Each(u, c) PROVE Fine(t)  BY <1>2, <1>3
    <2> HIDE DEF Each
    <2>3. ASSUME NEW u \in DOMAIN touches, NEW t \in touches[u] PROVE Fine(t)
      <3>1. t \in Grouped(u)  OBVIOUS
      <3>2. PICK c \in Cols(u) : t \in Each(u, c)  BY <3>1
      <3> QED BY <2>2, <3>2
    <2> HIDE DEF touches, grid, units
    <2>4. Bound(touches, {from}, {to})  BY <2>3 DEF Bound, Fine
    <2> QED BY <2>1, <2>4, LaunchPrepared
  <1> QED BY <1>5, <1>6

LEMMA SplitKernels ==
  ASSUME NEW r, r.v1Only \in BOOLEAN, r.f64 \in BOOLEAN
  PROVE  /\ ReduceSplit(r).kernel \in {"v1", "v2", "v3"}
         /\ r.v1Only \/ r.f64 => ReduceSplit(r).kernel = "v1"
  BY DEF ReduceSplit

LEMMA ReduceBuilt ==
  ASSUME NEW r, NEW kernel \in {"v1", "v2", "v3"}, NEW in \in BOOLEAN, NEW out \in BOOLEAN,
         r.v1Only \in BOOLEAN, r.f64 \in BOOLEAN, r.in16 \in BOOLEAN, r.out16 \in BOOLEAN,
         r.v1Only \/ r.f64 => kernel = "v1", in => r.in16, out => r.out16
  PROVE  <<kernel, ReduceModule(r, in, out)>> \in Opened \cup ReduceKernels(r)
  <1>1. CASE r.f64  BY <1>1 DEF ReduceModule, ReduceKernels
  <1>2. CASE ~r.f64
    <2>1. ReduceModule(r, in, out) = <<in, out>>  BY <1>2 DEF ReduceModule
    <2>2. CASE in \/ out
      <3>1. <<in, out>> \in {<<TRUE, FALSE>>, <<FALSE, TRUE>>, <<TRUE, TRUE>>}  BY <2>2
      <3> QED BY <2>1, <2>2, <3>1 DEF ReduceKernels
    <2>3. CASE ~in /\ ~out
      <3>1. <<in, out>> = <<FALSE, FALSE>>  BY <2>3
      <3>2. CASE kernel \in {"v1", "v2"}  BY <2>1, <3>1, <3>2 DEF Opened
      <3>3. CASE kernel = "v3"  BY <1>2, <2>1, <3>1, <3>3 DEF ReduceKernels
      <3> QED BY <3>2, <3>3
    <2> QED BY <2>2, <2>3
  <1> QED BY <1>1, <1>2

LEMMA ReducePrepared ==
  ASSUME plan = ReduceEntry(request), request.v1Only \in BOOLEAN, request.f64 \in BOOLEAN,
         request.in16 \in BOOLEAN, request.out16 \in BOOLEAN
  PROVE  PassesArePrepared
  <1> DEFINE
      r == request
      why == Either(FirstOf(ReduceRefusals(r)), FirstOf(SplitRefusals(r)))
      scratch == IF ReduceSplit(r).splits > 1
                 THEN KeptCount(r.view, r.mask) * ReduceSplit(r).splits * (IF r.f64 THEN 2 ELSE 1) ELSE 0
      built == ReduceKernels(r)
      law == ReduceSplit(r)
      kept == KeptCount(r.view, r.mask)
      wide == IF r.f64 THEN 8 ELSE 4
      partials == IF r.partials /\ Room(r, "partials", kept * law.splits * wide) THEN "partials" ELSE "scratch"
      combined == [shape |-> <<kept, law.splits>>, stride |-> <<law.splits, 1>>, offset |-> 0]
      last == [splits |-> 1, chunk |-> law.splits]
      second == IF ~r.v1Only /\ ~r.f64 /\ law.splits <= Law.rowMax THEN "v3" ELSE "v1"
      whole == ReducePass(r, law.kernel, ReduceModule(r, r.in16, r.out16), r.view, r.mask, law, "x", "out",
                 ReduceBytes(r, r.in16), ReduceBytes(r, r.out16))
      parts == ReducePass(r, law.kernel, ReduceModule(r, r.in16, FALSE), r.view, r.mask, law, "x", partials,
                 ReduceBytes(r, r.in16), wide)
      sums == ReducePass(r, second, ReduceModule(r, FALSE, r.out16), combined, {2}, last, partials, "out",
                 wide, ReduceBytes(r, r.out16))
      passes == IF ~(law.splits > 1) THEN <<whole>> ELSE <<parts, sums>>
  <1>1. plan = Entered(why, passes, scratch, built)  BY DEF ReduceEntry, ReducePasses
  <1>2. law.kernel \in {"v1", "v2", "v3"} /\ (r.v1Only \/ r.f64 => law.kernel = "v1")  BY SplitKernels
  <1>3. second \in {"v1", "v2", "v3"} /\ (r.v1Only \/ r.f64 => second = "v1")  OBVIOUS
  <1> HIDE DEF law, second, built
  <1>4. /\ <<law.kernel, ReduceModule(r, r.in16, r.out16)>> \in Opened \cup built
        /\ <<law.kernel, ReduceModule(r, r.in16, FALSE)>> \in Opened \cup built
        /\ <<second, ReduceModule(r, FALSE, r.out16)>> \in Opened \cup built
    BY <1>2, <1>3, ReduceBuilt DEF built
  <1> HIDE DEF partials, combined, last, wide, kept
  <1>5. PassPrepared(whole, built)  BY <1>2, <1>4, ReduceTouched
  <1>7. PassPrepared(parts, built)  BY <1>2, <1>4, ReduceTouched
  <1>8. PassPrepared(sums, built)  BY <1>3, <1>4, ReduceTouched
  <1> HIDE DEF whole, parts, sums
  <1>6. \A i \in DOMAIN passes : PassPrepared(passes[i], built)  BY <1>5, <1>7, <1>8
  <1> HIDE DEF passes
  <1> QED BY <1>1, <1>6, EnteredPrepared

----------------------------------------
(* Prepared: conversion and pointwise.                                     *)

LEMMA DeclaringFields ==
  ASSUME NEW pass, NEW reads, NEW writes, NEW p, p = Declaring(pass, reads, writes)
  PROVE  p.kernel = pass.kernel /\ p.touches = pass.touches /\ p.reads = reads /\ p.writes = writes
  BY DEF Declaring

LEMMA PassFields ==
  ASSUME NEW kernel, NEW units, NEW per, NEW groups, NEW touches, NEW p, p = Pass(kernel, units, per, groups, touches)
  PROVE  p.kernel = kernel /\ p.units = units /\ p.per = per /\ p.groups = groups /\ p.touches = touches
  BY DEF Pass

LEMMA DeclaredPrepared ==
  ASSUME NEW pass, NEW reads, NEW writes, NEW built, Bound(pass.touches, reads, writes), pass.kernel \in Opened \cup built
  PROVE  PassPrepared(Declaring(pass, reads, writes), built)
  BY DeclaringFields DEF PassPrepared

LEMMA CodedPlan ==
  ASSUME NEW answer, NEW sizes
  PROVE  /\ Admitted(answer) => Coded(answer, sizes) = answer
         /\ ~Admitted(answer) => Coded(answer, sizes) \in {Refused("SIZE"), Refused("SHAPE")}
  BY DEF Coded

LEMMA RefusalIsRefused ==
  ASSUME NEW why, why # "none" PROVE ~Admitted(Refused(why))
  BY DEF Admitted, Refused

LEMMA PlannedFields ==
  ASSUME NEW passes, NEW scratch, NEW p, p = PlannedWith(passes, scratch)
  PROVE  Admitted(p) /\ p.passes = passes /\ p.scratch = scratch
  BY DEF Admitted, PlannedWith

LEMMA ConvertBound ==
  ASSUME NEW r, NEW u, NEW t \in ConvertTouches(r, ConvertLayout(r), u)
  PROVE  t.at \in {"out"} \/ (t.how = "read" /\ t.at \in {"x"})
  <1> DEFINE g == ConvertLayout(r)
             Fine(x) == x.at \in {"out"} \/ (x.how = "read" /\ x.at \in {"x"})
  <1>1. g.way \in {"tiled", "whole", "element", "exclusive", "atomic"}  BY DEF ConvertLayout
  <1>2. t \in ConvertTouches(r, g, u)  OBVIOUS
  <1> HIDE DEF g
  <1> DEFINE
      InOf(l) == Address(View(r.input.offset, g.m.in), Coordinates(l, g.m.extents))
      OutOf(l) == Address(View(r.out.offset, g.m.out), Coordinates(l, g.m.extents))
      From1(l) == ElementTouch("x", "read", InOf(l), Bytes(r.from))
  <1>3. \A l : Fine(From1(l))  BY DEF ElementTouch, Touch
  <1>4. \A how, e, b : Fine(ElementTouch("out", how, e, b))  BY DEF ElementTouch, Touch
  <1>5. \A how, e : Fine(WordTouch("out", how, e))  BY DEF WordTouch, Touch
  <1> HIDE DEF Fine
  <1>6. CASE g.way = "element"
    <2>1. t = From1(u) \/ t = ElementTouch("out", "write", OutOf(u), g.es)
      BY <1>2, <1>6 DEF ConvertTouches
    <2> HIDE DEF From1
    <2>2. Fine(t)  BY <1>3, <1>4, <2>1
    <2> QED BY <2>2 DEF Fine
  <1>7. CASE g.way = "exclusive"
    <2>1. t = From1(u) \/ t = WordTouch("out", "write", OutOf(u) \div g.slots)
      BY <1>2, <1>7 DEF ConvertTouches
    <2> HIDE DEF From1
    <2>2. Fine(t)  BY <1>3, <1>5, <2>1
    <2> QED BY <2>2 DEF Fine
  <1>8. CASE g.way = "atomic"
    <2>1. t = From1(u) \/ t = ElementTouch("out", "write", OutOf(u), 2) \/ t = WordTouch("out", "atomic", OutOf(u) \div g.slots)
      BY <1>2, <1>8 DEF ConvertTouches
    <2> HIDE DEF From1
    <2>2. Fine(t)  BY <1>3, <1>4, <1>5, <2>1
    <2> QED BY <2>2 DEF Fine
  <1>9. CASE g.way = "whole"
    <2>1. (\E l : t = From1(l)) \/ t = WordTouch("out", "write", r.out.offset \div g.slots + u)
      BY <1>2, <1>9 DEF ConvertTouches
    <2> HIDE DEF From1
    <2>2. Fine(t)  BY <1>3, <1>5, <2>1
    <2> QED BY <2>2 DEF Fine
  <1>10. CASE g.way = "tiled"
    <2>1. (\E l : t = From1(l)) \/ (\E w : t = WordTouch("out", "write", w))
      BY <1>2, <1>10 DEF ConvertTouches
    <2> HIDE DEF From1
    <2>2. Fine(t)  BY <1>3, <1>5, <2>1
    <2> QED BY <2>2 DEF Fine
  <1> QED BY <1>1, <1>6, <1>7, <1>8, <1>9, <1>10

LEMMA ConvertPrepared ==
  ASSUME plan = ConvertEntry(request) PROVE PassesArePrepared
  <1> DEFINE
      r == request
      answer == ConvertPlan(r)
      coded == Coded(answer, {"AddressOverflow"})
  <1>1. CASE Admitted(answer)
    <2> DEFINE
        g == ConvertLayout(r)
        across == CeilDiv(g.cols, Tile)
        units == IF g.way = "tiled" THEN across * CeilDiv(g.rows, Tile) ELSE g.units
        touches == [u \in 0..(units - 1) |-> ConvertTouches(r, g, u)]
        kernel == <<"convert", IF g.way = "tiled" THEN "tiled" ELSE "plain">>
        pass == Pass(kernel, units, IF g.way = "tiled" THEN 1 ELSE PerGroup,
                   IF g.way = "tiled" THEN <<across, CeilDiv(g.rows, Tile), 1>> ELSE Folded(units, PerGroup), touches)
        built == {kernel}
        passes == [i \in DOMAIN <<pass>> |-> Declaring(<<pass>>[i], {"x"}, {"out"})]
    <2>1. FirstOf(ConvertRefusals(r)) = "none"  BY <1>1, RefusalIsRefused DEF ConvertPlan
    <2>2. answer = PlannedWith(<<pass>>, 0)  BY <2>1 DEF ConvertPlan, Planned
    <2>3. ASSUME NEW u \in DOMAIN touches, NEW t \in touches[u]
          PROVE  t.at \in {"out"} \/ (t.how = "read" /\ t.at \in {"x"})
      <3>1. t \in ConvertTouches(r, ConvertLayout(r), u)  OBVIOUS
      <3> QED BY <3>1, ConvertBound
    <2>4. Bound(touches, {"x"}, {"out"})  BY <2>3 DEF Bound
    <2> HIDE DEF touches, kernel, units, g
    <2>5. pass.kernel = kernel /\ pass.touches = touches  BY PassFields
    <2> HIDE DEF pass
    <2>6. answer.passes = <<pass>> /\ answer.scratch = 0 /\ coded = answer
      BY <1>1, <2>2, PlannedFields, CodedPlan
    <2>7. ConvertEntry(r) = Recorded(coded, {coded.passes[1].kernel}, LAMBDA i, p : Declaring(p, {"x"}, {"out"}))
      BY DEF ConvertEntry
    <2> HIDE DEF answer, coded
    <2>8. plan = Answered(passes, 0, built)  BY <1>1, <2>5, <2>6, <2>7 DEF Recorded
    <2>9. PassPrepared(Declaring(pass, {"x"}, {"out"}), built)  BY <2>4, <2>5, DeclaredPrepared
    <2>10. \A i \in DOMAIN passes : PassPrepared(passes[i], built)  BY <2>9
    <2> HIDE DEF passes, built
    <2> QED BY <2>8, <2>10, AnsweredPrepared
  <1>2. CASE ~Admitted(answer)
    <2>1. coded \in {Refused("SIZE"), Refused("SHAPE")}  BY <1>2, CodedPlan
    <2>2. ~Admitted(coded)  BY <2>1, RefusalIsRefused
    <2>3. plan = coded  BY <2>2 DEF ConvertEntry, Recorded
    <2> QED BY <2>1, <2>3, RefusedPrepared
  <1> QED BY <1>1, <1>2

LEMMA PointwisePrepared ==
  ASSUME plan = PointwiseEntry(request) PROVE PassesArePrepared
  <1> DEFINE
      r == request
      answer == PointwisePlan(r)
      coded == Coded(answer, {"AddressOverflow"})
      absent == Types(r) \in StorageModules /\ "Bool" \in {Types(r)[i] : i \in 1..4} /\ ~r.bool8
  <1>0. CASE absent
    <2>1. plan = Refused("UNSUPPORTED")  BY <1>0 DEF PointwiseEntry
    <2> QED BY <2>1, RefusedPrepared
  <1>1. CASE ~absent /\ Admitted(answer)
    <2> DEFINE
        dims == Coalesced(r)
        merged == Padded([i \in DOMAIN dims |-> dims[i].extent], 1)
        At(at, l) == Address(View(r.view[at].offset, Padded([i \in DOMAIN dims |-> dims[i].stride[at]], 0)),
                             Coordinates(l, merged))
        four == r.vector /\ VectorEligible(r)
        wide == IF four THEN 4 ELSE 1
        How(at) == IF at # "out" THEN "read" ELSE IF r.kind = "Fill" THEN "fill" ELSE "write"
        One(at, l) == ElementTouch(at, How(at), At(at, l), Bytes(r.type[at]))
        Touched(u) == {One(at, l) : at \in {a \in Operands : Reads(r, a)}, l \in (u * wide)..(u * wide + wide - 1)}
        touches == IF Count(Extents(r)) > WordLimit THEN <<>>
                   ELSE [u \in 0..(Count(Extents(r)) \div wide - 1) |-> Touched(u)]
        kernel == IF four THEN <<"pointwise_vector", Types(r)>> ELSE <<"pointwise", Types(r)>>
        pass == Pass(kernel, Count(Extents(r)) \div wide, PerGroup \div wide,
                   <<CeilDiv(Count(Extents(r)), PerGroup), 1, 1>>, touches)
        built == PointwiseModules(r)
        reads == {"x", "y", "z"}
        passes == [i \in DOMAIN <<pass>> |-> Declaring(<<pass>>[i], reads, {"out"})]
    <2>1. FirstOf(PointwiseRefusals(r)) = "none"  BY <1>1, RefusalIsRefused DEF PointwisePlan
    <2>2. answer = PlannedWith(<<pass>>, 0)  BY <2>1 DEF PointwisePlan, Planned
    <2>3. ASSUME NEW at \in Operands, NEW l
          PROVE  One(at, l).at \in {"out"} \/ (One(at, l).how = "read" /\ One(at, l).at \in reads)
      BY DEF ElementTouch, Touch, Operands
    <2>4. ASSUME NEW u \in DOMAIN touches, NEW t \in touches[u]
          PROVE  t.at \in {"out"} \/ (t.how = "read" /\ t.at \in reads)
      <3> HIDE DEF One, reads
      <3>1. \E at \in Operands, l \in (u * wide)..(u * wide + wide - 1) : t = One(at, l)
        OBVIOUS
      <3> QED BY <2>3, <3>1
    <2> HIDE DEF touches
    <2>5. Bound(touches, reads, {"out"})  BY <2>4 DEF Bound
    <2>6. kernel \in Opened \cup built
      <3>1. CASE four
        <4>1. Types(r) \in VectorModules /\ r.vector  BY <3>1 DEF VectorEligible
        <4> QED BY <3>1, <4>1 DEF PointwiseModules
      <3>2. CASE ~four /\ Types(r) = OpenModule  BY <3>2 DEF Opened
      <3>3. CASE ~four /\ Types(r) # OpenModule
        <4>1. kernel = <<"pointwise", Types(r)>>  BY <3>3
        <4> QED BY <3>3, <4>1 DEF PointwiseModules
      <3> QED BY <3>1, <3>2, <3>3
    <2> HIDE DEF kernel, built, wide
    <2>7. pass.kernel = kernel /\ pass.touches = touches  BY PassFields
    <2> HIDE DEF pass, reads
    <2>8. answer.passes = <<pass>> /\ answer.scratch = 0 /\ coded = answer
      BY <1>1, <2>2, PlannedFields, CodedPlan
    <2>9. plan = Recorded(coded, built, LAMBDA i, p : Declaring(p, reads, {"out"}))
      BY <1>1 DEF PointwiseEntry, built, reads
    <2> HIDE DEF answer, coded
    <2>10. plan = Answered(passes, 0, built)  BY <1>1, <2>8, <2>9 DEF Recorded
    <2>11. PassPrepared(Declaring(pass, reads, {"out"}), built)  BY <2>5, <2>6, <2>7, DeclaredPrepared
    <2>12. \A i \in DOMAIN passes : PassPrepared(passes[i], built)  BY <2>11
    <2> HIDE DEF passes
    <2> QED BY <2>10, <2>12, AnsweredPrepared
  <1>2. CASE ~absent /\ ~Admitted(answer)
    <2>1. coded \in {Refused("SIZE"), Refused("SHAPE")}  BY <1>2, CodedPlan
    <2>2. ~Admitted(coded)  BY <2>1, RefusalIsRefused
    <2>3. plan = Recorded(coded, PointwiseModules(r), LAMBDA i, p : Declaring(p, {"x", "y", "z"}, {"out"}))
      BY <1>2 DEF PointwiseEntry
    <2> HIDE DEF coded
    <2>4. plan = coded  BY <2>2, <2>3 DEF Recorded
    <2> QED BY <2>1, <2>4, RefusedPrepared
  <1> QED BY <1>0, <1>1, <1>2

----------------------------------------
(* Functions by recursion on the naturals are what their equations say.    *)

(* A recursion over 0 .. N that stays within a set. *)
Unrolled(x, N, G, f) ==
  /\ f[0] = x
  /\ \A n \in 1 .. N : f[n] = G[<<n, f[n-1]>>]

LEMMA RecursionTo ==
  ASSUME NEW X, NEW x \in X, NEW G \in [Nat \X X -> X], NEW N \in Nat
  PROVE  \E f \in [0 .. N -> X] : Unrolled(x, N, G, f)
  <1> DEFINE T == {m \in Nat : \E f \in [0 .. m -> X] : Unrolled(x, m, G, f)}
  <1>1. 0 \in T
    <2> DEFINE f == [n \in 0 .. 0 |-> x]
    <2>1. f \in [0 .. 0 -> X] /\ Unrolled(x, 0, G, f)  BY DEF Unrolled
    <2> QED BY <2>1
  <1>2. ASSUME NEW m \in T PROVE m + 1 \in T
    <2>1. PICK f \in [0 .. m -> X] : Unrolled(x, m, G, f)  OBVIOUS
    <2>2. m \in Nat /\ m + 1 \in Nat /\ m \in 0 .. m /\ f[m] \in X  OBVIOUS
    <2>3. G[<<m+1, f[m]>>] \in X  BY <2>2
    <2> DEFINE h == [n \in 0 .. m+1 |-> IF n = m+1 THEN G[<<m+1, f[m]>>] ELSE f[n]]
    <2>4. h \in [0 .. m+1 -> X]  BY <2>2, <2>3
    <2>5. \A n \in 0 .. m : h[n] = f[n]  BY <2>2
    <2>6. h[m+1] = G[<<m+1, h[m]>>]
      <3>1. h[m] = f[m]  BY <2>2, <2>5
      <3>2. h[m+1] = G[<<m+1, f[m]>>]  BY <2>2
      <3> QED BY <3>1, <3>2, Zenon
    <2>7. ASSUME NEW n \in 1 .. m+1 PROVE h[n] = G[<<n, h[n-1]>>]
      <3>1. CASE n = m + 1  BY <2>2, <2>6, <3>1
      <3>2. CASE n # m + 1
        <4>1. n \in 1 .. m /\ n \in 0 .. m /\ n - 1 \in 0 .. m  BY <2>2, <3>2
        <4>2. f[n] = G[<<n, f[n-1]>>]  BY <2>1, <4>1 DEF Unrolled
        <4> HIDE DEF h
        <4> QED BY <2>5, <4>1, <4>2
      <3> QED BY <3>1, <3>2
    <2>8. h[0] = x  BY <2>1, <2>2, <2>5 DEF Unrolled
    <2> HIDE DEF h
    <2>9. Unrolled(x, m+1, G, h)  BY <2>7, <2>8 DEF Unrolled
    <2> QED BY <2>2, <2>4, <2>9
  <1>3. T \subseteq Nat  OBVIOUS
  <1> HIDE DEF T
  <1>4. T = Nat  BY <1>1, <1>2, <1>3, SetInduction
  <1> QED BY <1>4 DEF T

LEMMA UnrolledAgree ==
  ASSUME NEW x, NEW G, NEW N \in Nat, NEW M \in Nat, N <= M,
         NEW f, Unrolled(x, N, G, f), NEW h, Unrolled(x, M, G, h)
  PROVE  \A n \in 0 .. N : f[n] = h[n]
  <1> DEFINE T == {n \in Nat : n <= N => f[n] = h[n]}
  <1>1. 0 \in T  BY DEF Unrolled
  <1>2. ASSUME NEW n \in T PROVE n + 1 \in T
    <2>1. n \in Nat /\ n + 1 \in Nat /\ (n + 1) - 1 = n  OBVIOUS
    <2>2. ASSUME n + 1 <= N PROVE f[n+1] = h[n+1]
      <3>1. n + 1 \in 1 .. N /\ n + 1 \in 1 .. M /\ n <= N  BY <2>1, <2>2
      <3>2. f[n] = h[n]  BY <3>1
      <3>3. f[n+1] = G[<<n+1, f[(n+1)-1]>>] /\ h[n+1] = G[<<n+1, h[(n+1)-1]>>]  BY <3>1 DEF Unrolled
      <3> QED BY <2>1, <3>2, <3>3
    <2> QED BY <2>1, <2>2
  <1>3. T \subseteq Nat  OBVIOUS
  <1> HIDE DEF T
  <1>4. T = Nat  BY <1>1, <1>2, <1>3, SetInduction
  <1> QED BY <1>4 DEF T

Recursive(x, G, f) ==
  /\ f[0] = x
  /\ \A n \in Nat \ {0} : f[n] = G[<<n, f[n-1]>>]

LEMMA Recursion ==
  ASSUME NEW X, NEW x \in X, NEW G \in [Nat \X X -> X] PROVE \E f \in [Nat -> X] : Recursive(x, G, f)
  <1> DEFINE Upto(N) == CHOOSE f \in [0 .. N -> X] : Unrolled(x, N, G, f)
             h == [n \in Nat |-> Upto(n)[n]]
  <1>1. \A N \in Nat : Upto(N) \in [0 .. N -> X] /\ Unrolled(x, N, G, Upto(N))  BY RecursionTo
  <1> HIDE DEF Upto
  <1>2. h \in [Nat -> X]
    <2>1. \A n \in Nat : n \in 0 .. n
      OBVIOUS
    <2>2. \A n \in Nat : Upto(n)[n] \in X  BY <1>1, <2>1
    <2> QED BY <2>2
  <1>3. h[0] = x
    <2>1. 0 \in Nat  OBVIOUS
    <2>2. Upto(0)[0] = x  BY <1>1, <2>1 DEF Unrolled
    <2> QED BY <2>2
  <1>4. ASSUME NEW n \in Nat \ {0} PROVE h[n] = G[<<n, h[n-1]>>]
    <2>1. n \in Nat /\ n - 1 \in Nat /\ n - 1 <= n /\ n \in 1 .. n /\ n - 1 \in 0 .. n - 1  OBVIOUS
    <2>2. Upto(n)[n] = G[<<n, Upto(n)[n-1]>>]  BY <1>1, <2>1 DEF Unrolled
    <2>3. Upto(n-1)[n-1] = Upto(n)[n-1]
      <3>1. Unrolled(x, n-1, G, Upto(n-1)) /\ Unrolled(x, n, G, Upto(n))  BY <1>1, <2>1
      <3>2. \A i \in 0 .. n-1 : Upto(n-1)[i] = Upto(n)[i]  BY <2>1, <3>1, UnrolledAgree
      <3> QED BY <2>1, <3>2
    <2>4. h[n] = Upto(n)[n] /\ h[n-1] = Upto(n-1)[n-1]  BY <2>1
    <2> HIDE DEF h
    <2> QED BY <2>2, <2>3, <2>4
  <1> HIDE DEF h
  <1> QED BY <1>2, <1>3, <1>4 DEF Recursive

----------------------------------------
(* Prepared: the passes of the sort, and the two users of it.              *)

LEMMA PowersOf ==
  /\ Power[0] = 1
  /\ \A n \in Nat : Power[n] \in Nat /\ Power[n+1] = Digits * Power[n] /\ n < Power[n]
  <1> DEFINE G == [p \in Nat \X Nat |-> Digits * p[2]]
  <1>0. Digits \in Nat /\ Digits >= 2  BY StridedAssumption
  <1>1. G \in [Nat \X Nat -> Nat] /\ 1 \in Nat  BY <1>0
  <1>2. PICK f \in [Nat -> Nat] : Recursive(1, G, f)
    <2> HIDE DEF G
    <2> QED BY <1>1, Recursion
  <1>3. \A n \in Nat \ {0} : f[n] = Digits * f[n-1]
    <2>1. \A n \in Nat \ {0} : <<n, f[n-1]>> \in Nat \X Nat
      OBVIOUS
    <2>2. \A n \in Nat \ {0} : G[<<n, f[n-1]>>] = Digits * f[n-1]  BY <2>1
    <2> HIDE DEF G
    <2> QED BY <1>2, <2>2 DEF Recursive
  <1>4. f = [n \in Nat |-> IF n = 0 THEN 1 ELSE Digits * f[n-1]]
    <2> HIDE DEF G
    <2> QED BY <1>2, <1>3 DEF Recursive
  <1>5. Power = [n \in Nat |-> IF n = 0 THEN 1 ELSE Digits * Power[n-1]]  BY <1>4 DEF Power
  <1>6. Power[0] = 1  BY <1>5
  <1>7. \A n \in Nat : Power[n+1] = Digits * Power[n]
    <2>1. \A n \in Nat : n + 1 \in Nat /\ n + 1 # 0 /\ (n + 1) - 1 = n
      OBVIOUS
    <2>2. \A n \in Nat : Power[n+1] = Digits * Power[(n+1)-1]  BY <1>5, <2>1
    <2> QED BY <2>1, <2>2
  <1> DEFINE T == {n \in Nat : Power[n] \in Nat /\ n < Power[n]}
  <1>8. T = Nat
    <2>1. 0 \in T  BY <1>6
    <2>2. ASSUME NEW n \in T PROVE n + 1 \in T
      <3>1. n \in Nat /\ Power[n] \in Nat /\ n < Power[n]  OBVIOUS
      <3> DEFINE p == Power[n]
      <3>2. Digits * p = 2 * p + (Digits - 2) * p /\ (Digits - 2) * p \in Nat  BY <1>0, <3>1
      <3>3. n + 1 < Digits * p /\ Digits * p \in Nat  BY <3>1, <3>2
      <3> QED BY <1>7, <3>1, <3>3
    <2>3. T \subseteq Nat  OBVIOUS
    <2> HIDE DEF T
    <2> QED BY <2>1, <2>2, <2>3, SetInduction
  <1>9. \A n \in Nat : Power[n] \in Nat /\ n < Power[n]  BY <1>8, Zenon
  <1> HIDE DEF T
  <1> QED BY <1>6, <1>7, <1>9

\* As many digits as it takes to tell the values up to v apart.
LEMMA DigitCountOf ==
  ASSUME NEW v \in Nat PROVE DigitCount(v) \in Nat /\ v < Power[DigitCount(v)]
  <1> DEFINE T == {d \in Nat : Power[d] > v}
             Fits1(d) == d \in 0..v /\ Power[d] > v /\ \A c \in 0..(d - 1) : Power[c] <= v
  <1>1. v \in T  BY PowersOf
  <1>2. PICK d \in T : \A y \in T : d <= y  BY <1>1, LeastOf
  <1>3. d \in 0..v /\ Power[d] > v  BY <1>1, <1>2
  <1>4. ASSUME NEW c \in 0..(d - 1) PROVE Power[c] <= v
    <2>1. c \in Nat /\ c \notin T /\ Power[c] \in Nat  BY <1>2, <1>3, PowersOf
    <2> QED BY <2>1
  <1>5. \E x \in 0..v : Power[x] > v /\ \A c \in 0..(x - 1) : Power[c] <= v  BY <1>3, <1>4
  <1>6. DigitCount(v) \in 0..v /\ Power[DigitCount(v)] > v  BY <1>5 DEF DigitCount
  <1> QED BY <1>6

LEMMA RowPassesOf ==
  ASSUME NEW rows \in Nat
  PROVE  RowPasses(rows) \in Nat /\ \A i \in 0..(rows - 1) : i < Power[RowPasses(rows)]
  <1>1. CASE rows <= 1  BY <1>1, PowersOf DEF RowPasses
  <1>2. CASE rows > 1
    <2>1. rows - 1 \in Nat /\ RowPasses(rows) = DigitCount(rows - 1)  BY <1>2 DEF RowPasses
    <2>2. RowPasses(rows) \in Nat /\ rows - 1 < Power[RowPasses(rows)] /\ Power[RowPasses(rows)] \in Nat
      BY <2>1, DigitCountOf, PowersOf
    <2> QED BY <2>2
  <1> QED BY <1>1, <1>2

LEMMA Sandwich ==
  ASSUME NEW T, NEW a \in T, NEW q \in Seq(T), NEW b \in T, NEW w, w = <<a>> \o q \o <<b>>
  PROVE  /\ w \in Seq(T) /\ Len(w) = Len(q) + 2 /\ w[1] = a /\ w[Len(w)] = b
         /\ \A i \in 2..(Len(w) - 1) : w[i] = q[i - 1] /\ i - 1 \in 1..Len(q)
  OBVIOUS

\* A pass of the sort touches its scratch alone.
InScratch(pass) == pass.kernel = <<"radix">> /\ \A u \in DOMAIN pass.touches : \A t \in pass.touches[u] : t.at = "scratch"

LEMMA PairInScratch ==
  ASSUME NEW s, NEW how, NEW half, NEW i, NEW t \in PairTouches(s, how, half, i)
  PROVE  t.at = "scratch" /\ t.how = how
  BY DEF PairTouches, WordTouch, Touch

LEMMA RadixInScratch ==
  ASSUME NEW units, NEW per, NEW groups, NEW touches, \A u \in DOMAIN touches : \A t \in touches[u] : t.at = "scratch"
  PROVE  InScratch(Pass(<<"radix">>, units, per, groups, touches))
  BY PassFields DEF InScratch

LEMMA DigitPassInScratch ==
  ASSUME NEW s, NEW keys, NEW placed, NEW j, NEW k \in 1..3
  PROVE  InScratch(DigitPass(s, keys, placed, j)[k])
  <1> DEFINE
      Fine(t) == t.at = "scratch"
      Pairs(b) == UNION {PairTouches(s, "read", j % 2, i) : i \in InBlock(s, b)}
      Moves(b) == UNION {PairTouches(s, "write", (j + 1) % 2, Target(s, keys, placed, j, c)) :
                        c \in {q \in placed : q[1] \in InBlock(s, b)}}
      Saved(b) == {WordTouch("scratch", "write", HistogramWord(s, d, b)) : d \in 0..(Digits - 1)}
      Loaded(b) == {WordTouch("scratch", "read", HistogramWord(s, d, b)) : d \in 0..(Digits - 1)}
      Totals == {WordTouch("scratch", "read", TotalWord(s, d)) : d \in 0..(Digits - 1)}
      Histogram(b) ==
        (UNION {PairTouches(s, "read", j % 2, i) : i \in InBlock(s, b)})
          \cup {WordTouch("scratch", "write", HistogramWord(s, d, b)) : d \in 0..(Digits - 1)}
      Scan(d) == {WordTouch("scratch", how, HistogramWord(s, d, b)) : b \in 0..(s.blocks - 1), how \in {"read", "write"}}
                   \cup {WordTouch("scratch", "write", TotalWord(s, d))}
      Scatter(b) ==
        {WordTouch("scratch", "read", TotalWord(s, d)) : d \in 0..(Digits - 1)}
          \cup {WordTouch("scratch", "read", HistogramWord(s, d, b)) : d \in 0..(Digits - 1)}
          \cup (UNION {PairTouches(s, "read", j % 2, i) : i \in InBlock(s, b)})
          \cup UNION {PairTouches(s, "write", (j + 1) % 2, Target(s, keys, placed, j, c)) :
                        c \in {q \in placed : q[1] \in InBlock(s, b)}}
      counts == [b \in 0..(s.blocks - 1) |-> Histogram(b)]
      starts == [d \in 0..(Digits - 1) |-> Scan(d)]
      moves == [b \in 0..(s.blocks - 1) |-> Scatter(b)]
      first == Pass(<<"radix">>, s.blocks, 1, Folded(s.blocks, 1), counts)
      second == Pass(<<"radix">>, Digits, 1, Folded(Digits, 1), starts)
      third == Pass(<<"radix">>, s.blocks, 1, Folded(s.blocks, 1), moves)
  <1>1. DigitPass(s, keys, placed, j) = <<first, second, third>>  BY DEF DigitPass
  <1>2. \A how, w : Fine(WordTouch("scratch", how, w))  BY DEF WordTouch, Touch
  <1>3. \A how, half, i : \A t \in PairTouches(s, how, half, i) : Fine(t)  BY PairInScratch
  <1> HIDE DEF Fine
  <1>4. ASSUME NEW b, NEW t \in Pairs(b) PROVE Fine(t)
    <2>1. PICK i \in InBlock(s, b) : t \in PairTouches(s, "read", j % 2, i)  OBVIOUS
    <2> QED BY <1>3, <2>1
  <1>5. ASSUME NEW b, NEW t \in Moves(b) PROVE Fine(t)
    <2>1. \E i : t \in PairTouches(s, "write", (j + 1) % 2, i)
      OBVIOUS
    <2> QED BY <1>3, <2>1
  <1>6. ASSUME NEW b, NEW t \in Saved(b) \cup Loaded(b) PROVE Fine(t)  BY <1>2
  <1>7. ASSUME NEW t \in Totals PROVE Fine(t)  BY <1>2
  <1>8. ASSUME NEW d, NEW t \in Scan(d) PROVE Fine(t)  BY <1>2
  <1>11. ASSUME NEW b PROVE Histogram(b) = Pairs(b) \cup Saved(b)  OBVIOUS
  <1>12. ASSUME NEW b PROVE Scatter(b) = Totals \cup Loaded(b) \cup Pairs(b) \cup Moves(b)  OBVIOUS
  <1> HIDE DEF Pairs, Moves, Saved, Loaded, Totals, Scan, Histogram, Scatter
  <1>9. /\ \A u \in DOMAIN counts : \A t \in counts[u] : Fine(t)
        /\ \A u \in DOMAIN starts : \A t \in starts[u] : Fine(t)
        /\ \A u \in DOMAIN moves : \A t \in moves[u] : Fine(t)
    BY <1>4, <1>5, <1>6, <1>7, <1>8, <1>11, <1>12
  <1> HIDE DEF counts, starts, moves
  <1>10. InScratch(first) /\ InScratch(second) /\ InScratch(third)  BY <1>9, RadixInScratch DEF Fine
  <1> HIDE DEF first, second, third
  <1> QED BY <1>1, <1>10

LEMMA SortInScratch ==
  ASSUME NEW s, NEW keys, DigitPasses(s) \in Nat, NEW q, q = RadixSort(s, keys).passes
  PROVE  /\ DOMAIN q = 1..(3 * DigitPasses(s)) /\ Len(q) = 3 * DigitPasses(s)
         /\ q \in Seq({q[i] : i \in DOMAIN q})
         /\ \A i \in DOMAIN q : InScratch(q[i])
  <1> DEFINE D == DigitPasses(s)
             Step(j) == DigitPass(s, keys, Placed(s, keys)[j], j)
  <1>1. q = [p \in 1..(3 * D) |-> Step((p - 1) \div 3)[((p - 1) % 3) + 1]]  BY DEF RadixSort
  <1>2. ASSUME NEW p \in 1..(3 * D) PROVE InScratch(q[p])
    <2>1. ((p - 1) % 3) + 1 \in 1..3  OBVIOUS
    <2>2. q[p] = DigitPass(s, keys, Placed(s, keys)[(p - 1) \div 3], (p - 1) \div 3)[((p - 1) % 3) + 1]
      BY <1>1
    <2> QED BY <2>1, <2>2, DigitPassInScratch
  <1>3. DOMAIN q = 1..(3 * D) /\ 3 * D \in Nat  BY <1>1
  <1>4. q = [p \in 1..(3 * D) |-> q[p]]  BY <1>1
  <1> HIDE DEF D
  <1>5. q \in Seq({q[i] : i \in DOMAIN q}) /\ Len(q) = 3 * D  BY <1>3, <1>4
  <1> QED BY <1>2, <1>3, <1>5 DEF D

LEMMA ShapeInFour ==
  ASSUME NEW r, Shaped(r), r.ndim \in 1..4
  PROVE  /\ Extents(r) \in [Dims -> Nat]
         /\ \A d \in 1..r.ndim : Extents(r)[4 - r.ndim + d] = r.shape[d]
  <1> DEFINE s == SubSeq(r.shape, 1, r.ndim)
  <1>1. Least(r.ndim, 4) = r.ndim /\ r.ndim \in Nat  BY DEF Least
  <1>2. s \in Seq(Nat) /\ Len(s) = r.ndim /\ \A d \in 1..r.ndim : s[d] = r.shape[d]  BY DEF Shaped
  <1>3. Extents(r) = [k \in Dims |-> IF k > 4 - Len(s) THEN s[k - 4 + Len(s)] ELSE 1]
    BY <1>1 DEF Extents, Padded
  <1> HIDE DEF s
  <1>4. ASSUME NEW k \in Dims PROVE (IF k > 4 - Len(s) THEN s[k - 4 + Len(s)] ELSE 1) \in Nat
    <2>1. k > 4 - Len(s) => k - 4 + Len(s) \in 1..Len(s)  BY <1>2 DEF Dims
    <2> QED BY <1>2, <2>1
  <1>5. ASSUME NEW d \in 1..r.ndim PROVE Extents(r)[4 - r.ndim + d] = r.shape[d]
    <2> DEFINE k == 4 - r.ndim + d
    <2>0. Len(s) \in 1..4 /\ d \in 1..Len(s) /\ k = 4 - Len(s) + d  BY <1>2
    <2>1. k \in Dims /\ k > 4 - Len(s) /\ k - 4 + Len(s) = d  BY <2>0 DEF Dims
    <2> HIDE DEF k
    <2> QED BY <1>2, <1>3, <2>1 DEF k
  <1> QED BY <1>3, <1>4, <1>5

LEMMA CountOf ==
  ASSUME NEW e \in [Dims -> Nat] PROVE Count(e) \in Nat
  <1>1. e[1] \in Nat /\ e[2] \in Nat /\ e[3] \in Nat /\ e[4] \in Nat  BY DEF Dims
  <1> DEFINE a == e[1] * e[2]
             b == a * e[3]
  <1>2. a \in Nat  BY <1>1
  <1>3. b \in Nat
    <2> HIDE DEF a
    <2> QED BY <1>1, <1>2
  <1>4. b * e[4] \in Nat
    <2> HIDE DEF b
    <2> QED BY <1>1, <1>3
  <1> QED BY <1>4 DEF Count

\* What an intwise launch touches of its operands.
LEMMA IntTouched ==
  ASSUME NEW r, NEW u, NEW t \in IntwiseTouches(r, u)
  PROVE  t.at \in {"out"} \/ (t.how = "read" /\ t.at \in {"x", "y"})
  BY DEF IntwiseTouches, IntOutTouch, ElementTouch, WordTouch, Touch

LEMMA OutTouched ==
  ASSUME NEW r, NEW l PROVE IntOutTouch(r, l).at = "out"
  BY DEF IntOutTouch, ElementTouch, WordTouch, Touch

LEMMA RankSortOf ==
  ASSUME NEW r, Sorted(r), Extents(r) \in [Dims -> Nat], r.type["x"] \in Floats \cup IntegerCodes
  PROVE  DigitPasses(RankSort(r)) \in Nat
  <1>1. Bytes(r.type["x"]) \in Nat  BY DEF Bytes, Floats, IntegerCodes
  <1>2. Count(Extents(r)) \in Nat /\ Extents(r)[4] \in Nat /\ Extents(r)[4] > 0
    <2>1. Extents(r)[4] \in Nat /\ RadixMinRow \in Nat /\ Extents(r)[4] > RadixMinRow
      BY StridedAssumption DEF Sorted, Dims
    <2> QED BY <2>1, CountOf
  <1>3. (Count(Extents(r)) \div Extents(r)[4]) \in Nat  BY <1>2
  <1>4. RowPasses(Count(Extents(r)) \div Extents(r)[4]) \in Nat  BY <1>3, RowPassesOf
  <1> QED BY <1>1, <1>4 DEF DigitPasses, RankSort, RadixPlan

LEMMA RankPassesBound ==
  ASSUME NEW r, DigitPasses(RankSort(r)) \in Nat, NEW i \in DOMAIN RankPasses(r)
  PROVE  /\ RankPasses(r)[i].kernel = <<"radix">>
         /\ Bound(RankPasses(r)[i].touches,
                  IF i = Len(RankPasses(r)) THEN {"x", "scratch"} ELSE {"x", "out"},
                  IF i = Len(RankPasses(r)) THEN {"out"} ELSE {"scratch"})
  <1> DEFINE
      s == RankSort(r)
      q == RadixSort(s, r.keys).passes
      order == RadixSort(s, r.keys).order
      Key(k) == PairTouches(s, "write", 0, k) \cup {ElementTouch("x", "read", IntAddress(r, "x", k), Bytes(r.type["x"]))}
      Rank(k) == {WordTouch("scratch", "read", PositionWord(s, DigitPasses(s) % 2, k)), IntOutTouch(r, order[k + 1])}
      keys == [k \in 0..(s.n - 1) |-> Key(k)]
      ranks == [k \in 0..(s.n - 1) |-> Rank(k)]
      first == Pass(<<"radix">>, s.n, Lanes, Folded(CeilDiv(s.n, Lanes), 1), keys)
      final == Pass(<<"radix">>, s.n, Lanes, Folded(CeilDiv(s.n, Lanes), 1), ranks)
      T == {q[k] : k \in DOMAIN q} \cup {first, final}
      w == RankPasses(r)
  <1>1. w = <<first>> \o q \o <<final>>  BY DEF RankPasses
  <1>2. ASSUME NEW k \in DOMAIN keys, NEW t \in keys[k] PROVE t.at \in {"scratch"} \/ (t.how = "read" /\ t.at \in {"x", "out"})
    <2>1. CASE t \in PairTouches(s, "write", 0, k)  BY <2>1, PairInScratch
    <2>2. CASE t = ElementTouch("x", "read", IntAddress(r, "x", k), Bytes(r.type["x"]))
      BY <2>2 DEF ElementTouch, Touch
    <2> QED BY <2>1, <2>2
  <1>3. ASSUME NEW k \in DOMAIN ranks, NEW t \in ranks[k] PROVE t.at \in {"out"} \/ (t.how = "read" /\ t.at \in {"x", "scratch"})
    <2>1. CASE t = WordTouch("scratch", "read", PositionWord(s, DigitPasses(s) % 2, k))
      BY <2>1 DEF WordTouch, Touch
    <2>2. CASE t = IntOutTouch(r, order[k + 1])  BY <2>2, OutTouched
    <2> QED BY <2>1, <2>2
  <1>4. Bound(keys, {"x", "out"}, {"scratch"}) /\ Bound(ranks, {"x", "scratch"}, {"out"})
    <2> HIDE DEF keys, ranks
    <2> QED BY <1>2, <1>3 DEF Bound
  <1>5. /\ q \in Seq({q[k] : k \in DOMAIN q}) /\ DOMAIN q = 1..Len(q) /\ Len(q) \in Nat
        /\ \A k \in DOMAIN q : InScratch(q[k])
    <2> HIDE DEF s
    <2>1. DigitPasses(s) \in Nat  BY DEF s
    <2>2. /\ DOMAIN q = 1..(3 * DigitPasses(s)) /\ Len(q) = 3 * DigitPasses(s)
          /\ q \in Seq({q[k] : k \in DOMAIN q})
          /\ \A k \in DOMAIN q : InScratch(q[k])
      BY <2>1, SortInScratch
    <2> QED BY <2>1, <2>2
  <1> HIDE DEF keys, ranks
  <1>6. /\ first.kernel = <<"radix">> /\ first.touches = keys
        /\ final.kernel = <<"radix">> /\ final.touches = ranks
    BY PassFields
  <1> HIDE DEF q, first, final, w, s
  <1>7. first \in T /\ final \in T /\ q \in Seq(T)  BY <1>5
  <1> HIDE DEF T
  <1>8. /\ w \in Seq(T) /\ Len(w) = Len(q) + 2 /\ w[1] = first /\ w[Len(w)] = final
        /\ \A k \in 2..(Len(w) - 1) : w[k] = q[k - 1] /\ k - 1 \in 1..Len(q)
    BY <1>1, <1>7, Sandwich
  <1>9. i \in 1..Len(w) /\ Len(w) \in Nat  BY <1>8 DEF w
  <1>10. CASE i = 1
    <2>1. Len(w) # 1  BY <1>5, <1>8
    <2> QED BY <1>4, <1>6, <1>8, <1>10, <2>1 DEF w
  <1>11. CASE i = Len(w)  BY <1>4, <1>6, <1>8, <1>11 DEF w
  <1>12. CASE i # 1 /\ i # Len(w)
    <2>1. i \in 2..(Len(w) - 1)  BY <1>9, <1>12
    <2>2. InScratch(w[i])  BY <1>5, <1>8, <2>1
    <2>3. Bound(w[i].touches, {"x", "out"}, {"scratch"})  BY <2>2 DEF InScratch, Bound
    <2> QED BY <1>12, <2>2, <2>3 DEF w, InScratch
  <1> QED BY <1>10, <1>11, <1>12

\* A list of refusals.
Refusing(a) == a \in Seq({a[i] : i \in DOMAIN a}) /\ \A i \in DOMAIN a : a[i][2] # "none"

LEMMA RefusingBoth ==
  ASSUME NEW a, NEW b, Refusing(a), Refusing(b)
  PROVE  /\ Refusing(a \o b)
         /\ FirstOf(a \o b) = "none" =>
              (\A i \in DOMAIN a : ~a[i][1]) /\ (\A i \in DOMAIN b : ~b[i][1])
  <1> DEFINE T == {a[i] : i \in DOMAIN a} \cup {b[i] : i \in DOMAIN b}
             c == a \o b
  <1>1. a \in Seq(T) /\ b \in Seq(T) /\ \A x \in T : x[2] # "none"  BY DEF Refusing
  <1> HIDE DEF T
  <1>2. /\ c \in Seq(T) /\ DOMAIN c = 1..(Len(a) + Len(b)) /\ Len(a) \in Nat /\ Len(b) \in Nat
        /\ DOMAIN a = 1..Len(a) /\ DOMAIN b = 1..Len(b)
        /\ \A i \in DOMAIN a : i \in DOMAIN c /\ c[i] = a[i]
        /\ \A i \in DOMAIN b : Len(a) + i \in DOMAIN c /\ c[Len(a) + i] = b[i]
    BY <1>1
  <1> HIDE DEF c
  <1>3. \A i \in DOMAIN c : c[i][2] # "none"  BY <1>1, <1>2
  <1>4. c \in Seq({c[i] : i \in DOMAIN c})  BY <1>2
  <1>5. Listed(c)  BY <1>2, <1>3 DEF Listed
  <1>6. ASSUME FirstOf(c) = "none"
        PROVE  (\A i \in DOMAIN a : ~a[i][1]) /\ (\A i \in DOMAIN b : ~b[i][1])
    <2>1. \A i \in DOMAIN c : ~c[i][1]  BY <1>5, <1>6, NothingRefused
    <2>2. ASSUME NEW i \in DOMAIN a PROVE ~a[i][1]
      <3>1. i \in DOMAIN c /\ c[i] = a[i]  BY <1>2
      <3> QED BY <2>1, <3>1
    <2>3. ASSUME NEW i \in DOMAIN b PROVE ~b[i][1]
      <3>1. Len(a) + i \in DOMAIN c /\ c[Len(a) + i] = b[i]  BY <1>2
      <3> QED BY <2>1, <3>1
    <2> QED BY <2>2, <2>3
  <1> QED BY <1>3, <1>4, <1>6 DEF Refusing, c

LEMMA IntwiseNotBadRank ==
  ASSUME NEW r, FirstOf(IntwiseRefusals(r)) = "none"
  PROVE  ~BadRank(r) /\ ~(0 \in {Extents(r)[k] : k \in Dims})
  <1> DEFINE
      e == Extents(r)
      V(at) == PaddedView(r, r.view[at])
      SameView(at) == /\ r.type[at] = r.out_code /\ V(at).offset = V("out").offset
                      /\ \A k \in Dims : e[k] = 1 \/ V(at).strides[k] = V("out").strides[k]
      InPlace(at) == r.storage[at].identity = r.storage["out"].identity
      x1 == <<BadRank(r), "NdimOutOfRange">>
      x2 == <<0 \in {e[k] : k \in Dims}, "ZeroElements">>
      x3 == <<Count(e) >= WordLimit, "AddressOverflow">>
      x4 == <<r.kind = "Scan" /\ e[4] > ScanLimit, "ScanTooLong">>
      x5 == <<r.kind = "Rank" /\ ~Sorted(r) /\ (e[4] > RankRowLimit \/ Count(e) * e[4] > RankWorkLimit), "RankTooLong">>
      x6 == <<\E at \in {"x", "y"} : IntReads(r, at)
                /\ ~Fits(V(at), e, Bytes(r.type[at]), r.storage[at].capacity), "AddressOverflow">>
      x7 == <<~Fits(V("out"), e, Bytes(r.out_code), r.storage["out"].capacity), "AddressOverflow">>
      x8 == <<~IntWhole(r) /\ ~AddressesAreDistinct(V("out").strides, e), "OutputSelfOverlap">>
      x9 == <<IntReads(r, "x") /\ InPlace("x") /\ (r.kind = "Rank" \/ ~SameView("x")), "OutputOverlapsInput">>
      x10 == <<IntReads(r, "y") /\ InPlace("y") /\ ~SameView("y"), "OutputOverlapsInput">>
      c == <<x1, x2, x3, x4, x5, x6, x7, x8, x9, x10>>
      a == CodeRefusals(r)
      b == DivisorRefusals(r)
  <1>1. IntwiseRefusals(r) = (a \o b) \o c  BY DEF IntwiseRefusals
  <1>2. Refusing(a)  BY DEF CodeRefusals, Refusing
  <1>3. Refusing(b)  BY DEF DivisorRefusals, Refusing
  <1>4. /\ x1[2] # "none" /\ x2[2] # "none" /\ x3[2] # "none" /\ x4[2] # "none" /\ x5[2] # "none"
        /\ x6[2] # "none" /\ x7[2] # "none" /\ x8[2] # "none" /\ x9[2] # "none" /\ x10[2] # "none"
    OBVIOUS
  <1>5. (x1[1] <=> BadRank(r)) /\ (x2[1] <=> 0 \in {e[k] : k \in Dims})  BY DEF BadRank
  <1> HIDE DEF e, x1, x2, x3, x4, x5, x6, x7, x8, x9, x10
  <1>6. Refusing(c)  BY <1>4 DEF Refusing
  <1>7. 1 \in DOMAIN c /\ 2 \in DOMAIN c /\ c[1] = x1 /\ c[2] = x2  OBVIOUS
  <1> HIDE DEF a, b, c
  <1>8. Refusing(a \o b)  BY <1>2, <1>3, RefusingBoth
  <1>9. \A i \in DOMAIN c : ~c[i][1]  BY <1>1, <1>6, <1>8, RefusingBoth
  <1> QED BY <1>5, <1>7, <1>9 DEF e

LEMMA IntwisePrepared ==
  ASSUME plan = IntwiseEntry(request), Shaped(request), Sorted(request) => request.type["x"] \in Floats \cup IntegerCodes
  PROVE  PassesArePrepared
  <1> DEFINE
      r == request
      answer == IntwisePlan(r)
      coded == Coded(answer, {"AddressOverflow"})
      kernel == <<"intwise", r.compute = "F64">>
      built == {kernel} \cup IF MayPlanRadix(r) THEN {<<"radix">>} ELSE {}
      Access(i, pass) ==
        IF ~Sorted(r) THEN Declaring(pass, {"x", "y"}, {"out"})
        ELSE IF i = Len(coded.passes) THEN Declaring(pass, {"x", "scratch"}, {"out"})
        ELSE Declaring(pass, {"x", "out"}, {"scratch"})
  <1>1. plan = Recorded(coded, built, Access)  BY DEF IntwiseEntry
  <1>2. Admitted(answer) => FirstOf(IntwiseRefusals(r)) = "none"  BY RefusalIsRefused DEF IntwisePlan
  <1>3. CASE Admitted(answer) /\ Sorted(r)
    <2> DEFINE w == RankPasses(r)
               passes == [i \in DOMAIN w |-> Access(i, w[i])]
    <2>1. answer = PlannedWith(w, ScratchWords(RankSort(r)))  BY <1>2, <1>3 DEF IntwisePlan
    <2>2. r.ndim \in 1..4 /\ r.ndim \in 1..r.ndim  BY <1>2, <1>3, IntwiseNotBadRank DEF BadRank
    <2>3. Extents(r) \in [Dims -> Nat] /\ Extents(r)[4] = r.shape[r.ndim]
      <3>1. /\ Extents(r) \in [Dims -> Nat]
            /\ \A d \in 1..r.ndim : Extents(r)[4 - r.ndim + d] = r.shape[d]
        BY <2>2, ShapeInFour
      <3>2. Extents(r)[4 - r.ndim + r.ndim] = r.shape[r.ndim] /\ 4 - r.ndim + r.ndim = 4  BY <2>2, <3>1
      <3> QED BY <3>1, <3>2
    <2>4. DigitPasses(RankSort(r)) \in Nat  BY <1>3, <2>3, RankSortOf
    <2>5. <<"radix">> \in Opened \cup built  BY <1>3, <2>2, <2>3 DEF MayPlanRadix, Sorted
    <2>6. answer.passes = w /\ coded = answer  BY <1>3, <2>1, PlannedFields, CodedPlan
    <2> HIDE DEF w, answer, coded, built
    <2>7. plan = Answered(passes, answer.scratch, built)  BY <1>1, <1>3, <2>6 DEF Recorded
    <2>8. ASSUME NEW i \in DOMAIN w PROVE PassPrepared(Access(i, w[i]), built)
      <3>1. /\ w[i].kernel = <<"radix">>
            /\ Bound(w[i].touches, IF i = Len(w) THEN {"x", "scratch"} ELSE {"x", "out"},
                                   IF i = Len(w) THEN {"out"} ELSE {"scratch"})
        BY <2>4, RankPassesBound DEF w
      <3>2. CASE i = Len(w)
        <4>1. Access(i, w[i]) = Declaring(w[i], {"x", "scratch"}, {"out"})  BY <1>3, <2>6, <3>2
        <4>2. Bound(w[i].touches, {"x", "scratch"}, {"out"})  BY <3>1, <3>2
        <4> HIDE DEF Access
        <4> QED BY <2>5, <3>1, <4>1, <4>2, DeclaredPrepared
      <3>3. CASE i # Len(w)
        <4>1. Access(i, w[i]) = Declaring(w[i], {"x", "out"}, {"scratch"})  BY <1>3, <2>6, <3>3
        <4>2. Bound(w[i].touches, {"x", "out"}, {"scratch"})  BY <3>1, <3>3
        <4> HIDE DEF Access
        <4> QED BY <2>5, <3>1, <4>1, <4>2, DeclaredPrepared
      <3> QED BY <3>2, <3>3
    <2> HIDE DEF Access
    <2>9. \A i \in DOMAIN passes : PassPrepared(passes[i], built)  BY <2>8
    <2> HIDE DEF passes
    <2> QED BY <2>7, <2>9, AnsweredPrepared
  <1>4. CASE Admitted(answer) /\ ~Sorted(r)
    <2> DEFINE
        n == Count(Extents(r))
        units == CASE r.kind = "Scan" -> n \div Extents(r)[4]
                   [] IntWhole(r) -> CeilDiv(n, Slots(Bytes(r.out_code))) [] OTHER -> n
        per == IF r.kind = "Scan" THEN 1 ELSE Lanes
        touches == [u \in 0..(units - 1) |-> IntwiseTouches(r, u)]
        pass == Pass(kernel, units, per, Folded(units, per), touches)
        passes == [i \in DOMAIN <<pass>> |-> Access(i, <<pass>>[i])]
    <2>1. answer = PlannedWith(<<pass>>, 0)  BY <1>2, <1>4 DEF IntwisePlan, Planned
    <2>2. ASSUME NEW v \in DOMAIN touches, NEW t \in touches[v]
          PROVE  t.at \in {"out"} \/ (t.how = "read" /\ t.at \in {"x", "y"})
      <3>1. t \in IntwiseTouches(r, v)  OBVIOUS
      <3> QED BY <3>1, IntTouched
    <2> HIDE DEF touches, units, per, kernel
    <2>3. Bound(touches, {"x", "y"}, {"out"})  BY <2>2 DEF Bound
    <2>4. pass.kernel = kernel /\ pass.touches = touches  BY PassFields
    <2> HIDE DEF pass
    <2>5. answer.passes = <<pass>> /\ coded = answer  BY <1>4, <2>1, PlannedFields, CodedPlan
    <2>6. kernel \in Opened \cup built  OBVIOUS
    <2> HIDE DEF answer, coded, built
    <2>7. plan = Answered(passes, answer.scratch, built)  BY <1>1, <1>4, <2>5 DEF Recorded
    <2>8. PassPrepared(Declaring(pass, {"x", "y"}, {"out"}), built)
      BY <2>3, <2>4, <2>6, DeclaredPrepared
    <2>9. \A i \in DOMAIN passes : PassPrepared(passes[i], built)  BY <1>4, <2>8
    <2> HIDE DEF passes
    <2> QED BY <2>7, <2>9, AnsweredPrepared
  <1>5. CASE ~Admitted(answer)
    <2>1. coded \in {Refused("SIZE"), Refused("SHAPE")}  BY <1>5, CodedPlan
    <2>2. ~Admitted(coded)  BY <2>1, RefusalIsRefused
    <2> HIDE DEF coded, built
    <2>3. plan = coded  BY <1>1, <2>2 DEF Recorded
    <2> QED BY <2>1, <2>3, RefusedPrepared
  <1> QED BY <1>3, <1>4, <1>5

(* Indexing.                                                               *)
\* What an indexing operation may be asked.
Indexing(r) == r.op \in {"Gather", "Scatter", "ScatterAdd"} /\ r.dim \in Nat /\ Shaped(r)

LEMMA IndexNothingRefused ==
  ASSUME NEW r, FirstOf(IndexRefusals(r)) = "none"
  PROVE  ~BadRank(r) /\ ~(r.dim >= r.ndim) /\ ~(0 \in {Extents(r)[k] : k \in Dims}) /\ r.bound # 0
  <1> DEFINE
      e == Extents(r)
      d == Axis(r)
      indexed == With(e, d, r.bound)
      out == PaddedView(r, r.out)
      es == Bytes(r.type)
      St(at) == r.storage[at]
      reads == {"index"} \cup IF r.value THEN {} ELSE {"src"}
      x1 == <<BadRank(r), "NdimOutOfRange">>
      x2 == <<r.dim >= r.ndim, "DimOutOfRange">>
      x3 == <<0 \in {e[k] : k \in Dims}, "ZeroElements">>
      x4 == <<Count(e) >= WordLimit, "AddressOverflow">>
      x5 == <<r.bound = 0 \/ r.bound >= WordLimit, "BoundOutOfRange">>
      x6 == <<r.value /\ r.op # "Scatter", "ValueNeedsScatter">>
      x7 == <<r.alpha /\ ~(r.op = "ScatterAdd" /\ r.type = "F32"), "AlphaNeedsF32ScatterAdd">>
      x8 == <<r.statusSlot >= St("status").capacity \div 4, "StatusSlotOutOfRange">>
      x9 == <<~Fits(PaddedView(r, r.index), e, IF r.i32 THEN 4 ELSE 8, St("index").capacity), "AddressOverflow">>
      x10 == <<~r.value /\ ~Fits(PaddedView(r, r.src), IF r.op = "Gather" THEN indexed ELSE e, es, St("src").capacity),
               "AddressOverflow">>
      x11 == <<~Fits(out, IF r.op = "Gather" THEN e ELSE indexed, es, St("out").capacity), "AddressOverflow">>
      x12 == <<r.op = "Gather" /\ ~(RowMajor(out.strides, e) /\ r.out.offset % Slots(es) = 0), "GatherOutputNotContiguous">>
      x13 == <<r.op # "Gather" /\ ~AddressesAreDistinct(out.strides, indexed), "OutputSelfOverlap">>
      x14 == <<\E at \in reads : St(at).identity = St("out").identity, "OutputOverlapsInput">>
      x15 == <<\E at \in reads \cup {"out"} : St(at).identity = St("status").identity, "StatusOverlapsOperand">>
      c == <<x1, x2, x3, x4, x5, x6, x7, x8, x9, x10, x11, x12, x13, x14, x15>>
  <1>1. IndexRefusals(r) = c  BY DEF IndexRefusals
  <1>2. /\ x1[2] # "none" /\ x2[2] # "none" /\ x3[2] # "none" /\ x4[2] # "none" /\ x5[2] # "none"
        /\ x6[2] # "none" /\ x7[2] # "none" /\ x8[2] # "none" /\ x9[2] # "none" /\ x10[2] # "none"
        /\ x11[2] # "none" /\ x12[2] # "none" /\ x13[2] # "none" /\ x14[2] # "none" /\ x15[2] # "none"
    OBVIOUS
  <1>3. (x1[1] <=> BadRank(r)) /\ (x2[1] <=> r.dim >= r.ndim) /\ (x3[1] <=> 0 \in {e[k] : k \in Dims})
    BY DEF BadRank
  <1>4. x5[1] <=> r.bound = 0 \/ r.bound >= WordLimit  OBVIOUS
  <1> HIDE DEF e, x1, x2, x3, x4, x5, x6, x7, x8, x9, x10, x11, x12, x13, x14, x15
  <1>5. Listed(c)  BY <1>2 DEF Listed
  <1>6. {1, 2, 3, 5} \subseteq DOMAIN c /\ c[1] = x1 /\ c[2] = x2 /\ c[3] = x3 /\ c[5] = x5  OBVIOUS
  <1> HIDE DEF c
  <1>7. ~c[1][1] /\ ~c[2][1] /\ ~c[3][1] /\ ~c[5][1]  BY <1>1, <1>5, <1>6, NothingRefused
  <1> QED BY <1>3, <1>6, <1>7, <1>4 DEF e

LEMMA IndexOperands ==
  ASSUME NEW r, NEW l, NEW c, NEW how
  PROVE  /\ IndexTouch(r, l).at = "index" /\ IndexTouch(r, l).how = "read"
         /\ \A t \in SourceTouch(r, c) : t.at = "src" /\ t.how = "read"
         /\ \A t \in StatusTouch(r, l) : t.at = "status"
         /\ StoreTouch(r, how, l).at = "out"
  BY DEF IndexTouch, SourceTouch, StatusTouch, StoreTouch, ElementTouch, WordTouch, Touch

LEMMA GatherTouched ==
  ASSUME NEW r, NEW u, NEW t \in GatherTouches(r, u)
  PROVE  t.at \in {"out", "status"} \/ (t.how = "read" /\ t.at \in {"src", "index"})
  <1> DEFINE
      Fine(x) == x.at \in {"out", "status"} \/ (x.how = "read" /\ x.at \in {"src", "index"})
      per == Slots(Bytes(r.type))
      n == Count(Extents(r))
      mine == {l \in (u * per)..(u * per + per - 1) : l < n}
      From1(l) == {IndexTouch(r, l)} \cup StatusTouch(r, l)
        \cup (IF r.pick[l] = -1 THEN {} ELSE SourceTouch(r, Reached(r, l)))
      Own == {IF per = 1 THEN ElementTouch("out", "write", r.out.offset + u, Bytes(r.type))
       ELSE WordTouch("out", "write", r.out.offset \div per + u)}
  <1>1. t \in (UNION {From1(l) : l \in mine}) \cup Own  BY DEF GatherTouches
  <1>2. ASSUME NEW l, NEW x \in From1(l) PROVE Fine(x)
    <2>1. x = IndexTouch(r, l) \/ x \in StatusTouch(r, l) \/ x \in SourceTouch(r, Reached(r, l))
      BY <1>2
    <2>2. x = IndexTouch(r, l) => x.at = "index" /\ x.how = "read"
      BY DEF IndexTouch, ElementTouch, Touch
    <2>3. x \in StatusTouch(r, l) => x.at = "status"  BY DEF StatusTouch, WordTouch, Touch
    <2>4. x \in SourceTouch(r, Reached(r, l)) => x.at = "src" /\ x.how = "read"
      BY DEF SourceTouch, ElementTouch, Touch
    <2> QED BY <2>1, <2>2, <2>3, <2>4
  <1>3. ASSUME NEW x \in Own PROVE Fine(x)  BY <1>3 DEF ElementTouch, WordTouch, Touch
  <1> HIDE DEF From1, Own, Fine, mine
  <1> QED BY <1>1, <1>2, <1>3 DEF Fine

LEMMA ScatterTouched ==
  ASSUME NEW r, NEW how, NEW l, NEW t \in ScatterTouches(r, how, l)
  PROVE  t.at \in {"out", "status"} \/ (t.how = "read" /\ t.at \in {"src", "index"})
  <1>1. \/ t = IndexTouch(r, l) \/ t \in StatusTouch(r, l)
        \/ t \in SourceTouch(r, Coordinates(l, Extents(r))) \/ t = StoreTouch(r, how, l)
    BY DEF ScatterTouches
  <1>2. t = IndexTouch(r, l) => t.at = "index" /\ t.how = "read"  BY IndexOperands
  <1>3. t \in StatusTouch(r, l) => t.at = "status"  BY IndexOperands
  <1>4. t \in SourceTouch(r, Coordinates(l, Extents(r))) => t.at = "src" /\ t.how = "read"
    BY IndexOperands
  <1>5. t = StoreTouch(r, how, l) => t.at = "out"  BY IndexOperands
  <1> QED BY <1>1, <1>2, <1>3, <1>4, <1>5

\* Two kinds of declaration, joined over the elements one unit takes.
LEMMA BoundOverUnits ==
  ASSUME NEW touches, NEW reads, NEW writes,
         \A u \in DOMAIN touches : \A t \in touches[u] : t.at \in writes \/ (t.how = "read" /\ t.at \in reads)
  PROVE  Bound(touches, reads, writes)
  BY DEF Bound

LEMMA StrategyOf ==
  ASSUME NEW r
  PROVE  /\ IndexStrategy(r) \in {"Fibers", "AtomicAdd", "Elected", "Grouped"}
         /\ r.op = "Gather" => IndexStrategy(r) = "Fibers"
         /\ IndexStrategy(r) = "Grouped" =>
              r.op = "ScatterAdd" /\ r.type \notin {"I32", "I64"} /\ Extents(r)[Axis(r)] >= LongFiber
  <1> DEFINE
      along == Extents(r)[Axis(r)]
      slots == Fibers(r) * r.bound
      few == slots <= ElectScratchLimit
      some == Count(Extents(r)) <= LimitElements /\ slots < WordLimit - 1
  <1>1. IndexStrategy(r) =
          CASE along < LongFiber -> "Fibers"
            [] along >= LongFiber /\ r.op = "ScatterAdd" /\ r.type \in {"I32", "I64"} -> "AtomicAdd"
            [] along >= LongFiber /\ r.op = "Scatter" /\ few -> "Elected"
            [] along >= LongFiber /\ r.op = "ScatterAdd" /\ r.type \notin {"I32", "I64"} /\ some -> "Grouped"
            [] OTHER -> "Fibers"
    BY DEF IndexStrategy
  <1> HIDE DEF along, few, some
  <1> QED BY <1>1 DEF along

LEMMA ElectedBound ==
  ASSUME NEW r, NEW i \in DOMAIN ElectedPasses(r)
  PROVE  /\ i \in 1..3 /\ ElectedPasses(r)[i].kernel = <<"index">>
         /\ i = 1 => Bound(ElectedPasses(r)[i].touches, {"src", "index", "status"}, {"scratch"})
         /\ i = 2 => Bound(ElectedPasses(r)[i].touches, {"src", "index"}, {"scratch", "status"})
         /\ i = 3 => Bound(ElectedPasses(r)[i].touches, {"src", "index", "scratch"}, {"out"})
  <1> DEFINE
      n == Count(Extents(r))
      slots == Fibers(r) * r.bound
      Vote(l) == IF r.pick[l] = -1 THEN {} ELSE {WordTouch("scratch", "atomic", Slot(r, l))}
      Tally(l) == IF r.pick[l] = -1 THEN {} ELSE {WordTouch("scratch", "read", Slot(r, l))}
      Write(l) == IF r.pick[l] = -1 \/ ~Winner(r, l) THEN {}
                  ELSE SourceTouch(r, Coordinates(l, Extents(r)))
                         \cup {StoreTouch(r, IF Bytes(r.type) >= 4 THEN "write" ELSE "atomic", l)}
      cleared == [s \in 0..(slots - 1) |-> {WordTouch("scratch", "write", s)}]
      voted == [l \in 0..(n - 1) |-> {IndexTouch(r, l)} \cup StatusTouch(r, l) \cup Vote(l)]
      stored == [l \in 0..(n - 1) |-> {IndexTouch(r, l)} \cup Tally(l) \cup Write(l)]
      first == Pass(<<"index">>, slots, Lanes, Folded(slots, Lanes), cleared)
      second == Pass(<<"index">>, n, Lanes, Folded(n, Lanes), voted)
      third == Pass(<<"index">>, n, Lanes, Folded(n, Lanes), stored)
  <1>1. ElectedPasses(r) = <<first, second, third>>  BY DEF ElectedPasses
  <1>2. ASSUME NEW l PROVE /\ \A t \in Vote(l) : t.at = "scratch"
                           /\ \A t \in Tally(l) : t.at = "scratch" /\ t.how = "read"
                           /\ \A t \in Write(l) : t.at = "out" \/ (t.at = "src" /\ t.how = "read")
    <2>1. (\A t \in Vote(l) : t.at = "scratch") /\ (\A t \in Tally(l) : t.at = "scratch" /\ t.how = "read")
      BY DEF WordTouch, Touch
    <2>2. \A t \in Write(l) : t.at = "out" \/ (t.at = "src" /\ t.how = "read")  BY IndexOperands
    <2> QED BY <2>1, <2>2
  <1> HIDE DEF Vote, Tally, Write
  <1>3. Bound(cleared, {"src", "index", "status"}, {"scratch"})  BY DEF WordTouch, Touch, Bound
  <1>4. Bound(voted, {"src", "index"}, {"scratch", "status"})
    <2>1. ASSUME NEW l \in DOMAIN voted, NEW t \in voted[l]
          PROVE  t.at \in {"scratch", "status"} \/ (t.how = "read" /\ t.at \in {"src", "index"})
      <3>1. t = IndexTouch(r, l) \/ t \in StatusTouch(r, l) \/ t \in Vote(l)  OBVIOUS
      <3>2. t = IndexTouch(r, l) => t.at = "index" /\ t.how = "read"  BY IndexOperands
      <3>3. t \in StatusTouch(r, l) => t.at = "status"  BY IndexOperands
      <3>4. t \in Vote(l) => t.at = "scratch"  BY <1>2
      <3> QED BY <3>1, <3>2, <3>3, <3>4
    <2> HIDE DEF voted
    <2> QED BY <2>1, BoundOverUnits
  <1>5. Bound(stored, {"src", "index", "scratch"}, {"out"})
    <2>1. ASSUME NEW l \in DOMAIN stored, NEW t \in stored[l]
          PROVE  t.at \in {"out"} \/ (t.how = "read" /\ t.at \in {"src", "index", "scratch"})
      <3>1. t = IndexTouch(r, l) \/ t \in Tally(l) \/ t \in Write(l)  OBVIOUS
      <3>2. t = IndexTouch(r, l) => t.at = "index" /\ t.how = "read"  BY IndexOperands
      <3>3. t \in Tally(l) => t.at = "scratch" /\ t.how = "read"  BY <1>2
      <3>4. t \in Write(l) => t.at = "out" \/ (t.at = "src" /\ t.how = "read")  BY <1>2
      <3> QED BY <3>1, <3>2, <3>3, <3>4
    <2> HIDE DEF stored
    <2> QED BY <2>1, BoundOverUnits
  <1> HIDE DEF cleared, voted, stored
  <1>6. /\ first.kernel = <<"index">> /\ first.touches = cleared
        /\ second.kernel = <<"index">> /\ second.touches = voted
        /\ third.kernel = <<"index">> /\ third.touches = stored
    BY PassFields
  <1> HIDE DEF first, second, third
  <1>7. i \in 1..3  BY <1>1
  <1>8. ElectedPasses(r)[1] = first /\ ElectedPasses(r)[2] = second /\ ElectedPasses(r)[3] = third
    BY <1>1
  <1>9. i = 1 \/ i = 2 \/ i = 3  BY <1>7
  <1> QED BY <1>3, <1>4, <1>5, <1>6, <1>7, <1>8, <1>9

LEMMA GroupedSortOf ==
  ASSUME NEW r, Count(Extents(r)) \in Nat \ {0} PROVE DigitPasses(GroupedSort(r)) \in Nat
  <1> DEFINE
      n == Count(Extents(r))
      slots == Fibers(r) * r.bound
      bytes == GroupKeyBytes(slots)
  <1>1. bytes \in {1, 2, 4}  BY DEF GroupKeyBytes
  <1>2. (n \div n) \in Nat  OBVIOUS
  <1>3. RowPasses(n \div n) \in Nat  BY <1>2, RowPassesOf
  <1> HIDE DEF n, bytes
  <1>4. bytes + RowPasses(n \div n) \in Nat  BY <1>1, <1>3
  <1> QED BY <1>4 DEF DigitPasses, GroupedSort, RadixPlan, n, bytes

LEMMA GroupedBound ==
  ASSUME NEW r, DigitPasses(GroupedSort(r)) \in Nat, NEW i \in DOMAIN GroupedPasses(r)
  PROVE  /\ i \in 1..Len(GroupedPasses(r)) /\ Len(GroupedPasses(r)) \in Nat /\ Len(GroupedPasses(r)) > 1
         /\ i = 1 => Bound(GroupedPasses(r)[i].touches, {"src", "index"}, {"scratch", "status"})
         /\ i \in 2..(Len(GroupedPasses(r)) - 1) => Bound(GroupedPasses(r)[i].touches, {"index", "out"}, {"scratch"})
         /\ i = Len(GroupedPasses(r)) => Bound(GroupedPasses(r)[i].touches, {"src", "scratch", "status"}, {"out"})
         /\ GroupedPasses(r)[i].kernel \in {<<"index">>, <<"radix">>}
  <1> DEFINE
      n == Count(Extents(r))
      keys == GroupKeys(r)
      s == GroupedSort(r)
      half == DigitPasses(s) % 2
      sort == RadixSort(s, keys)
      q == sort.passes
      At(e) == sort.order[e + 1]
      Key(e) == keys[At(e)]
      Run(e) == {p \in e..(n - 1) : Key(p) = Key(e)}
      First(e) == Key(e) # Sentinel(Fibers(r) * r.bound) /\ (e = 0 \/ Key(e - 1) # Key(e))
      How == IF Bytes(r.type) >= 4 THEN "write" ELSE "atomic"
      KeyOf(e) == {IndexTouch(r, e)} \cup StatusTouch(r, e) \cup PairTouches(s, "write", 0, e)
      Looked(e) == {WordTouch("scratch", "read", KeyWord(s, half, p, 0)) : p \in {Most(e - 1, 0), e}}
      KeyAt(p) == WordTouch("scratch", "read", KeyWord(s, half, p, 0))
      PositionAt(p) == WordTouch("scratch", "read", PositionWord(s, half, p))
      Store(p) == StoreTouch(r, How, At(p))
      Source(p) == SourceTouch(r, Coordinates(At(p), Extents(r)))
      Added(p) == {KeyAt(p), PositionAt(p), Store(p)} \cup Source(p)
      RunOf(e) == Looked(e) \cup IF ~First(e) THEN {} ELSE UNION {Added(p) : p \in Run(e)}
      keyed == [e \in 0..(n - 1) |-> KeyOf(e)]
      summed == [e \in 0..(n - 1) |-> RunOf(e)]
      first == Pass(<<"index">>, n, Lanes, Folded(n, Lanes), keyed)
      final == Pass(<<"index">>, n, Lanes, Folded(n, Lanes), summed)
      T == {q[k] : k \in DOMAIN q} \cup {first, final}
      w == GroupedPasses(r)
  <1>1. w = <<first>> \o q \o <<final>>  BY DEF GroupedPasses
  <1>2. Bound(keyed, {"src", "index"}, {"scratch", "status"})
    <2>1. ASSUME NEW e \in DOMAIN keyed, NEW t \in keyed[e]
          PROVE  t.at \in {"scratch", "status"} \/ (t.how = "read" /\ t.at \in {"src", "index"})
      <3>1. t = IndexTouch(r, e) \/ t \in StatusTouch(r, e) \/ t \in PairTouches(s, "write", 0, e)
        OBVIOUS
      <3>2. t = IndexTouch(r, e) => t.at = "index" /\ t.how = "read"  BY IndexOperands
      <3>3. t \in StatusTouch(r, e) => t.at = "status"  BY IndexOperands
      <3>4. t \in PairTouches(s, "write", 0, e) => t.at = "scratch"  BY PairInScratch
      <3> QED BY <3>1, <3>2, <3>3, <3>4
    <2> HIDE DEF keyed
    <2> QED BY <2>1, BoundOverUnits
  <1>3. Bound(summed, {"src", "scratch", "status"}, {"out"})
    <2> DEFINE Fine(t) == t.at \in {"out"} \/ (t.how = "read" /\ t.at \in {"src", "scratch", "status"})
    <2>1. ASSUME NEW word PROVE Fine(WordTouch("scratch", "read", word))  BY DEF WordTouch, Touch
    <2>2. ASSUME NEW p, NEW t \in Added(p) PROVE Fine(t)
      <3>1. Store(p).at = "out" /\ \A x \in Source(p) : x.at = "src" /\ x.how = "read"  BY IndexOperands
      <3>2. Fine(KeyAt(p)) /\ Fine(PositionAt(p))  BY <2>1
      <3> HIDE DEF KeyAt, PositionAt, Store, Source
      <3>3. t = KeyAt(p) \/ t = PositionAt(p) \/ t = Store(p) \/ t \in Source(p)  BY <2>2
      <3> QED BY <3>1, <3>2, <3>3
    <2> HIDE DEF Fine
    <2>3. ASSUME NEW e, NEW t \in Looked(e) PROVE Fine(t)  BY <2>1
    <2>4. ASSUME NEW e, NEW t \in RunOf(e) PROVE Fine(t)
      <3> HIDE DEF Looked, Added, First, Run
      <3>1. t \in Looked(e) \/ \E p \in Run(e) : t \in Added(p)  BY <2>4
      <3> QED BY <2>2, <2>3, <3>1
    <2> HIDE DEF RunOf
    <2>5. ASSUME NEW e \in DOMAIN summed, NEW t \in summed[e]
          PROVE  t.at \in {"out"} \/ (t.how = "read" /\ t.at \in {"src", "scratch", "status"})
      <3>1. t \in RunOf(e)  OBVIOUS
      <3> QED BY <2>4, <3>1 DEF Fine
    <2> HIDE DEF summed
    <2> QED BY <2>5, BoundOverUnits
  <1>4. /\ q \in Seq({q[k] : k \in DOMAIN q}) /\ DOMAIN q = 1..Len(q) /\ Len(q) \in Nat
        /\ \A k \in DOMAIN q : InScratch(q[k])
    <2> HIDE DEF s, keys
    <2>1. DigitPasses(s) \in Nat  BY DEF s
    <2>2. /\ DOMAIN q = 1..(3 * DigitPasses(s)) /\ Len(q) = 3 * DigitPasses(s)
          /\ q \in Seq({q[k] : k \in DOMAIN q})
          /\ \A k \in DOMAIN q : InScratch(q[k])
      BY <2>1, SortInScratch
    <2> QED BY <2>1, <2>2
  <1> HIDE DEF keyed, summed
  <1>5. /\ first.kernel = <<"index">> /\ first.touches = keyed
        /\ final.kernel = <<"index">> /\ final.touches = summed
    BY PassFields
  <1> HIDE DEF q, first, final, w, s, n
  <1>6. first \in T /\ final \in T /\ q \in Seq(T)  BY <1>4
  <1> HIDE DEF T
  <1>7. /\ w \in Seq(T) /\ Len(w) = Len(q) + 2 /\ w[1] = first /\ w[Len(w)] = final
        /\ \A k \in 2..(Len(w) - 1) : w[k] = q[k - 1] /\ k - 1 \in 1..Len(q)
    BY <1>1, <1>6, Sandwich
  <1>8. i \in 1..Len(w) /\ Len(w) \in Nat /\ Len(w) > 1  BY <1>4, <1>7 DEF w
  <1>9. CASE i = 1
    <2>1. w[i] = first /\ i # Len(w) /\ i \notin 2..(Len(w) - 1)  BY <1>7, <1>8, <1>9
    <2>2. Bound(w[i].touches, {"src", "index"}, {"scratch", "status"}) /\ w[i].kernel = <<"index">>
      BY <1>2, <1>5, <2>1
    <2> QED BY <1>8, <1>9, <2>1, <2>2 DEF w
  <1>10. CASE i = Len(w)
    <2>1. w[i] = final /\ i # 1 /\ i \notin 2..(Len(w) - 1)  BY <1>7, <1>8, <1>10
    <2>2. Bound(w[i].touches, {"src", "scratch", "status"}, {"out"}) /\ w[i].kernel = <<"index">>
      BY <1>3, <1>5, <2>1
    <2> QED BY <1>8, <1>10, <2>1, <2>2 DEF w
  <1>11. CASE i # 1 /\ i # Len(w)
    <2>1. i \in 2..(Len(w) - 1)  BY <1>8, <1>11
    <2>2. InScratch(w[i])  BY <1>4, <1>7, <2>1
    <2>3. Bound(w[i].touches, {"index", "out"}, {"scratch"}) /\ w[i].kernel = <<"radix">>
      BY <2>2 DEF InScratch, Bound
    <2> QED BY <1>8, <1>11, <2>3 DEF w
  <1> QED BY <1>9, <1>10, <1>11

LEMMA PositiveCount ==
  ASSUME NEW e \in [Dims -> Nat], ~(0 \in {e[k] : k \in Dims}) PROVE Count(e) \in Nat \ {0}
  <1>1. e[1] \in Nat \ {0} /\ e[2] \in Nat \ {0} /\ e[3] \in Nat \ {0} /\ e[4] \in Nat \ {0}
    BY DEF Dims
  <1> DEFINE a == e[1] * e[2]
             b == a * e[3]
  <1>2. a \in Nat \ {0}  BY <1>1
  <1>3. b \in Nat \ {0}
    <2> HIDE DEF a
    <2> QED BY <1>1, <1>2
  <1>4. b * e[4] \in Nat \ {0}
    <2> HIDE DEF b
    <2> QED BY <1>1, <1>3
  <1> QED BY <1>4 DEF Count

LEMMA IndexPrepared ==
  ASSUME plan = IndexEntry(request), Indexing(request) PROVE PassesArePrepared
  <1> DEFINE
      r == request
      answer == IndexPlan(r)
      coded == Coded(answer, {"AddressOverflow", "StatusSlotOutOfRange"})
      strategy == IF r.op = "Gather" THEN "Gather" ELSE IndexStrategy(r)
      built == {<<"index">>} \cup IF MayPlanGrouped(r) THEN {<<"radix">>} ELSE {}
      Access(i, pass) == IndexAccess(strategy, Len(coded.passes), i, pass)
      n == Count(Extents(r))
      words == IF Bytes(r.type) = 8 THEN n ELSE CeilDiv(n * Bytes(r.type), 4)
      share == ScatterSharing(r)
      units == Fibers(r) \div share.group
      How == IF share.atomic THEN "atomic" ELSE "write"
      gathered == [u \in 0..(words - 1) |-> GatherTouches(r, u)]
      walked == [v \in 0..(units - 1) |-> UNION {ScatterTouches(r, How, l) : l \in WalkedBy(r, v)}]
      raised == [l \in 0..(n - 1) |-> ScatterTouches(r, "atomic", l)]
      One(count, touches) == Pass(<<"index">>, count, Lanes, Folded(count, Lanes), touches)
  <1>1. plan = Recorded(coded, built, Access)  BY DEF IndexEntry
  <1>2. Admitted(answer) => FirstOf(IndexRefusals(r)) = "none"  BY RefusalIsRefused DEF IndexPlan
  <1>3. /\ IndexStrategy(r) \in {"Fibers", "AtomicAdd", "Elected", "Grouped"}
        /\ r.op = "Gather" => IndexStrategy(r) = "Fibers"
        /\ IndexStrategy(r) = "Grouped" =>
             r.op = "ScatterAdd" /\ r.type \notin {"I32", "I64"} /\ Extents(r)[Axis(r)] >= LongFiber
    BY StrategyOf
  <1>4. ASSUME FirstOf(IndexRefusals(r)) = "none"
        PROVE  /\ r.op = "Gather" => answer = PlannedWith(<<One(words, gathered)>>, 0)
               /\ r.op # "Gather" /\ IndexStrategy(r) = "Fibers" => answer = PlannedWith(<<One(units, walked)>>, 0)
               /\ IndexStrategy(r) = "AtomicAdd" => answer = PlannedWith(<<One(n, raised)>>, 0)
               /\ IndexStrategy(r) = "Elected" => answer = PlannedWith(ElectedPasses(r), IndexScratchWords(r))
               /\ IndexStrategy(r) = "Grouped" => answer = PlannedWith(GroupedPasses(r), IndexScratchWords(r))
    <2>1. CASE r.op = "Gather"  BY <1>3, <1>4, <2>1 DEF IndexPlan, Planned
    <2>2. CASE r.op # "Gather" /\ IndexStrategy(r) = "Fibers"  BY <1>4, <2>2 DEF IndexPlan, Planned
    <2>3. CASE r.op # "Gather" /\ IndexStrategy(r) = "AtomicAdd"  BY <1>4, <2>3 DEF IndexPlan, Planned
    <2>4. CASE r.op # "Gather" /\ IndexStrategy(r) = "Elected"  BY <1>4, <2>4 DEF IndexPlan
    <2>5. CASE r.op # "Gather" /\ IndexStrategy(r) = "Grouped"  BY <1>4, <2>5 DEF IndexPlan
    <2> QED BY <1>3, <2>1, <2>2, <2>3, <2>4, <2>5
  <1>5. ASSUME Admitted(answer), NEW touches, NEW count, answer = PlannedWith(<<One(count, touches)>>, 0),
               strategy \notin {"Elected", "Grouped"}, Bound(touches, {"src", "index"}, {"out", "status"})
        PROVE  PassesArePrepared
    <2> DEFINE pass == One(count, touches)
               passes == [i \in DOMAIN <<pass>> |-> Access(i, <<pass>>[i])]
    <2>1. pass.kernel = <<"index">> /\ pass.touches = touches  BY PassFields
    <2>2. answer.passes = <<pass>> /\ coded = answer  BY <1>5, PlannedFields, CodedPlan
    <2>3. <<"index">> \in Opened \cup built  OBVIOUS
    <2> HIDE DEF pass, answer, coded, built
    <2>4. plan = Answered(passes, answer.scratch, built)  BY <1>1, <1>5, <2>2 DEF Recorded
    <2>5. PassPrepared(Declaring(pass, {"src", "index"}, {"out", "status"}), built)
      BY <1>5, <2>1, <2>3, DeclaredPrepared
    <2>6. Access(1, pass) = Declaring(pass, {"src", "index"}, {"out", "status"})
      BY <1>5 DEF IndexAccess
    <2> HIDE DEF Access
    <2>7. \A i \in DOMAIN passes : PassPrepared(passes[i], built)  BY <2>5, <2>6
    <2> HIDE DEF passes
    <2> QED BY <2>4, <2>7, AnsweredPrepared
  <1>6. ASSUME Admitted(answer), NEW w, answer = PlannedWith(w, IndexScratchWords(r)),
               \A i \in DOMAIN w : PassPrepared(IndexAccess(strategy, Len(w), i, w[i]), built)
        PROVE  PassesArePrepared
    <2> DEFINE passes == [i \in DOMAIN w |-> Access(i, w[i])]
    <2>1. answer.passes = w /\ coded = answer  BY <1>6, PlannedFields, CodedPlan
    <2> HIDE DEF answer, coded, built, strategy
    <2>2. plan = Answered(passes, answer.scratch, built)  BY <1>1, <1>6, <2>1 DEF Recorded
    <2>3. \A i \in DOMAIN passes : PassPrepared(passes[i], built)  BY <1>6, <2>1
    <2> HIDE DEF passes
    <2> QED BY <2>2, <2>3, AnsweredPrepared
  <1>7. CASE Admitted(answer)
    <2>1. FirstOf(IndexRefusals(r)) = "none"  BY <1>2, <1>7
    <2>2. CASE r.op = "Gather"
      <3>1. Bound(gathered, {"src", "index"}, {"out", "status"})
        <4>1. ASSUME NEW u \in DOMAIN gathered, NEW t \in gathered[u]
              PROVE  t.at \in {"out", "status"} \/ (t.how = "read" /\ t.at \in {"src", "index"})
          <5>1. t \in GatherTouches(r, u)  OBVIOUS
          <5> QED BY <5>1, GatherTouched
        <4> HIDE DEF gathered
        <4> QED BY <4>1, BoundOverUnits
      <3>2. answer = PlannedWith(<<One(words, gathered)>>, 0)  BY <1>4, <2>1, <2>2
      <3>3. strategy = "Gather"  BY <2>2
      <3> HIDE DEF answer, One, words, gathered, strategy
      <3> QED BY <1>5, <1>7, <3>1, <3>2, <3>3
    <2>3. CASE r.op # "Gather" /\ IndexStrategy(r) = "Fibers"
      <3>1. Bound(walked, {"src", "index"}, {"out", "status"})
        <4>1. ASSUME NEW u \in DOMAIN walked, NEW t \in walked[u]
              PROVE  t.at \in {"out", "status"} \/ (t.how = "read" /\ t.at \in {"src", "index"})
          <5>1. \E l : t \in ScatterTouches(r, How, l)
            OBVIOUS
          <5> QED BY <5>1, ScatterTouched
        <4> HIDE DEF walked
        <4> QED BY <4>1, BoundOverUnits
      <3>2. answer = PlannedWith(<<One(units, walked)>>, 0)  BY <1>4, <2>1, <2>3
      <3>3. strategy = "Fibers"  BY <2>3
      <3> HIDE DEF answer, One, units, walked, strategy
      <3> QED BY <1>5, <1>7, <3>1, <3>2, <3>3
    <2>4. CASE r.op # "Gather" /\ IndexStrategy(r) = "AtomicAdd"
      <3>1. Bound(raised, {"src", "index"}, {"out", "status"})
        <4>1. ASSUME NEW u \in DOMAIN raised, NEW t \in raised[u]
              PROVE  t.at \in {"out", "status"} \/ (t.how = "read" /\ t.at \in {"src", "index"})
          <5>1. t \in ScatterTouches(r, "atomic", u)  OBVIOUS
          <5> QED BY <5>1, ScatterTouched
        <4> HIDE DEF raised
        <4> QED BY <4>1, BoundOverUnits
      <3>2. answer = PlannedWith(<<One(n, raised)>>, 0)  BY <1>4, <2>1, <2>4
      <3>3. strategy = "AtomicAdd"  BY <2>4
      <3> HIDE DEF answer, One, n, raised, strategy
      <3> QED BY <1>5, <1>7, <3>1, <3>2, <3>3
    <2>5. CASE r.op # "Gather" /\ IndexStrategy(r) = "Elected"
      <3> DEFINE w == ElectedPasses(r)
      <3>1. answer = PlannedWith(w, IndexScratchWords(r))  BY <1>4, <2>1, <2>5
      <3>2. strategy = "Elected"  BY <2>5
      <3>3. <<"index">> \in Opened \cup built  OBVIOUS
      <3> HIDE DEF built, answer, strategy
      <3>4. ASSUME NEW i \in DOMAIN w PROVE PassPrepared(IndexAccess("Elected", Len(w), i, w[i]), built)
        <4>1. /\ i \in 1..3 /\ w[i].kernel = <<"index">>
              /\ i = 1 => Bound(w[i].touches, {"src", "index", "status"}, {"scratch"})
              /\ i = 2 => Bound(w[i].touches, {"src", "index"}, {"scratch", "status"})
              /\ i = 3 => Bound(w[i].touches, {"src", "index", "scratch"}, {"out"})
          BY ElectedBound
        <4> HIDE DEF w
        <4>2. /\ IndexAccess("Elected", Len(w), 1, w[1]) = Declaring(w[1], {"src", "index", "status"}, {"scratch"})
              /\ IndexAccess("Elected", Len(w), 2, w[2]) = Declaring(w[2], {"src", "index"}, {"scratch", "status"})
              /\ IndexAccess("Elected", Len(w), 3, w[3]) = Declaring(w[3], {"src", "index", "scratch"}, {"out"})
          BY DEF IndexAccess
        <4>3. w[i].kernel \in Opened \cup built  BY <3>3, <4>1
        <4>4. CASE i = 1  BY <4>1, <4>2, <4>3, <4>4, DeclaredPrepared
        <4>5. CASE i = 2  BY <4>1, <4>2, <4>3, <4>5, DeclaredPrepared
        <4>6. CASE i = 3  BY <4>1, <4>2, <4>3, <4>6, DeclaredPrepared
        <4> QED BY <4>1, <4>4, <4>5, <4>6
      <3> HIDE DEF w
      <3> QED BY <1>6, <1>7, <3>1, <3>2, <3>4
    <2>6. CASE r.op # "Gather" /\ IndexStrategy(r) = "Grouped"
      <3> DEFINE w == GroupedPasses(r)
      <3>1. answer = PlannedWith(w, IndexScratchWords(r))  BY <1>4, <2>1, <2>6
      <3>2. strategy = "Grouped"  BY <2>6
      <3>3. r.ndim \in 1..4 /\ r.dim \in Nat /\ r.dim < r.ndim /\ ~(0 \in {Extents(r)[k] : k \in Dims})
        BY <2>1, IndexNothingRefused DEF BadRank, Indexing, Shaped
      <3>4. /\ Extents(r) \in [Dims -> Nat]
            /\ \A d \in 1..r.ndim : Extents(r)[4 - r.ndim + d] = r.shape[d]
        BY <3>3, ShapeInFour DEF Indexing
      <3>5. r.shape[r.dim + 1] >= LongFiber
        <4>1. r.dim + 1 \in 1..r.ndim  BY <3>3
        <4>2. Extents(r)[4 - r.ndim + (r.dim + 1)] = r.shape[r.dim + 1]  BY <3>4, <4>1
        <4>3. Axis(r) = 4 - r.ndim + (r.dim + 1)  BY <3>3 DEF Axis
        <4> QED BY <1>3, <2>6, <4>2, <4>3
      <3>6. MayPlanGrouped(r)  BY <1>3, <2>6, <3>3, <3>5 DEF MayPlanGrouped
      <3>7. <<"index">> \in Opened \cup built /\ <<"radix">> \in Opened \cup built  BY <3>6
      <3>8. DigitPasses(GroupedSort(r)) \in Nat  BY <3>3, <3>4, PositiveCount, GroupedSortOf
      <3> HIDE DEF built, answer, strategy
      <3>9. ASSUME NEW i \in DOMAIN w PROVE PassPrepared(IndexAccess("Grouped", Len(w), i, w[i]), built)
        <4>1. /\ i \in 1..Len(w) /\ Len(w) \in Nat /\ Len(w) > 1
              /\ i = 1 => Bound(w[i].touches, {"src", "index"}, {"scratch", "status"})
              /\ i \in 2..(Len(w) - 1) => Bound(w[i].touches, {"index", "out"}, {"scratch"})
              /\ i = Len(w) => Bound(w[i].touches, {"src", "scratch", "status"}, {"out"})
              /\ w[i].kernel \in {<<"index">>, <<"radix">>}
          BY <3>8, GroupedBound
        <4> HIDE DEF w
        <4>2. w[i].kernel \in Opened \cup built  BY <3>7, <4>1
        <4>3. CASE i = 1
          <5>1. IndexAccess("Grouped", Len(w), i, w[i]) = Declaring(w[i], {"src", "index"}, {"scratch", "status"})
            BY <4>1, <4>3 DEF IndexAccess
          <5> QED BY <4>1, <4>2, <4>3, <5>1, DeclaredPrepared
        <4>4. CASE i \in 2..(Len(w) - 1)
          <5>1. IndexAccess("Grouped", Len(w), i, w[i]) = Declaring(w[i], {"index", "out"}, {"scratch"})
            BY <4>1, <4>4 DEF IndexAccess
          <5> QED BY <4>1, <4>2, <4>4, <5>1, DeclaredPrepared
        <4>5. CASE i = Len(w)
          <5>1. IndexAccess("Grouped", Len(w), i, w[i]) = Declaring(w[i], {"src", "scratch", "status"}, {"out"})
            BY <4>1, <4>5 DEF IndexAccess
          <5> QED BY <4>1, <4>2, <4>5, <5>1, DeclaredPrepared
        <4> QED BY <4>1, <4>3, <4>4, <4>5
      <3> HIDE DEF w
      <3> QED BY <1>6, <1>7, <3>1, <3>2, <3>9
    <2> QED BY <1>3, <2>2, <2>3, <2>4, <2>5, <2>6
  <1>8. CASE ~Admitted(answer)
    <2>1. coded \in {Refused("SIZE"), Refused("SHAPE")}  BY <1>8, CodedPlan
    <2>2. ~Admitted(coded)  BY <2>1, RefusalIsRefused
    <2> HIDE DEF coded, built
    <2>3. plan = coded  BY <1>1, <2>2 DEF Recorded
    <2> QED BY <2>1, <2>3, RefusedPrepared
  <1> QED BY <1>7, <1>8

----------------------------------------
(* The plan in force answers the request in force: nothing is kept between *)
(* two calls, so what a call does not compute no later call sees.          *)
AnswerTo(r, p) ==
  \/ p = Refused("none asked")
  \/ r \in Requests("convert") /\ p = ConvertEntry(r)
  \/ r \in Requests("pointwise") /\ p = PointwiseEntry(r)
  \/ r \in Requests("index") /\ p = IndexEntry(r)
  \/ r \in Requests("intwise") /\ p = IntwiseEntry(r)
  \/ r \in Requests("reduce") /\ p = ReduceEntry(r)
  \/ r \in Requests("rowwise") /\ p = RowEntry(r)
  \/ r \in Requests("loss") /\ p = LossEntry(r)
  \/ r \in Requests("embedding") /\ p = EmbeddingEntry(r)
  \/ r \in Requests("student_norm") /\ p = NormEntry(r)
  \/ r \in Requests("rotary") /\ p = RotaryEntry(r)
  \/ r \in Requests("swiglu") /\ p = SwigluEntry(r)
  \/ r \in Requests("swiglu_scaled") /\ p = ScaledEntry(r)
  \/ r \in Requests("weighted_bag") /\ p = BagEntry(r)
  \/ r \in Requests("head_lse") /\ p = LseEntry(r)
  \/ r \in Requests("head_grad") /\ p = GradEntry(r)
  \/ r \in Requests("expert_factor") /\ p = FactorEntry(r)
  \/ r \in Requests("amp_unscale") /\ p = UnscaleEntry(r)
  \/ r \in Requests("amp_update") /\ p = UpdateEntry(r)
  \/ r \in Requests("vq") /\ p = VqEntry(r)
  \/ r \in Requests("cast") /\ p = CastEntry(r)
  \/ r \in Requests("matmul_f32") /\ p = ProductEntry(r)
  \/ r \in Requests("matmul_16") /\ p = HalfEntry(r)
  \/ r \in Requests("nf4_decode") /\ p = DecodeEntry(r)
  \/ r \in Requests("nf4_matmul") /\ p = GroupedEntry(r)
  \/ r \in Requests("attention") /\ p = AttentionEntry(r)
Answers == AnswerTo(request, plan)

\* Whatever has been asked before, the plan is the entry's answer to the
\* request alone, or there is none.
LEMMA PlanIsTheAnswer == Spec => []Answers
  <1>1. Init => Answers  BY DEF Init, Answers, AnswerTo
  <1>2. Answers /\ [Next]_vars => Answers'
    <2> SUFFICES ASSUME Answers, [Next]_vars PROVE Answers'  OBVIOUS
    <2>1. CASE AskConvert  BY <2>1 DEF AskConvert, Asked, Answers, AnswerTo
    <2>2. CASE AskPointwise  BY <2>2 DEF AskPointwise, Asked, Answers, AnswerTo
    <2>3. CASE AskIndex  BY <2>3 DEF AskIndex, Asked, Answers, AnswerTo
    <2>4. CASE AskIntwise  BY <2>4 DEF AskIntwise, Asked, Answers, AnswerTo
    <2>5. CASE AskReduce  BY <2>5 DEF AskReduce, Asked, Answers, AnswerTo
    <2>6. CASE AskRowwise  BY <2>6 DEF AskRowwise, Asked, Answers, AnswerTo
    <2>7. CASE AskLoss  BY <2>7 DEF AskLoss, Asked, Answers, AnswerTo
    <2>8. CASE AskEmbedding  BY <2>8 DEF AskEmbedding, Asked, Answers, AnswerTo
    <2>9. CASE AskStudentNorm  BY <2>9 DEF AskStudentNorm, Asked, Answers, AnswerTo
    <2>10. CASE AskRotary  BY <2>10 DEF AskRotary, Asked, Answers, AnswerTo
    <2>11. CASE AskSwiglu  BY <2>11 DEF AskSwiglu, Asked, Answers, AnswerTo
    <2>12. CASE AskScaled  BY <2>12 DEF AskScaled, Asked, Answers, AnswerTo
    <2>13. CASE AskBag  BY <2>13 DEF AskBag, Asked, Answers, AnswerTo
    <2>14. CASE AskHeadLse  BY <2>14 DEF AskHeadLse, Asked, Answers, AnswerTo
    <2>15. CASE AskHeadGrad  BY <2>15 DEF AskHeadGrad, Asked, Answers, AnswerTo
    <2>16. CASE AskFactor  BY <2>16 DEF AskFactor, Asked, Answers, AnswerTo
    <2>17. CASE AskUnscale  BY <2>17 DEF AskUnscale, Asked, Answers, AnswerTo
    <2>18. CASE AskUpdate  BY <2>18 DEF AskUpdate, Asked, Answers, AnswerTo
    <2>19. CASE AskVq  BY <2>19 DEF AskVq, Asked, Answers, AnswerTo
    <2>20. CASE AskCast  BY <2>20 DEF AskCast, Asked, Answers, AnswerTo
    <2>21. CASE AskProduct  BY <2>21 DEF AskProduct, Asked, Answers, AnswerTo
    <2>22. CASE AskHalf  BY <2>22 DEF AskHalf, Asked, Answers, AnswerTo
    <2>23. CASE AskDecode  BY <2>23 DEF AskDecode, Asked, Answers, AnswerTo
    <2>24. CASE AskGrouped  BY <2>24 DEF AskGrouped, Asked, Answers, AnswerTo
    <2>25. CASE AskAttention  BY <2>25 DEF AskAttention, Asked, Answers, AnswerTo
    <2>26. CASE Forget  BY <2>26 DEF Forget, Answers, AnswerTo
    <2>27. CASE UNCHANGED vars
      <3>1. request' = request /\ plan' = plan  BY <2>27 DEF vars
      <3> QED BY <3>1 DEF Answers
    <2> QED
      BY <2>1, <2>2, <2>3, <2>4, <2>5, <2>6, <2>7, <2>8, <2>9, <2>10, <2>11, <2>12, <2>13, <2>14, <2>15, <2>16, <2>17, <2>18, <2>19, <2>20, <2>21, <2>22, <2>23, <2>24, <2>25, <2>26, <2>27 DEF Next
  <1> QED BY <1>1, <1>2, PTL DEF Spec

LEMMA AnsweredInFull ==
  ASSUME Answers PROVE PassesArePrepared
  <1>1. CASE plan = Refused("none asked")  BY <1>1, RefusedPrepared
  <1>2. CASE request \in Requests("convert") /\ plan = ConvertEntry(request)  BY <1>2, ConvertPrepared
  <1>3. CASE request \in Requests("pointwise") /\ plan = PointwiseEntry(request)
    BY <1>3, PointwisePrepared
  <1>4. CASE request \in Requests("index") /\ plan = IndexEntry(request)
    <2>1. Indexing(request)  BY <1>4, RequestAssumption DEF Indexing
    <2> QED BY <1>4, <2>1, IndexPrepared
  <1>5. CASE request \in Requests("intwise") /\ plan = IntwiseEntry(request)
    <2>1. Shaped(request) /\ request.type["x"] \in Floats \cup IntegerCodes  BY <1>5, RequestAssumption
    <2> QED BY <1>5, <2>1, IntwisePrepared
  <1>6. CASE request \in Requests("reduce") /\ plan = ReduceEntry(request)
    <2>1. request.v1Only \in BOOLEAN /\ request.f64 \in BOOLEAN /\ request.in16 \in BOOLEAN /\ request.out16 \in BOOLEAN
      BY <1>6, RequestAssumption
    <2> QED BY <1>6, <2>1, ReducePrepared
  <1>7. CASE request \in Requests("rowwise") /\ plan = RowEntry(request)  BY <1>7, RowPrepared
  <1>8. CASE request \in Requests("loss") /\ plan = LossEntry(request)
    <2>1. request.kind \in LossKinds /\ request.primary16 \in BOOLEAN /\ request.out16 \in BOOLEAN
      BY <1>8, RequestAssumption
    <2> QED BY <1>8, <2>1, LossPrepared
  <1>9. CASE request \in Requests("embedding") /\ plan = EmbeddingEntry(request)
    BY <1>9, EmbeddingPrepared
  <1>10. CASE request \in Requests("student_norm") /\ plan = NormEntry(request)
    <2>1. request.kind \in QkKinds \cup {"Norm", "NormBackward"} /\ request.rows \in Nat /\ request.d \in Nat
      BY <1>10, RequestAssumption
    <2> QED BY <1>10, <2>1, NormPrepared
  <1>11. CASE request \in Requests("rotary") /\ plan = RotaryEntry(request)  BY <1>11, RotaryPrepared
  <1>12. CASE request \in Requests("swiglu") /\ plan = SwigluEntry(request)
    <2>1. request.kind \in {"Forward", "Backward"}  BY <1>12, RequestAssumption
    <2> QED BY <1>12, <2>1, SwigluPrepared
  <1>13. CASE request \in Requests("swiglu_scaled") /\ plan = ScaledEntry(request)
    BY <1>13, ScaledPrepared
  <1>14. CASE request \in Requests("weighted_bag") /\ plan = BagEntry(request)
    <2>1. request.kind \in {"Forward", "GradWeights", "GradTable"}  BY <1>14, RequestAssumption
    <2> QED BY <1>14, <2>1, BagPrepared
  <1>15. CASE request \in Requests("head_lse") /\ plan = LseEntry(request)  BY <1>15, LsePrepared
  <1>16. CASE request \in Requests("head_grad") /\ plan = GradEntry(request)  BY <1>16, GradPrepared
  <1>17. CASE request \in Requests("expert_factor") /\ plan = FactorEntry(request)
    <2>1. request.kind \in {"LatentForward", "PackedForward", "LatentBackward", "PackedBackwardRow", "PackedBackwardCol"}
      BY <1>17, RequestAssumption
    <2> QED BY <1>17, <2>1, FactorPrepared
  <1>18. CASE request \in Requests("amp_unscale") /\ plan = UnscaleEntry(request)
    BY <1>18, UnscalePrepared
  <1>19. CASE request \in Requests("amp_update") /\ plan = UpdateEntry(request)
    BY <1>19, UpdatePrepared
  <1>20. CASE request \in Requests("vq") /\ plan = VqEntry(request)
    <2>1. request.kind \in {"Encode", "Decode", "AdamW", "Matmul"}  BY <1>20, RequestAssumption
    <2> QED BY <1>20, <2>1, VqPrepared
  <1>21. CASE request \in Requests("cast") /\ plan = CastEntry(request)  BY <1>21, CastPrepared
  <1>22. CASE request \in Requests("matmul_f32") /\ plan = ProductEntry(request)
    BY <1>22, ProductPrepared
  <1>23. CASE request \in Requests("matmul_16") /\ plan = HalfEntry(request)
    <2>1. request.op = "matmul_16" /\ request.entry \in {"dense", "z", "half", "halfz"}
      BY <1>23, RequestAssumption
    <2> QED BY <1>23, <2>1, HalfPrepared
  <1>24. CASE request \in Requests("nf4_decode") /\ plan = DecodeEntry(request)
    BY <1>24, DecodePrepared
  <1>25. CASE request \in Requests("nf4_matmul") /\ plan = GroupedEntry(request)
    <2>1. request.bT \in BOOLEAN  BY <1>25, RequestAssumption
    <2> QED BY <1>25, <2>1, GroupedPrepared
  <1>26. CASE request \in Requests("attention") /\ plan = AttentionEntry(request)
    <2>1. request.backward \in BOOLEAN  BY <1>26, RequestAssumption
    <2> QED BY <1>26, <2>1, AttentionPrepared
  <1> QED
    BY <1>1, <1>2, <1>3, <1>4, <1>5, <1>6, <1>7, <1>8, <1>9, <1>10, <1>11, <1>12, <1>13, <1>14, <1>15, <1>16, <1>17, <1>18, <1>19, <1>20, <1>21, <1>22, <1>23, <1>24, <1>25, <1>26 DEF Answers, AnswerTo

\* Whatever is asked of the planner, every access of every pass it hands to
\* the recorded batch is declared, and every kernel is built.
THEOREM AlwaysPrepared == Spec => []PassesArePrepared
  BY PlanIsTheAnswer, AnsweredInFull, PTL

----------------------------------------
(* The radix sort: after each digit pass every element stands at its rank, *)
(* by the digits already seen.                                             *)
LEMMA RemainderIs ==
  ASSUME NEW x \in Nat, NEW M \in Nat \ {0}, NEW u \in Nat, NEW w \in Nat, w < M, x = u * M + w
  PROVE  x % M = w /\ x \div M = u
  <1> DEFINE q == x \div M
             m == x % M
  <1>1. q \in Nat /\ m \in Nat /\ m < M /\ x = q * M + m  BY Division
  <1> HIDE DEF q, m
  <1>2. q = u /\ m = w  BY <1>1, QuotientUnique
  <1> QED BY <1>2 DEF q, m

\* One more digit of a number.
LEMMA DigitStep ==
  ASSUME NEW x \in Nat, NEW j \in Nat
  PROVE  /\ Digit(x, j) \in 0..(Digits - 1)
         /\ x % Power[j] \in 0..(Power[j] - 1)
         /\ x % Power[j + 1] = Digit(x, j) * Power[j] + (x % Power[j])
  <1> DEFINE
      B == Digits
      P == Power[j]
      q == x \div P
      m == x % P
      u == q \div B
      d == q % B
  <1>1. B \in Nat \ {0} /\ P \in Nat \ {0} /\ Power[j + 1] = B * P  BY StridedAssumption, PowersOf
  <1> HIDE DEF B, P
  <1>2. q \in Nat /\ m \in 0..(P - 1) /\ x = q * P + m  BY <1>1
  <1> HIDE DEF q, m
  <1>3. u \in Nat /\ d \in 0..(B - 1) /\ q = u * B + d  BY <1>1, <1>2
  <1> HIDE DEF u, d
  <1>4. B * P \in Nat \ {0} /\ d * P + m \in Nat /\ x = u * (B * P) + (d * P + m)
    <2>1. q * P = u * (B * P) + d * P  BY <1>1, <1>3
    <2>2. B * P \in Nat \ {0} /\ d * P \in Nat  BY <1>1, <1>3
    <2>3. u * (B * P) \in Nat  BY <1>3, <2>2
    <2> QED BY <1>2, <2>1, <2>2, <2>3
  <1>5. d * P + m < B * P
    <2>1. B - 1 - d \in Nat  BY <1>1, <1>3
    <2>2. PICK t \in Nat : B = d + 1 + t
      <3>1. B = d + 1 + (B - 1 - d)  BY <1>1, <1>3
      <3> QED BY <2>1, <3>1
    <2>3. B * P = d * P + P + t * P /\ t * P \in Nat  BY <1>1, <1>3, <2>2
    <2> QED BY <1>1, <1>2, <1>3, <2>3
  <1>6. x % (B * P) = d * P + m  BY <1>3, <1>4, <1>5, RemainderIs
  <1>7. Digit(x, j) = d  BY DEF Digit, d, q, P, B
  <1> QED BY <1>1, <1>2, <1>3, <1>6, <1>7 DEF B, P, m

\* Numbers compared by one more digit.
DigitTells(x, y, j) ==
  /\ x % Power[j + 1] < y % Power[j + 1] <=>
       (Digit(x, j) < Digit(y, j) \/ (Digit(x, j) = Digit(y, j) /\ x % Power[j] < y % Power[j]))
  /\ x % Power[j + 1] = y % Power[j + 1] <=>
       (Digit(x, j) = Digit(y, j) /\ x % Power[j] = y % Power[j])

LEMMA DigitCompares ==
  ASSUME NEW x \in Nat, NEW y \in Nat, NEW j \in Nat PROVE DigitTells(x, y, j)
  <1> SUFFICES /\ x % Power[j + 1] < y % Power[j + 1] <=>
                    (Digit(x, j) < Digit(y, j) \/ (Digit(x, j) = Digit(y, j) /\ x % Power[j] < y % Power[j]))
               /\ x % Power[j + 1] = y % Power[j + 1] <=>
                    (Digit(x, j) = Digit(y, j) /\ x % Power[j] = y % Power[j])
    BY DEF DigitTells
  <1> DEFINE
      P == Power[j]
      c == Digit(x, j)
      d == Digit(y, j)
      k == x % P
      m == y % P
      v == x % Power[j + 1]
      w == y % Power[j + 1]
  <1>1. P \in Nat \ {0}  BY PowersOf
  <1>0. Digits \in Nat  BY StridedAssumption
  <1>2. c \in Nat /\ k \in 0..(P - 1) /\ v = c * P + k
    <2>1. c \in 0..(Digits - 1) /\ k \in 0..(P - 1) /\ v = c * P + k  BY DigitStep
    <2> QED BY <1>0, <2>1
  <1>3. d \in Nat /\ m \in 0..(P - 1) /\ w = d * P + m
    <2>1. d \in 0..(Digits - 1) /\ m \in 0..(P - 1) /\ w = d * P + m  BY DigitStep
    <2> QED BY <1>0, <2>1
  <1> HIDE DEF P, c, d, k, m, v, w
  <1>4. c * P \in Nat /\ d * P \in Nat  BY <1>1, <1>2, <1>3
  <1>5. CASE c = d
    <2>1. c * P = d * P  BY <1>5
    <2> QED BY <1>1, <1>2, <1>3, <1>4, <1>5, <2>1 DEF P, c, d, k, m, v, w
  <1>6. CASE c < d
    <2>1. d - 1 - c \in Nat /\ d = c + 1 + (d - 1 - c)  BY <1>2, <1>3, <1>6
    <2>2. PICK t \in Nat : d = c + 1 + t  BY <2>1
    <2>3. d * P = c * P + P + t * P /\ t * P \in Nat  BY <1>1, <1>2, <2>2
    <2>4. v < w  BY <1>1, <1>2, <1>3, <1>4, <2>3
    <2>5. v \in Nat /\ w \in Nat  BY <1>1, <1>2, <1>3, <1>4
    <2> QED BY <1>2, <1>3, <1>6, <2>4, <2>5 DEF P, c, d, k, m, v, w
  <1>7. CASE c > d
    <2>1. c - 1 - d \in Nat /\ c = d + 1 + (c - 1 - d)  BY <1>2, <1>3, <1>7
    <2>2. PICK t \in Nat : c = d + 1 + t  BY <2>1
    <2>3. c * P = d * P + P + t * P /\ t * P \in Nat  BY <1>1, <1>3, <2>2
    <2>4. w < v  BY <1>1, <1>2, <1>3, <1>4, <2>3
    <2>5. v \in Nat /\ w \in Nat  BY <1>1, <1>2, <1>3, <1>4
    <2> QED BY <1>2, <1>3, <1>7, <2>4, <2>5 DEF P, c, d, k, m, v, w
  <1> QED BY <1>2, <1>3, <1>5, <1>6, <1>7

----------------------------------------
(* Ranks in a linear order of the naturals below n.                        *)

\* A strict linear order of 0 .. n-1, and the rank of an element in it.
Linear(n, L) ==
  /\ \A a \in 0..(n - 1) : <<a, a>> \notin L
  /\ \A a, b, c \in 0..(n - 1) : <<a, b>> \in L /\ <<b, c>> \in L => <<a, c>> \in L
  /\ \A a, b \in 0..(n - 1) : a # b => <<a, b>> \in L \/ <<b, a>> \in L
Lower(n, L, e) == {f \in 0..(n - 1) : <<f, e>> \in L}
RankIn(n, L, e) == Cardinality(Lower(n, L, e))

LEMMA LowerFinite ==
  ASSUME NEW n \in Nat, NEW L, Linear(n, L), NEW e \in 0..(n - 1)
  PROVE  /\ IsFiniteSet(Lower(n, L, e)) /\ Lower(n, L, e) \subseteq 0..(n - 1) /\ e \notin Lower(n, L, e)
         /\ RankIn(n, L, e) \in 0..(n - 1)
  <1> DEFINE S == 0..(n - 1)
             T == Lower(n, L, e)
  <1>1. IsFiniteSet(S) /\ Cardinality(S) = n
    <2>1. 0 \in Int /\ n - 1 \in Int /\ n > 0  OBVIOUS
    <2> QED BY <2>1, FS_Interval
  <1>2. T \subseteq S /\ e \in S /\ e \notin T  BY DEF Lower, Linear
  <1> HIDE DEF S, T
  <1>3. IsFiniteSet(T) /\ Cardinality(T) \in Nat  BY <1>1, <1>2, FS_Subset, FS_CardinalityType
  <1>4. IsFiniteSet(T \cup {e}) /\ Cardinality(T \cup {e}) = Cardinality(T) + 1
    BY <1>2, <1>3, FS_AddElement
  <1>5. T \cup {e} \in SUBSET S  BY <1>2
  <1>6. Cardinality(T \cup {e}) <= Cardinality(S)  BY <1>1, <1>5, FS_Subset
  <1>7. Cardinality(T) \in 0..(n - 1)  BY <1>1, <1>3, <1>4, <1>6
  <1> QED BY <1>2, <1>3, <1>7 DEF S, T, RankIn

LEMMA LowerRank ==
  ASSUME NEW n \in Nat, NEW L, Linear(n, L), NEW a \in 0..(n - 1), NEW b \in 0..(n - 1), <<a, b>> \in L
  PROVE  RankIn(n, L, a) < RankIn(n, L, b)
  <1> DEFINE A == Lower(n, L, a)
             B == Lower(n, L, b)
  <1>1. A \cup {a} \subseteq B  BY DEF Lower, Linear
  <1>2. IsFiniteSet(A) /\ a \notin A /\ IsFiniteSet(B) /\ RankIn(n, L, a) \in 0..(n - 1) /\ RankIn(n, L, b) \in 0..(n - 1)
    BY LowerFinite
  <1>3. RankIn(n, L, a) = Cardinality(A) /\ RankIn(n, L, b) = Cardinality(B)  BY DEF RankIn
  <1> HIDE DEF A, B
  <1>4. Cardinality(A \cup {a}) = Cardinality(A) + 1  BY <1>2, FS_AddElement
  <1>5. A \cup {a} \in SUBSET B  BY <1>1
  <1>6. Cardinality(A \cup {a}) <= Cardinality(B)  BY <1>2, <1>5, FS_Subset
  <1> QED BY <1>2, <1>3, <1>4, <1>6

\* Ranks order as the elements do, and every rank is some element's.
LEMMA RankOrders ==
  ASSUME NEW n \in Nat, NEW L, Linear(n, L), NEW a \in 0..(n - 1), NEW b \in 0..(n - 1)
  PROVE  /\ <<a, b>> \in L <=> RankIn(n, L, a) < RankIn(n, L, b)
         /\ RankIn(n, L, a) = RankIn(n, L, b) => a = b
  <1>1. RankIn(n, L, a) \in 0..(n - 1) /\ RankIn(n, L, b) \in 0..(n - 1)  BY LowerFinite
  <1>2. <<a, b>> \in L => RankIn(n, L, a) < RankIn(n, L, b)  BY LowerRank
  <1>3. <<b, a>> \in L => RankIn(n, L, b) < RankIn(n, L, a)  BY LowerRank
  <1>4. a = b \/ <<a, b>> \in L \/ <<b, a>> \in L  BY DEF Linear
  <1>5. a = b => <<a, b>> \notin L  BY DEF Linear
  <1> QED BY <1>1, <1>2, <1>3, <1>4, <1>5

LEMMA RankOnto ==
  ASSUME NEW n \in Nat, NEW L, Linear(n, L), NEW p \in 0..(n - 1)
  PROVE  \E e \in 0..(n - 1) : RankIn(n, L, e) = p
  <1> DEFINE S == 0..(n - 1)
             F == [e \in S |-> RankIn(n, L, e)]
  <1>1. IsFiniteSet(S)  BY FS_Interval
  <1>2. F \in [S -> S]  BY LowerFinite
  <1>3. \A a, b \in S : F[a] = F[b] => a = b  BY RankOrders
  <1> HIDE DEF F
  <1>4. F \in Injection(S, S)  BY <1>2, <1>3 DEF Injection, IsInjective
  <1>5. F \in Surjection(S, S)  BY <1>1, <1>4, FS_Injection
  <1>6. \E e \in S : F[e] = p  BY <1>5 DEF Surjection
  <1> QED BY <1>6 DEF F

----------------------------------------
(* The order a digit pass leaves.                                          *)

\* What the first j passes compare: so many digits of the key, then of the
\* row, then the place.
KeyPart(s, keys, j, e) == IF j <= s.values THEN keys[e] % Power[j] ELSE keys[e]
RowPart(s, j, e) == IF j <= s.values THEN 0 ELSE (e \div s.row) % Power[j - s.values]
Sooner(s, keys, j, a, b) ==
  \/ RowPart(s, j, a) < RowPart(s, j, b)
  \/ /\ RowPart(s, j, a) = RowPart(s, j, b)
     /\ \/ KeyPart(s, keys, j, a) < KeyPart(s, keys, j, b)
        \/ KeyPart(s, keys, j, a) = KeyPart(s, keys, j, b) /\ a < b
Order(s, keys, j) == {c \in (0..(s.n - 1)) \X (0..(s.n - 1)) : Sooner(s, keys, j, c[1], c[2])}

\* A sort to be made: keys no wider than it has passes for.
Sortable(s, keys) ==
  /\ s.n \in Nat /\ s.row \in Nat \ {0} /\ s.values \in Nat /\ s.rows \in Nat
  /\ \A i \in 0..(s.n - 1) : keys[i] \in 0..(Power[s.values] - 1)

LEMMA RemainderNatural ==
  ASSUME NEW x \in Nat, NEW j \in Nat PROVE x % Power[j] \in Nat
  <1> DEFINE P == Power[j]
  <1>1. P \in Nat \ {0}  BY PowersOf
  <1> HIDE DEF P
  <1>2. x % P \in Nat  BY <1>1
  <1> QED BY <1>2 DEF P

LEMMA PartsNatural ==
  ASSUME NEW s, NEW keys, Sortable(s, keys), NEW j \in Nat, NEW e \in 0..(s.n - 1)
  PROVE  KeyPart(s, keys, j, e) \in Nat /\ RowPart(s, j, e) \in Nat /\ e \div s.row \in Nat /\ keys[e] \in Nat
  <1>1. s.values \in Nat /\ Power[s.values] \in Nat /\ keys[e] \in 0..(Power[s.values] - 1)
    BY PowersOf DEF Sortable
  <1>2. keys[e] \in Nat  BY <1>1
  <1>3. s.row \in Nat \ {0} /\ e \in Nat  BY DEF Sortable
  <1>4. e \div s.row \in Nat  BY <1>3, Division
  <1>5. keys[e] % Power[j] \in Nat  BY <1>2, RemainderNatural
  <1>6. j > s.values => (e \div s.row) % Power[j - s.values] \in Nat
    <2>1. j > s.values => j - s.values \in Nat  BY <1>1
    <2> QED BY <1>4, <2>1, RemainderNatural
  <1> HIDE DEF Sortable
  <1> QED BY <1>1, <1>2, <1>4, <1>5, <1>6 DEF KeyPart, RowPart

LEMMA OrderLinear ==
  ASSUME NEW s, NEW keys, Sortable(s, keys), NEW j \in Nat
  PROVE  /\ Linear(s.n, Order(s, keys, j))
         /\ \A a, b \in 0..(s.n - 1) : <<a, b>> \in Order(s, keys, j) <=> Sooner(s, keys, j, a, b)
  <1> DEFINE
      S == 0..(s.n - 1)
      L == Order(s, keys, j)
      K(e) == KeyPart(s, keys, j, e)
      R(e) == RowPart(s, j, e)
  <1>1. \A e \in S : K(e) \in Nat /\ R(e) \in Nat /\ e \in Nat  BY PartsNatural DEF Sortable
  <1>2. \A a, b \in S : <<a, b>> \in L <=> R(a) < R(b) \/ (R(a) = R(b) /\ (K(a) < K(b) \/ (K(a) = K(b) /\ a < b)))
    BY DEF Order, Sooner
  <1> HIDE DEF S, L, K, R
  <1>3. \A a \in S : <<a, a>> \notin L  BY <1>1, <1>2
  <1>4. \A a, b, c \in S : <<a, b>> \in L /\ <<b, c>> \in L => <<a, c>> \in L  BY <1>1, <1>2
  <1>5. \A a, b \in S : a # b => <<a, b>> \in L \/ <<b, a>> \in L  BY <1>1, <1>2
  <1>6. Linear(s.n, L)  BY <1>3, <1>4, <1>5 DEF Linear, S
  <1> QED BY <1>2, <1>6 DEF S, L, K, R, Sooner

\* One more pass compares one more digit first.
LEMMA SoonerStep ==
  ASSUME NEW s, NEW keys, Sortable(s, keys), NEW j \in Nat, NEW a \in 0..(s.n - 1), NEW b \in 0..(s.n - 1)
  PROVE  Sooner(s, keys, j + 1, a, b) <=>
           (\/ DigitOf(s, keys, j, a) < DigitOf(s, keys, j, b)
            \/ DigitOf(s, keys, j, a) = DigitOf(s, keys, j, b) /\ Sooner(s, keys, j, a, b))
  <1> DEFINE
      x == keys[a]
      y == keys[b]
      u == a \div s.row
      v == b \div s.row
  <1>1. x \in Nat /\ y \in Nat /\ u \in Nat /\ v \in Nat /\ s.values \in Nat
    BY PartsNatural DEF Sortable
  <1>2. CASE j < s.values
    <2>1. /\ RowPart(s, j, a) = 0 /\ RowPart(s, j, b) = 0 /\ RowPart(s, j + 1, a) = 0 /\ RowPart(s, j + 1, b) = 0
          /\ KeyPart(s, keys, j, a) = x % Power[j] /\ KeyPart(s, keys, j, b) = y % Power[j]
          /\ KeyPart(s, keys, j + 1, a) = x % Power[j + 1] /\ KeyPart(s, keys, j + 1, b) = y % Power[j + 1]
          /\ DigitOf(s, keys, j, a) = Digit(x, j) /\ DigitOf(s, keys, j, b) = Digit(y, j)
      BY <1>1, <1>2 DEF RowPart, KeyPart, DigitOf
    <2>2. DigitTells(x, y, j)
      <3>1. x \in Nat /\ y \in Nat /\ j \in Nat  BY <1>1
      <3> HIDE DEF x, y
      <3> QED BY <3>1, DigitCompares
    <2> HIDE DEF x, y
    <2> QED BY <2>1, <2>2 DEF Sooner, DigitTells
  <1>3. CASE j >= s.values
    <2> DEFINE i == j - s.values
    <2>1. i \in Nat /\ (j + 1) - s.values = i + 1 /\ ~(j < s.values) /\ ~(j + 1 <= s.values)
      BY <1>1, <1>3
    <2>2. /\ RowPart(s, j + 1, a) = u % Power[i + 1] /\ RowPart(s, j + 1, b) = v % Power[i + 1]
          /\ KeyPart(s, keys, j + 1, a) = x /\ KeyPart(s, keys, j + 1, b) = y
          /\ DigitOf(s, keys, j, a) = Digit(u, i) /\ DigitOf(s, keys, j, b) = Digit(v, i)
      BY <2>1 DEF RowPart, KeyPart, DigitOf
    <2>3. RowPart(s, j, a) = u % Power[i] /\ RowPart(s, j, b) = v % Power[i]
      <3>1. CASE j = s.values
        <4>1. i = 0 /\ Power[i] = 1  BY <1>1, <3>1, PowersOf
        <4>2. u % 1 = 0 /\ v % 1 = 0  BY <1>1
        <4>3. RowPart(s, j, a) = 0 /\ RowPart(s, j, b) = 0  BY <1>1, <3>1 DEF RowPart
        <4> QED BY <4>1, <4>2, <4>3
      <3>2. CASE j > s.values  BY <1>1, <3>2 DEF RowPart
      <3> QED BY <1>1, <1>3, <3>1, <3>2
    <2>4. KeyPart(s, keys, j, a) = x /\ KeyPart(s, keys, j, b) = y
      <3>1. CASE j = s.values
        <4>1. x \in 0..(Power[j] - 1) /\ y \in 0..(Power[j] - 1) /\ Power[j] \in Nat
          BY <3>1, PowersOf DEF Sortable
        <4>2. x % Power[j] = x /\ y % Power[j] = y
          <5> DEFINE P == Power[j]
          <5>1. P \in Nat \ {0} /\ x < P /\ y < P /\ x = 0 * P + x /\ y = 0 * P + y  BY <1>1, <4>1
          <5> HIDE DEF P, x, y
          <5>2. x % P = x /\ y % P = y  BY <1>1, <5>1, RemainderIs
          <5> QED BY <5>2 DEF P
        <4> QED BY <1>1, <3>1, <4>2 DEF KeyPart
      <3>2. CASE j > s.values  BY <1>1, <3>2 DEF KeyPart
      <3> QED BY <1>1, <1>3, <3>1, <3>2
    <2>5. DigitTells(u, v, i)
      <3> HIDE DEF u, v, i
      <3> QED BY <1>1, <2>1, DigitCompares
    <2> HIDE DEF x, y, u, v, i
    <2> QED BY <2>2, <2>3, <2>4, <2>5 DEF Sooner, DigitTells
  <1> QED BY <1>1, <1>2, <1>3

\* Every element at its rank.
Standing(s, keys, j) == {<<RankIn(s.n, Order(s, keys, j), e), e>> : e \in 0..(s.n - 1)}

LEMMA StandingFirst ==
  ASSUME NEW s, NEW keys, Sortable(s, keys)
  PROVE  Standing(s, keys, 0) = {<<i, i>> : i \in 0..(s.n - 1)}
  <1> DEFINE L == Order(s, keys, 0)
  <1>1. Linear(s.n, L) /\ \A a, b \in 0..(s.n - 1) : <<a, b>> \in L <=> Sooner(s, keys, 0, a, b)
    BY OrderLinear
  <1>2. ASSUME NEW e \in 0..(s.n - 1) PROVE KeyPart(s, keys, 0, e) = 0 /\ RowPart(s, 0, e) = 0
    <2>1. s.values \in Nat /\ keys[e] \in Nat /\ Power[0] = 1  BY PartsNatural, PowersOf DEF Sortable
    <2>2. keys[e] % 1 = 0  BY <2>1
    <2> QED BY <2>1, <2>2 DEF KeyPart, RowPart
  <1>3. \A a, b \in 0..(s.n - 1) : Sooner(s, keys, 0, a, b) <=> a < b  BY <1>2 DEF Sooner
  <1> HIDE DEF L
  <1>4. ASSUME NEW e \in 0..(s.n - 1) PROVE RankIn(s.n, L, e) = e
    <2>1. s.n \in Nat  BY DEF Sortable
    <2>2. Lower(s.n, L, e) = 0..(e - 1)  BY <1>1, <1>3, <2>1 DEF Lower
    <2>3. Cardinality(0..(e - 1)) = e
      <3>1. e \in Nat /\ 0 \in Int /\ e - 1 \in Int  BY <2>1
      <3>2. Cardinality(0..(e - 1)) = IF 0 > e - 1 THEN 0 ELSE (e - 1) - 0 + 1  BY <3>1, FS_Interval
      <3> QED BY <3>1, <3>2
    <2> QED BY <2>2, <2>3 DEF RankIn
  <1> QED BY <1>4 DEF Standing, L

\* One pass moves every element to its next rank.
LEMMA StandingNext ==
  ASSUME NEW s, NEW keys, Sortable(s, keys), NEW j \in Nat
  PROVE  Moved(s, keys, Standing(s, keys, j), j) = Standing(s, keys, j + 1)
  <1> DEFINE
      S == 0..(s.n - 1)
      L == Order(s, keys, j)
      M == Order(s, keys, j + 1)
      At(e) == <<RankIn(s.n, L, e), e>>
      placed == {At(e) : e \in S}
      D(e) == DigitOf(s, keys, j, e)
      Passed(c) == {q \in placed : D(q[2]) < D(c[2]) \/ (D(q[2]) = D(c[2]) /\ q[1] < c[1])}
  <1>0. s.n \in Nat /\ j + 1 \in Nat  BY DEF Sortable
  <1>1. Linear(s.n, L) /\ \A a, b \in S : <<a, b>> \in L <=> Sooner(s, keys, j, a, b)  BY OrderLinear
  <1>2. Linear(s.n, M) /\ \A a, b \in S : <<a, b>> \in M <=> Sooner(s, keys, j + 1, a, b)
    BY <1>0, OrderLinear
  <1>3. \A a, b \in S : <<a, b>> \in M <=> D(a) < D(b) \/ (D(a) = D(b) /\ <<a, b>> \in L)
    <2>1. ASSUME NEW a \in S, NEW b \in S
          PROVE  Sooner(s, keys, j + 1, a, b) <=> D(a) < D(b) \/ (D(a) = D(b) /\ Sooner(s, keys, j, a, b))
      BY SoonerStep
    <2> HIDE DEF S, L, M, D
    <2> QED BY <1>1, <1>2, <2>1
  <1>4. \A a, b \in S : <<a, b>> \in L <=> RankIn(s.n, L, a) < RankIn(s.n, L, b)
    BY <1>0, <1>1, RankOrders
  <1>5. ASSUME NEW c PROVE Target(s, keys, placed, j, c) = Cardinality(Passed(c))  BY DEF Target
  <1> HIDE DEF L, M, D
  <1>6. ASSUME NEW e \in S PROVE Cardinality(Passed(At(e))) = RankIn(s.n, M, e)
    <2> DEFINE
        T == Lower(s.n, M, e)
        F == [f \in T |-> At(f)]
        Q == Passed(At(e))
    <2>1. T \subseteq S /\ IsFiniteSet(T)  BY <1>0, <1>2, LowerFinite
    <2>2. \A f \in S : f \in T <=> D(f) < D(e) \/ (D(f) = D(e) /\ RankIn(s.n, L, f) < RankIn(s.n, L, e))
      BY <1>3, <1>4 DEF Lower
    <2>3. \A f \in S : At(f) \in Q <=> f \in T  BY <2>2
    <2>4. \A q \in Q : \E f \in S : q = At(f)
      OBVIOUS
    <2>5. \A f, g \in S : At(f) = At(g) => f = g
      OBVIOUS
    <2> HIDE DEF T, Q, At
    <2>6. F \in [T -> Q]  BY <2>1, <2>3
    <2>7. F \in Injection(T, Q)  BY <2>1, <2>5, <2>6 DEF Injection, IsInjective
    <2>8. F \in Surjection(T, Q)  BY <2>1, <2>3, <2>4, <2>6 DEF Surjection
    <2>9. ExistsBijection(T, Q)  BY <2>7, <2>8 DEF ExistsBijection, Bijection
    <2>10. Cardinality(Q) = Cardinality(T)  BY <2>1, <2>9, FS_Bijection
    <2> QED BY <2>10 DEF Q, T, RankIn
  <1>7. ASSUME NEW e \in S PROVE <<Target(s, keys, placed, j, At(e)), At(e)[2]>> = <<RankIn(s.n, M, e), e>>
    BY <1>5, <1>6
  <1>8. Moved(s, keys, placed, j) = {<<Target(s, keys, placed, j, c), c[2]>> : c \in placed}
    BY DEF Moved
  <1>9. {<<Target(s, keys, placed, j, c), c[2]>> : c \in placed} = {<<Target(s, keys, placed, j, At(e)), At(e)[2]>> : e \in S}
    OBVIOUS
  <1>10. {<<Target(s, keys, placed, j, At(e)), At(e)[2]>> : e \in S} = {<<RankIn(s.n, M, e), e>> : e \in S}
    BY <1>7
  <1> QED BY <1>8, <1>9, <1>10 DEF Standing, L, M

LEMMA PlacedStands ==
  ASSUME NEW s, NEW keys, Sortable(s, keys), NEW j \in Nat
  PROVE  Placed(s, keys)[j] = Standing(s, keys, j)
  <1> DEFINE
      first == {<<i, i>> : i \in 0..(s.n - 1)}
      F == [k \in Nat |-> Standing(s, keys, k)]
      P == Placed(s, keys)
  <1>1. F = [k \in Nat |-> IF k = 0 THEN first ELSE Moved(s, keys, F[k - 1], k - 1)]
    <2>1. F[0] = first  BY StandingFirst
    <2>2. ASSUME NEW k \in Nat, k # 0 PROVE F[k] = Moved(s, keys, F[k - 1], k - 1)
      <3>1. k - 1 \in Nat /\ (k - 1) + 1 = k  BY <2>2
      <3>2. Moved(s, keys, Standing(s, keys, k - 1), k - 1) = Standing(s, keys, k)
        BY <3>1, StandingNext
      <3> QED BY <3>1, <3>2
    <2>3. F = [k \in Nat |-> F[k]]  OBVIOUS
    <2> HIDE DEF F, first
    <2> QED BY <2>1, <2>2, <2>3
  <1>2. P = CHOOSE f : f = [k \in Nat |-> IF k = 0 THEN first ELSE Moved(s, keys, f[k - 1], k - 1)]
    BY DEF Placed
  <1> HIDE DEF F, P, first
  <1>3. P = [k \in Nat |-> IF k = 0 THEN first ELSE Moved(s, keys, P[k - 1], k - 1)]  BY <1>1, <1>2
  <1> DEFINE T == {k \in Nat : P[k] = Standing(s, keys, k)}
  <1>4. 0 \in T  BY <1>3, StandingFirst DEF first
  <1>5. ASSUME NEW k \in T PROVE k + 1 \in T
    <2>1. k \in Nat /\ k + 1 \in Nat /\ k + 1 # 0 /\ (k + 1) - 1 = k  OBVIOUS
    <2>2. P[k + 1] = Moved(s, keys, P[k], k)  BY <1>3, <2>1
    <2> QED BY <2>1, <2>2, StandingNext
  <1>6. T \subseteq Nat  OBVIOUS
  <1>7. T = Nat
    <2> HIDE DEF T
    <2> QED BY <1>4, <1>5, <1>6, SetInduction
  <1>8. j \in T  BY <1>7, Zenon
  <1> QED BY <1>8 DEF P

\* What the sort leaves at a position: the element of that rank.
LEMMA SortedOrder ==
  ASSUME NEW s, NEW keys, Sortable(s, keys), NEW p \in 1..s.n
  PROVE  /\ RadixSort(s, keys).order[p] \in 0..(s.n - 1)
         /\ RankIn(s.n, Order(s, keys, DigitPasses(s)), RadixSort(s, keys).order[p]) = p - 1
         /\ Len(RadixSort(s, keys).order) = s.n
  <1> DEFINE
      S == 0..(s.n - 1)
      j == DigitPasses(s)
      L == Order(s, keys, j)
      At(e) == <<RankIn(s.n, L, e), e>>
      placed == Placed(s, keys)[j]
      order == [q \in 1..s.n |-> (CHOOSE c \in placed : c[1] = q - 1)[2]]
      c0 == CHOOSE c \in placed : c[1] = p - 1
  <1>0. s.n \in Nat /\ j \in Nat  BY DEF Sortable, DigitPasses
  <1>1. placed = {At(e) : e \in S}
    <2>1. placed = Standing(s, keys, j)  BY <1>0, PlacedStands
    <2> QED BY <2>1 DEF Standing
  <1>2. RadixSort(s, keys).order = order  BY DEF RadixSort
  <1>3. Linear(s.n, L)  BY <1>0, OrderLinear
  <1> HIDE DEF L, placed, j
  <1>4. \E e \in S : RankIn(s.n, L, e) = p - 1  BY <1>0, <1>3, RankOnto
  <1>5. c0 \in placed /\ c0[1] = p - 1
    <2>1. \E c \in placed : c[1] = p - 1
      <3>1. PICK e \in S : RankIn(s.n, L, e) = p - 1  BY <1>4
      <3>2. At(e) \in placed /\ At(e)[1] = p - 1  BY <1>1, <3>1
      <3> HIDE DEF At
      <3> QED BY <3>2
    <2> QED BY <2>1
  <1>6. c0[2] \in S /\ RankIn(s.n, L, c0[2]) = p - 1
    <2>1. PICK e \in S : c0 = At(e)  BY <1>1, <1>5
    <2> HIDE DEF c0
    <2> QED BY <1>5, <2>1
  <1>7. order[p] = c0[2] /\ Len(order) = s.n  BY <1>0
  <1> HIDE DEF order, c0
  <1> QED BY <1>2, <1>6, <1>7 DEF L, j

\* The rows of ranks that are sorted divide the elements.
LEMMA RankSortIs ==
  ASSUME NEW r, Extents(r) \in [Dims -> Nat], Sorted(r), r.type["x"] \in Floats \cup IntegerCodes,
         \A i \in 0..(Count(Extents(r)) - 1) : r.keys[i] \in 0..(Power[Bytes(r.type["x"])] - 1)
  PROVE  /\ Sortable(RankSort(r), r.keys)
         /\ RankSort(r).row = Extents(r)[4]
         /\ \A e \in 0..(RankSort(r).n - 1) : e \div RankSort(r).row < Power[RankSort(r).rows]
  <1> DEFINE
      s == RankSort(r)
      n == Count(Extents(r))
      row == Extents(r)[4]
      outer == Extents(r)[1] * Extents(r)[2] * Extents(r)[3]
  <1>1. s.n = n /\ s.row = row /\ s.values = Bytes(r.type["x"]) /\ s.rows = RowPasses(n \div row)
    BY DEF RankSort, RadixPlan
  <1>2. Bytes(r.type["x"]) \in Nat  BY DEF Bytes, Floats, IntegerCodes
  <1>3. n \in Nat /\ row \in Nat \ {0}
    <2>1. Extents(r)[4] \in Nat /\ RadixMinRow \in Nat /\ Extents(r)[4] > RadixMinRow
      BY StridedAssumption DEF Sorted, Dims
    <2> QED BY <2>1, CountOf
  <1>4. outer \in Nat
    <2>1. Extents(r)[1] \in Nat /\ Extents(r)[2] \in Nat /\ Extents(r)[3] \in Nat  BY DEF Dims
    <2>2. Extents(r)[1] * Extents(r)[2] \in Nat  BY <2>1
    <2> DEFINE a == Extents(r)[1] * Extents(r)[2]
    <2> HIDE DEF a
    <2>3. a * Extents(r)[3] \in Nat  BY <2>1, <2>2 DEF a
    <2> QED BY <2>3 DEF a
  <1>5. n = outer * row + 0  BY <1>3 DEF Count
  <1> HIDE DEF n, row, outer, s
  <1>6. n \div row = outer  BY <1>3, <1>4, <1>5, RemainderIs
  <1>7. RowPasses(outer) \in Nat /\ \A i \in 0..(outer - 1) : i < Power[RowPasses(outer)]
    BY <1>4, RowPassesOf
  <1>8. ASSUME NEW e \in 0..(n - 1) PROVE e \div row < Power[RowPasses(outer)]
    <2> DEFINE q == e \div row
               m == e % row
    <2>1. e \in Nat /\ e < n  BY <1>3
    <2>2. q \in Nat /\ m \in Nat /\ m < row /\ e = q * row + m  BY <1>3, <2>1, Division
    <2> HIDE DEF q, m
    <2>3. ~(outer <= q)
      <3>1. SUFFICES ASSUME outer <= q PROVE FALSE  OBVIOUS
      <3>2. outer * row <= q * row  BY <1>3, <1>4, <2>2, <3>1, ProductMonotone
      <3>3. outer * row \in Nat /\ q * row \in Nat  BY <1>3, <1>4, <2>2
      <3> QED BY <1>5, <2>1, <2>2, <3>2, <3>3
    <2>4. q \in 0..(outer - 1)  BY <1>4, <2>2, <2>3
    <2> QED BY <1>7, <2>4 DEF q
  <1>9. Sortable(s, r.keys)  BY <1>1, <1>2, <1>3, <1>6, <1>7 DEF Sortable, n
  <1>10. \A e \in 0..(s.n - 1) : e \div s.row < Power[s.rows]  BY <1>1, <1>6, <1>8
  <1> QED BY <1>1, <1>9, <1>10 DEF s, row

\* After the last pass the order compares rows, keys and places.
LEMMA LastPass ==
  ASSUME NEW s, NEW keys, Sortable(s, keys), \A e \in 0..(s.n - 1) : e \div s.row < Power[s.rows],
         NEW a \in 0..(s.n - 1), NEW b \in 0..(s.n - 1), Sooner(s, keys, DigitPasses(s), a, b)
  PROVE  \/ a \div s.row < b \div s.row
         \/ a \div s.row = b \div s.row /\ (keys[a] < keys[b] \/ (keys[a] = keys[b] /\ a < b))
  <1> DEFINE j == DigitPasses(s)
  <1>1. s.values \in Nat /\ s.rows \in Nat /\ j = s.values + s.rows /\ j \in Nat
    BY DEF Sortable, DigitPasses
  <1>2. ASSUME NEW e \in 0..(s.n - 1) PROVE RowPart(s, j, e) = e \div s.row /\ KeyPart(s, keys, j, e) = keys[e]
    <2>1. e \div s.row \in Nat /\ keys[e] \in Nat /\ e \div s.row < Power[s.rows] /\ keys[e] \in 0..(Power[s.values] - 1)
      BY <1>1, PartsNatural DEF Sortable
    <2>2. Power[s.rows] \in Nat /\ Power[s.values] \in Nat /\ Power[0] = 1  BY <1>1, PowersOf
    <2>3. CASE s.rows = 0
      <3>1. j = s.values /\ e \div s.row = 0  BY <1>1, <2>1, <2>2, <2>3
      <3>2. keys[e] % Power[s.values] = keys[e]
        <4> DEFINE P == Power[s.values]
                   x == keys[e]
        <4>1. P \in Nat \ {0} /\ x \in Nat /\ x < P /\ x = 0 * P + x  BY <2>1, <2>2
        <4> HIDE DEF P, x
        <4>2. x % P = x  BY <4>1, RemainderIs
        <4> QED BY <4>2 DEF P, x
      <3> HIDE DEF j
      <3> QED BY <1>1, <3>1, <3>2 DEF RowPart, KeyPart
    <2>4. CASE s.rows # 0
      <3>1. ~(j <= s.values) /\ j - s.values = s.rows  BY <1>1, <2>4
      <3>2. (e \div s.row) % Power[s.rows] = e \div s.row
        <4> DEFINE P == Power[s.rows]
                   x == e \div s.row
        <4>1. P \in Nat \ {0} /\ x \in Nat /\ x < P /\ x = 0 * P + x  BY <2>1, <2>2
        <4> HIDE DEF P, x
        <4>2. x % P = x  BY <4>1, RemainderIs
        <4> QED BY <4>2 DEF P, x
      <3> HIDE DEF j
      <3> QED BY <3>1, <3>2 DEF RowPart, KeyPart
    <2> QED BY <2>3, <2>4
  <1> HIDE DEF j
  <1>3. Sooner(s, keys, j, a, b)  BY DEF j
  <1> QED BY <1>2, <1>3 DEF Sooner

LEMMA RanksSorted ==
  ASSUME Answers PROVE RanksAreSorted
  <1> DEFINE
      r == request
      s == RankSort(r)
      order == RankOrder(r)
      row == Extents(r)[4]
      At(p) == <<order[p] \div row, r.keys[order[p]], order[p]>>
  <1> SUFFICES ASSUME Admitted(plan), request.op = "intwise", Sorted(r)
               PROVE  \A p \in 1..(Len(order) - 1) :
                        \/ At(p)[1] < At(p + 1)[1]
                        \/ /\ At(p)[1] = At(p + 1)[1]
                           /\ At(p)[2] < At(p + 1)[2] \/ (At(p)[2] = At(p + 1)[2] /\ At(p)[3] < At(p + 1)[3])
    BY DEF RanksAreSorted
  <1>1. r \in Requests("intwise") /\ plan = IntwiseEntry(r)
    <2>1. ~(plan = Refused("none asked"))  BY RefusalIsRefused
    <2> DEFINE
        Ours == r \in Requests("intwise") /\ plan = IntwiseEntry(r)
        Other == {"convert", "pointwise", "reduce", "rowwise", "loss", "embedding", "student_norm", "rotary",
                  "swiglu", "swiglu_scaled", "weighted_bag", "head_lse", "head_grad", "expert_factor", "amp_unscale",
                  "amp_update", "vq", "cast", "matmul_f32", "matmul_16", "nf4_decode", "nf4_matmul", "attention"}
    <2>2. Ours \/ r \in Requests("index") \/ \E f \in Other : r \in Requests(f)
      BY <2>1 DEF Answers, AnswerTo
    <2>3. r \notin Requests("index")  BY RequestAssumption
    <2>4. ASSUME NEW f \in Other PROVE r \notin Requests(f)  BY <2>4, RequestAssumption
    <2> QED BY <2>2, <2>3, <2>4
  <1>2. /\ Shaped(r) /\ r.type["x"] \in Floats \cup IntegerCodes
        /\ \A i \in 0..(Count(Extents(r)) - 1) : r.keys[i] \in 0..(Power[Bytes(r.type["x"])] - 1)
    BY <1>1, RequestAssumption
  <1>3. FirstOf(IntwiseRefusals(r)) = "none"
    <2>1. Admitted(IntwisePlan(r))
      <3>1. SUFFICES ASSUME ~Admitted(IntwisePlan(r)) PROVE FALSE  OBVIOUS
      <3> DEFINE coded == Coded(IntwisePlan(r), {"AddressOverflow"})
      <3>2. ~Admitted(coded)  BY <3>1, CodedPlan, RefusalIsRefused
      <3> HIDE DEF coded
      <3>3. plan = coded  BY <1>1, <3>2 DEF IntwiseEntry, Recorded, coded
      <3> QED BY <3>2, <3>3
    <2> QED BY <2>1, RefusalIsRefused DEF IntwisePlan
  <1>4. Extents(r) \in [Dims -> Nat]
    <2>1. r.ndim \in 1..4  BY <1>3, IntwiseNotBadRank DEF BadRank
    <2> QED BY <1>2, <2>1, ShapeInFour
  <1>5. /\ Sortable(s, r.keys) /\ s.row = row
        /\ \A e \in 0..(s.n - 1) : e \div s.row < Power[s.rows]
    BY <1>2, <1>4, RankSortIs
  <1>6. order = RadixSort(s, r.keys).order  BY DEF RankOrder
  <1> HIDE DEF r, s, order, row
  <1>7. s.n \in Nat /\ DigitPasses(s) \in Nat  BY <1>5 DEF Sortable, DigitPasses
  <1>8. \A p \in 1..s.n : /\ order[p] \in 0..(s.n - 1) /\ RankIn(s.n, Order(s, r.keys, DigitPasses(s)), order[p]) = p - 1
                          /\ Len(order) = s.n
    BY <1>5, <1>6, SortedOrder
  <1>9. /\ Linear(s.n, Order(s, r.keys, DigitPasses(s)))
        /\ \A a, b \in 0..(s.n - 1) : <<a, b>> \in Order(s, r.keys, DigitPasses(s)) <=> Sooner(s, r.keys, DigitPasses(s), a, b)
    BY <1>5, <1>7, OrderLinear
  <1>10. ASSUME NEW p \in 1..(s.n - 1)
         PROVE  \/ order[p] \div s.row < order[p + 1] \div s.row
                \/ /\ order[p] \div s.row = order[p + 1] \div s.row
                   /\ \/ r.keys[order[p]] < r.keys[order[p + 1]]
                      \/ r.keys[order[p]] = r.keys[order[p + 1]] /\ order[p] < order[p + 1]
    <2> DEFINE
        a == order[p]
        b == order[p + 1]
        L == Order(s, r.keys, DigitPasses(s))
    <2>1. p \in 1..s.n /\ p + 1 \in 1..s.n /\ p - 1 < (p + 1) - 1  BY <1>7
    <2>2. a \in 0..(s.n - 1) /\ b \in 0..(s.n - 1) /\ RankIn(s.n, L, a) < RankIn(s.n, L, b)
      BY <1>8, <2>1
    <2> HIDE DEF a, b
    <2>3. <<a, b>> \in L  BY <1>7, <1>9, <2>2, RankOrders
    <2>4. Sooner(s, r.keys, DigitPasses(s), a, b)  BY <1>9, <2>2, <2>3
    <2> HIDE DEF L
    <2>5. \/ a \div s.row < b \div s.row
          \/ a \div s.row = b \div s.row /\ (r.keys[a] < r.keys[b] \/ (r.keys[a] = r.keys[b] /\ a < b))
      BY <1>5, <2>2, <2>4, LastPass
    <2> QED BY <2>5 DEF a, b
  <1>11. Len(order) = s.n \/ s.n = 0  BY <1>7, <1>8
  <1>12. s.n # 0
    <2>1. s.n = Count(Extents(r)) /\ Count(Extents(r)) \in 1..LimitElements
      BY DEF s, RankSort, RadixPlan, Sorted, r
    <2> QED BY <2>1
  <1> QED BY <1>5, <1>10, <1>11, <1>12

\* Whatever rows of keys are ranked, the passes of the radix sort leave them
\* in order, equal keys in their places.
THEOREM AlwaysSorted == Spec => []RanksAreSorted
  BY PlanIsTheAnswer, RanksSorted, PTL

(* What a pass finds in the storage a call keeps to itself.                *)

----------------------------------------
(* Scratch: families whose accesses are all to operands.                   *)

\* What a pass takes from scratch or partial results, a pass before it left.
Fresh(passes, i) ==
  \A u \in DOMAIN passes[i].touches : \A t \in passes[i].touches[u] :
    t.at \in Private /\ t.how # "write" =>
      \E j \in 1..(i - 1) : \E v \in DOMAIN passes[j].touches : \E s \in passes[j].touches[v] :
        s.how # "read" /\ s.at = t.at /\ s.first = t.first

LEMMA FreshPasses ==
  ASSUME \A i \in DOMAIN Passes : Fresh(Passes, i) PROVE ScratchIsFresh
  <1> SUFFICES ASSUME NEW i \in DOMAIN Passes, NEW t \in TouchesOf(i), t.at \in Private, t.how # "write"
               PROVE  <<t.at, t.first>> \in
                        {<<s.at, s.first>> : s \in {x \in UNION {TouchesOf(j) : j \in 1..(i - 1)} : x.how # "read"}}
    BY DEF ScratchIsFresh
  <1>1. PICK u \in DOMAIN Passes[i].touches : t \in Passes[i].touches[u]  BY DEF TouchesOf
  <1>2. PICK j \in 1..(i - 1) : \E v \in DOMAIN Passes[j].touches : \E s \in Passes[j].touches[v] :
          s.how # "read" /\ s.at = t.at /\ s.first = t.first
    BY <1>1 DEF Fresh
  <1>3. PICK v \in DOMAIN Passes[j].touches : \E s \in Passes[j].touches[v] :
          s.how # "read" /\ s.at = t.at /\ s.first = t.first
    BY <1>2
  <1>4. PICK s \in Passes[j].touches[v] : s.how # "read" /\ s.at = t.at /\ s.first = t.first  BY <1>3
  <1>5. s \in TouchesOf(j)  BY <1>4 DEF TouchesOf
  <1> QED BY <1>4, <1>5

\* Passes bound to nothing private.
Public(pass) == pass.reads \cap Private = {} /\ pass.writes \cap Private = {}
PublicPasses == \A i \in DOMAIN Passes : Public(Passes[i])

LEMMA PublicIsFresh ==
  ASSUME PassesArePrepared, PublicPasses PROVE ScratchIsFresh
  <1>1. ASSUME NEW i \in DOMAIN Passes PROVE Fresh(Passes, i)
    <2>1. ASSUME NEW u \in DOMAIN Passes[i].touches, NEW t \in Passes[i].touches[u] PROVE t.at \notin Private
      <3>1. t \in TouchesOf(i)  BY <2>1 DEF TouchesOf
      <3>2. t.at \in Passes[i].writes \cup Passes[i].reads
        BY <3>1 DEF PassesArePrepared, AccessesDeclared
      <3> QED BY <3>2 DEF PublicPasses, Public
    <2> QED BY <2>1 DEF Fresh
  <1> QED BY <1>1, FreshPasses

LEMMA AnsweredPublic ==
  ASSUME NEW passes, NEW scratch, NEW built, plan = Answered(passes, scratch, built),
         \A i \in DOMAIN passes : Public(passes[i])
  PROVE  PublicPasses
  BY AnsweredPasses DEF PublicPasses

LEMMA RefusedPublic ==
  ASSUME NEW why, why # "none", plan = Refused(why) PROVE PublicPasses
  BY RefusedPasses DEF PublicPasses

LEMMA EnteredPublic ==
  ASSUME NEW why, NEW passes, NEW scratch, NEW built, plan = Entered(why, passes, scratch, built),
         why = "none" => \A i \in DOMAIN passes : Public(passes[i])
  PROVE  PublicPasses
  <1>1. CASE why # "none"  BY <1>1, RefusedPublic DEF Entered
  <1>2. CASE why = "none"  BY <1>2, AnsweredPublic DEF Entered
  <1> QED BY <1>1, <1>2

LEMMA LaunchPublic ==
  ASSUME NEW kernel, NEW units, NEW per, NEW groups, NEW touches, NEW reads, NEW writes,
         reads \cap Private = {}, writes \cap Private = {}
  PROVE  Public(Launch(kernel, units, per, groups, touches, reads, writes))
  BY LaunchFields DEF Public

LEMMA OneLaunchPublic ==
  ASSUME NEW why, NEW kernel, NEW units, NEW per, NEW groups, NEW touches, NEW reads, NEW writes,
         NEW scratch, NEW built,
         plan = Entered(why, <<Launch(kernel, units, per, groups, touches, reads, writes)>>, scratch, built),
         reads \cap Private = {}, writes \cap Private = {}
  PROVE  PublicPasses
  <1> DEFINE p == Launch(kernel, units, per, groups, touches, reads, writes)
             passes == <<p>>
  <1>1. Public(p)  BY LaunchPublic
  <1> HIDE DEF p
  <1>2. \A i \in DOMAIN passes : Public(passes[i])  BY <1>1
  <1>3. plan = Entered(why, passes, scratch, built)  BY DEF p
  <1> QED BY <1>2, <1>3, EnteredPublic

LEMMA RotaryPublic ==
  ASSUME plan = RotaryEntry(request) PROVE PublicPasses
  <1>1. {"x", "cos", "sin"} \cap Private = {} /\ {"out"} \cap Private = {}  BY DEF Private
  <1> QED BY <1>1, OneLaunchPublic DEF RotaryEntry

LEMMA SwigluPublic ==
  ASSUME plan = SwigluEntry(request) PROVE PublicPasses
  <1>1. ({"packed"} \cup BackwardOnly(request, {"upstream"})) \cap Private = {} /\ {"out"} \cap Private = {}
    BY DEF Private, BackwardOnly
  <1> QED BY <1>1, OneLaunchPublic DEF SwigluEntry

LEMMA ScaledPublic ==
  ASSUME plan = ScaledEntry(request) PROVE PublicPasses
  <1>1. ScaledIns(request) \cap Private = {} /\ ScaledOuts(request) \cap Private = {}
    BY DEF Private, ScaledIns, ScaledOuts, BackwardOnly
  <1> QED BY <1>1, OneLaunchPublic DEF ScaledEntry

LEMMA LsePublic ==
  ASSUME plan = LseEntry(request) PROVE PublicPasses
  <1>1. LseIns \cap Private = {} /\ {"out"} \cap Private = {}  BY DEF Private, LseIns
  <1> QED BY <1>1, OneLaunchPublic DEF LseEntry

LEMMA GradPublic ==
  ASSUME plan = GradEntry(request) PROVE PublicPasses
  <1>1. GradIns \cap Private = {} /\ GradOuts \cap Private = {}
    BY DEF Private, GradIns, GradOuts, LseIns
  <1> QED BY <1>1, OneLaunchPublic DEF GradEntry

LEMMA FactorPublic ==
  ASSUME plan = FactorEntry(request) PROVE PublicPasses
  <1>1. (FactorRoles \ FactorWrites(request)) \cap Private = {} /\ FactorWrites(request) \cap Private = {}
    BY DEF Private, FactorRoles, FactorWrites
  <1> QED BY <1>1, OneLaunchPublic DEF FactorEntry

LEMMA UpdatePublic ==
  ASSUME plan = UpdateEntry(request) PROVE PublicPasses
  <1>1. {"found"} \cap Private = {} /\ {"scale", "tracker"} \cap Private = {}  BY DEF Private
  <1> QED BY <1>1, OneLaunchPublic DEF UpdateEntry

LEMMA VqPublic ==
  ASSUME plan = VqEntry(request) PROVE PublicPasses
  <1>1. {"b0", "b1", "b2", "b3"} \cap Private = {} /\ {"out", "status"} \cap Private = {}
    BY DEF Private
  <1> QED BY <1>1, OneLaunchPublic DEF VqEntry

LEMMA CastPublic ==
  ASSUME plan = CastEntry(request) PROVE PublicPasses
  <1>1. {"src"} \cap Private = {} /\ {"dst"} \cap Private = {}  BY DEF Private
  <1> QED BY <1>1, OneLaunchPublic DEF CastEntry

LEMMA DecodePublic ==
  ASSUME plan = DecodeEntry(request) PROVE PublicPasses
  <1>1. (SourceNames \cup (IF Selected(request) = 0 THEN {} ELSE {"ids"})) \cap Private = {} /\ {"out"} \cap Private = {}
    BY DEF Private, SourceNames
  <1> QED BY <1>1, OneLaunchPublic DEF DecodeEntry

LEMMA GroupedPublic ==
  ASSUME plan = GroupedEntry(request) PROVE PublicPasses
  <1>1. (SourceNames \cup {"a", "groups"}) \cap Private = {} /\ {"c"} \cap Private = {}
    BY DEF Private, SourceNames
  <1> QED BY <1>1, OneLaunchPublic DEF GroupedEntry

LEMMA ProductPublic ==
  ASSUME plan = ProductEntry(request) PROVE PublicPasses
  <1>1. {"a", "b"} \cap Private = {} /\ {"c"} \cap Private = {}  BY DEF Private
  <1> QED BY <1>1, OneLaunchPublic DEF ProductEntry, Products

LEMMA HalfPublic ==
  ASSUME plan = HalfEntry(request) PROVE PublicPasses
  <1>1. {"a", "b"} \cap Private = {} /\ {"c"} \cap Private = {}  BY DEF Private
  <1> QED BY <1>1, OneLaunchPublic DEF HalfEntry, Products

LEMMA RowPublic ==
  ASSUME plan = RowEntry(request) PROVE PublicPasses
  <1> DEFINE
      r == request
      groups == IF r.kind = "RmsNormGammaReduction" THEN r.cols ELSE r.rows
      touches == [g \in 0..(groups - 1) |-> RowTouches(r, g)]
      why == FirstOf(<< <<r.rows \notin 1..Limit.rows \/ r.cols \notin 1..Limit.cols, "SHAPE">>,
                        <<r.rows * r.cols > Limit.elements, "SIZE">>,
                        <<~r.finite, "SHAPE">>,
                        <<\E at \in RowReads(r) \cup {"out"} : ~Room(r, at, 4 * RowLength(r, at)), "SIZE">>,
                        <<\E at \in RowReads(r) : Same(r, at, "out"), "SHAPE">> >>)
  <1>1. {"primary", "upstream", "gamma"} \cap Private = {} /\ {"out"} \cap Private = {}  BY DEF Private
  <1>2. plan = Entered(why, <<Launch(<<"rowwise">>, groups, 1, <<groups, 1, 1>>, touches, {"primary", "upstream", "gamma"},
                                     {"out"})>>, 0, {})
    BY DEF RowEntry
  <1> HIDE DEF why, touches, groups
  <1> QED BY <1>1, <1>2, OneLaunchPublic

LEMMA NormPublic ==
  ASSUME plan = NormEntry(request), request.kind \in QkKinds \cup {"Norm", "NormBackward"}
  PROVE  PublicPasses
  <1>1. Written(request) \subseteq {"out0", "out1", "io2"}
    <2>1. CASE request.kind = "Norm"  BY <2>1 DEF Written
    <2>2. CASE request.kind = "QkNormRope"  BY <2>2 DEF Written
    <2>3. CASE request.kind \in {"NormBackward", "QkNormRopeBackward"}  BY <2>3 DEF Written, Backward
    <2> QED BY <2>1, <2>2, <2>3 DEF QkKinds
  <1>2. (Roles \ Written(request)) \cap Private = {} /\ Written(request) \cap Private = {}
    BY <1>1 DEF Private, Roles
  <1> QED BY <1>2, OneLaunchPublic DEF NormEntry

LEMMA LossPublic ==
  ASSUME plan = LossEntry(request) PROVE PublicPasses
  <1> DEFINE
      r == request
      rows == IF r.kind = "Reduce" THEN 1 ELSE r.rows
      half == r.primary16 \/ r.out16
      kernel == IF half THEN <<"loss_bf16", r.out16>> ELSE <<"loss">>
      touches == IF r.kind = "Reduce" THEN [u \in {0} |-> ReduceLoss(r)] ELSE [u \in 0..(rows - 1) |-> LossTouches(r, u)]
      built == IF half THEN {"loss_bf16"} \X BOOLEAN ELSE {}
      up == Upload("targets", 4 * r.rows)
      run == Launch(kernel, rows, 1, <<rows, 1, 1>>, touches, {"primary", "targets", "upstream"}, {"out"})
      passes == <<up, run>>
      why == FirstOf(LossRefusals(r))
  <1>1. Public(up)  BY LaunchPublic DEF Upload, Private
  <1>2. Public(run)
    <2>1. {"primary", "targets", "upstream"} \cap Private = {} /\ {"out"} \cap Private = {}
      BY DEF Private
    <2> HIDE DEF kernel, rows, touches
    <2> QED BY <2>1, LaunchPublic
  <1>3. plan = Entered(why, passes, 0, built)  BY DEF LossEntry
  <1> HIDE DEF up, run, why, built
  <1>4. \A i \in DOMAIN passes : Public(passes[i])  BY <1>1, <1>2
  <1> HIDE DEF passes
  <1> QED BY <1>3, <1>4, EnteredPublic

LEMMA EmbeddingPublic ==
  ASSUME plan = EmbeddingEntry(request) PROVE PublicPasses
  <1> DEFINE
      r == request
      units == OutElements(r)
      touches == [i \in 0..(units - 1) |-> EmbeddingTouches(r, i)]
      first == Upload("indices", IndexImage(r))
      second == Upload("offsets", OffsetImage(r))
      run == Launch(<<"embedding">>, units, Limit.lanes, <<CeilDiv(units, Limit.lanes), 1, 1>>, touches,
                    {"primary", "indices", "offsets"}, {"out"})
      passes == <<first, second, run>>
      why == FirstOf(EmbeddingRefusals(r))
  <1>1. Public(first)  BY LaunchPublic DEF Upload, Private
  <1>2. Public(second)  BY LaunchPublic DEF Upload, Private
  <1>3. Public(run)
    <2>1. {"primary", "indices", "offsets"} \cap Private = {} /\ {"out"} \cap Private = {}
      BY DEF Private
    <2> HIDE DEF units, touches
    <2> QED BY <2>1, LaunchPublic
  <1>4. plan = Entered(why, passes, 0, {})  BY DEF EmbeddingEntry
  <1> HIDE DEF first, second, run, why
  <1>5. \A i \in DOMAIN passes : Public(passes[i])  BY <1>1, <1>2, <1>3
  <1> HIDE DEF passes
  <1> QED BY <1>4, <1>5, EnteredPublic

LEMMA UnscalePublic ==
  ASSUME plan = UnscaleEntry(request) PROVE PublicPasses
  <1> DEFINE
      r == request
      groups == Most(Least(CeilDiv(r.count, Sizes.ampLanes), MaxGroups), 1)
      started == groups * Sizes.ampLanes
      touches == [u \in 0..(Least(started, r.count) - 1) |-> UnscaleTouches(r, u, started)]
      pass == Launch(<<"amp_unscale">>, Least(started, r.count), Sizes.ampLanes, <<groups, 1, 1>>, touches,
                     {"scale"}, {"data", "found"})
      passes == IF r.count = 0 THEN <<>> ELSE <<pass>>
      why == FirstOf(UnscaleRefusals(r))
  <1>1. Public(pass)
    <2>1. {"scale"} \cap Private = {} /\ {"data", "found"} \cap Private = {}  BY DEF Private
    <2> HIDE DEF groups, started, touches
    <2> QED BY <2>1, LaunchPublic
  <1>2. plan = Entered(why, passes, 0, {<<"amp_unscale">>})  BY DEF UnscaleEntry
  <1> HIDE DEF pass, why
  <1>3. \A i \in DOMAIN passes : Public(passes[i])  BY <1>1
  <1> HIDE DEF passes
  <1> QED BY <1>2, <1>3, EnteredPublic

LEMMA AttentionPublic ==
  ASSUME plan = AttentionEntry(request) PROVE PublicPasses
  <1> DEFINE
      r == request
      dq == QueryPass(r, "dq", {"dq"})
      key == KeyPass(r)
      fwd == QueryPass(r, "fwd", {"o", "lse"})
      passes == IF r.backward THEN <<dq, key>> ELSE <<fwd>>
      built == {AttentionKernel(r, half) : half \in {"fwd", "dq", "dkdv"}}
      why == FirstOf(AttentionRefusals(r))
  <1>1. AttentionReads(r) \cap Private = {} /\ {"dq"} \cap Private = {} /\ {"o", "lse"} \cap Private = {} /\ {"dk", "dv"} \cap Private = {}
    BY DEF AttentionReads, Private
  <1>2. Public(dq) /\ Public(fwd)  BY <1>1, LaunchPublic DEF QueryPass
  <1>3. Public(key)  BY <1>1, LaunchPublic DEF KeyPass
  <1>4. plan = Entered(why, passes, 0, built)  BY DEF AttentionEntry
  <1> HIDE DEF dq, key, fwd, why, built
  <1>5. \A i \in DOMAIN passes : Public(passes[i])  BY <1>2, <1>3
  <1> HIDE DEF passes
  <1> QED BY <1>4, <1>5, EnteredPublic

\* A plan that is not admitted launches nothing.
LEMMA UnadmittedPublic ==
  ASSUME ~Admitted(plan) PROVE PublicPasses
  BY DEF Passes, PublicPasses

LEMMA DeclaringPublic ==
  ASSUME NEW pass, NEW reads, NEW writes, reads \cap Private = {}, writes \cap Private = {}
  PROVE  Public(Declaring(pass, reads, writes))
  BY DeclaringFields DEF Public

LEMMA ConvertPublic ==
  ASSUME plan = ConvertEntry(request) PROVE PublicPasses
  <1> DEFINE
      coded == Coded(ConvertPlan(request), {"AddressOverflow"})
      built == {coded.passes[1].kernel}
      passes == [i \in DOMAIN coded.passes |-> Declaring(coded.passes[i], {"x"}, {"out"})]
  <1>1. plan = Recorded(coded, built, LAMBDA i, pass : Declaring(pass, {"x"}, {"out"}))
    BY DEF ConvertEntry
  <1>2. {"x"} \cap Private = {} /\ {"out"} \cap Private = {}  BY DEF Private
  <1> HIDE DEF coded, built
  <1>3. CASE Admitted(coded)
    <2>1. plan = Answered(passes, coded.scratch, built)  BY <1>1, <1>3 DEF Recorded
    <2>2. \A i \in DOMAIN passes : Public(passes[i])  BY <1>2, DeclaringPublic
    <2> HIDE DEF passes
    <2> QED BY <2>1, <2>2, AnsweredPublic
  <1>4. CASE ~Admitted(coded)  BY <1>1, <1>4, UnadmittedPublic DEF Recorded
  <1> QED BY <1>3, <1>4

LEMMA PointwisePublic ==
  ASSUME plan = PointwiseEntry(request) PROVE PublicPasses
  <1> DEFINE
      r == request
      coded == Coded(PointwisePlan(r), {"AddressOverflow"})
      built == PointwiseModules(r)
      unbuilt == Types(r) \in StorageModules /\ "Bool" \in {Types(r)[i] : i \in 1..4} /\ ~r.bool8
      passes == [i \in DOMAIN coded.passes |-> Declaring(coded.passes[i], {"x", "y", "z"}, {"out"})]
  <1>1. plan = IF unbuilt THEN Refused("UNSUPPORTED")
               ELSE Recorded(coded, built, LAMBDA i, pass : Declaring(pass, {"x", "y", "z"}, {"out"}))
    BY DEF PointwiseEntry
  <1>2. {"x", "y", "z"} \cap Private = {} /\ {"out"} \cap Private = {}  BY DEF Private
  <1> HIDE DEF coded, built, unbuilt
  <1>3. CASE unbuilt  BY <1>1, <1>3, RefusedPublic
  <1>4. CASE ~unbuilt /\ Admitted(coded)
    <2>1. plan = Answered(passes, coded.scratch, built)  BY <1>1, <1>4 DEF Recorded
    <2>2. \A i \in DOMAIN passes : Public(passes[i])  BY <1>2, DeclaringPublic
    <2> HIDE DEF passes
    <2> QED BY <2>1, <2>2, AnsweredPublic
  <1>5. CASE ~unbuilt /\ ~Admitted(coded)  BY <1>1, <1>5, UnadmittedPublic DEF Recorded
  <1> QED BY <1>3, <1>4, <1>5

LEMMA UnsortedPublic ==
  ASSUME plan = IntwiseEntry(request), ~Sorted(request) PROVE PublicPasses
  <1> DEFINE
      r == request
      coded == Coded(IntwisePlan(r), {"AddressOverflow"})
      kernel == <<"intwise", r.compute = "F64">>
      built == {kernel} \cup IF MayPlanRadix(r) THEN {<<"radix">>} ELSE {}
      Access(i, pass) ==
        IF ~Sorted(r) THEN Declaring(pass, {"x", "y"}, {"out"})
        ELSE IF i = Len(coded.passes) THEN Declaring(pass, {"x", "scratch"}, {"out"})
        ELSE Declaring(pass, {"x", "out"}, {"scratch"})
      passes == [i \in DOMAIN coded.passes |-> Access(i, coded.passes[i])]
  <1>1. plan = Recorded(coded, built, Access)  BY DEF IntwiseEntry
  <1>2. {"x", "y"} \cap Private = {} /\ {"out"} \cap Private = {}  BY DEF Private
  <1>3. \A i, pass : Access(i, pass) = Declaring(pass, {"x", "y"}, {"out"})
    OBVIOUS
  <1> HIDE DEF coded, built
  <1>4. CASE Admitted(coded)
    <2>1. plan = Answered(passes, coded.scratch, built)  BY <1>1, <1>4 DEF Recorded
    <2> HIDE DEF Access
    <2>2. \A i \in DOMAIN passes : Public(passes[i])  BY <1>2, <1>3, DeclaringPublic
    <2> HIDE DEF passes
    <2> QED BY <2>1, <2>2, AnsweredPublic
  <1>5. CASE ~Admitted(coded)  BY <1>1, <1>5, UnadmittedPublic DEF Recorded
  <1> QED BY <1>4, <1>5

\* An indexing operation that takes no scratch.
LEMMA DirectPublic ==
  ASSUME plan = IndexEntry(request), request.op = "Gather" \/ IndexStrategy(request) \notin {"Elected", "Grouped"}
  PROVE  PublicPasses
  <1> DEFINE
      r == request
      coded == Coded(IndexPlan(r), {"AddressOverflow", "StatusSlotOutOfRange"})
      strategy == IF r.op = "Gather" THEN "Gather" ELSE IndexStrategy(r)
      built == {<<"index">>} \cup IF MayPlanGrouped(r) THEN {<<"radix">>} ELSE {}
      passes == [i \in DOMAIN coded.passes |-> IndexAccess(strategy, Len(coded.passes), i, coded.passes[i])]
  <1>1. plan = Recorded(coded, built, LAMBDA i, pass : IndexAccess(strategy, Len(coded.passes), i, pass))
    BY DEF IndexEntry
  <1>2. {"src", "index"} \cap Private = {} /\ {"out", "status"} \cap Private = {}  BY DEF Private
  <1>3. strategy \notin {"Elected", "Grouped"}  OBVIOUS
  <1> HIDE DEF strategy
  <1>4. \A count, i, pass : IndexAccess(strategy, count, i, pass) = Declaring(pass, {"src", "index"}, {"out", "status"})
    BY <1>3 DEF IndexAccess
  <1> HIDE DEF coded, built
  <1>5. CASE Admitted(coded)
    <2>1. plan = Answered(passes, coded.scratch, built)  BY <1>1, <1>5 DEF Recorded
    <2>2. \A i \in DOMAIN passes : Public(passes[i])  BY <1>2, <1>4, DeclaringPublic
    <2> HIDE DEF passes
    <2> QED BY <2>1, <2>2, AnsweredPublic
  <1>6. CASE ~Admitted(coded)  BY <1>1, <1>6, UnadmittedPublic DEF Recorded
  <1> QED BY <1>5, <1>6

LEMMA BagRunPublic ==
  ASSUME NEW r, NEW op \in {0, 1}, NEW units, NEW per, r.kind # "GradTable"
  PROVE  Public(BagRun(r, op, units, per))
  <1>1. ((BagIns(r) \cup BagScratch(r) \cup {"out"}) \ {"out"}) \cap Private = {} /\ {"out"} \cap Private = {}
    BY DEF BagIns, BagScratch, Private
  <1> QED BY <1>1, LaunchPublic DEF BagRun

LEMMA BagPublic ==
  ASSUME plan = BagEntry(request), request.kind \in {"Forward", "GradWeights"} PROVE PublicPasses
  <1> DEFINE
      r == request
      why == FirstOf(BagRefusals(r))
      passes == BagPasses(r)
      one == BagRun(r, 0, BagOutput(r), Bounds.bagLanes)
      two == BagRun(r, 1, BagPairs(r), 1)
  <1>1. plan = Entered(why, passes, 0, {<<"weighted_bag">>})  BY DEF BagEntry
  <1>2. Public(one) /\ Public(two)  BY BagRunPublic
  <1>3. passes \in {<<one>>, <<two>>}  BY DEF BagPasses
  <1> HIDE DEF one, two, passes, why
  <1>4. \A i \in DOMAIN passes : Public(passes[i])  BY <1>2, <1>3
  <1> QED BY <1>1, <1>4, EnteredPublic

----------------------------------------
(* What a pass asks of the scratch, and what it leaves there.              *)

\* The scratch words the units of a pass read or raise, and one they leave.
Asks(touches, W) ==
  \A u \in DOMAIN touches : \A t \in touches[u] :
    t.at \in Private /\ t.how # "write" => t.at = "scratch" /\ \E w \in W : t.first = w * 4
Leaves(touches, w) ==
  \E v \in DOMAIN touches : \E s \in touches[v] : s.at = "scratch" /\ s.how # "read" /\ s.first = w * 4

LEMMA FreshFrom ==
  ASSUME NEW passes, NEW i, NEW W, Asks(passes[i].touches, W),
         \A w \in W : \E j \in 1..(i - 1) : Leaves(passes[j].touches, w)
  PROVE  Fresh(passes, i)
  <1>1. ASSUME NEW u \in DOMAIN passes[i].touches, NEW t \in passes[i].touches[u], t.at \in Private, t.how # "write"
        PROVE  \E j \in 1..(i - 1) : \E v \in DOMAIN passes[j].touches : \E s \in passes[j].touches[v] :
                 s.how # "read" /\ s.at = t.at /\ s.first = t.first
    <2>1. PICK w \in W : t.at = "scratch" /\ t.first = w * 4  BY <1>1 DEF Asks
    <2>2. PICK j \in 1..(i - 1) : Leaves(passes[j].touches, w)  OBVIOUS
    <2> QED BY <2>1, <2>2 DEF Leaves
  <1> QED BY <1>1 DEF Fresh

LEMMA FreshAlone ==
  ASSUME NEW passes, NEW i, Asks(passes[i].touches, {}) PROVE Fresh(passes, i)
  BY DEF Asks, Fresh

\* A touch that asks for no scratch: of another binding, or one that writes.
Unasking(t) == t.at \notin Private \/ t.how = "write"
Asking(t, W) == t.at = "scratch" /\ \E w \in W : t.first = w * 4

LEMMA AsksOf ==
  ASSUME NEW touches, NEW W, \A u \in DOMAIN touches : \A t \in touches[u] : Unasking(t) \/ Asking(t, W)
  PROVE  Asks(touches, W)
  BY DEF Asks, Unasking, Asking

LEMMA WordAsks ==
  ASSUME NEW how, NEW word, NEW W
  PROVE  /\ word \in W => Asking(WordTouch("scratch", how, word), W)
         /\ Unasking(WordTouch("scratch", "write", word))
  BY DEF WordTouch, Touch, Asking, Unasking

LEMMA ScratchedAsks ==
  ASSUME NEW how, NEW words, NEW W, words \subseteq W \/ how = "write", NEW t \in Scratched(how, words)
  PROVE  Unasking(t) \/ Asking(t, W)
  BY WordAsks DEF Scratched

LEMMA WordLeft ==
  ASSUME NEW touches, NEW u \in DOMAIN touches, NEW how, how # "read", NEW word,
         WordTouch("scratch", how, word) \in touches[u]
  PROVE  Leaves(touches, word)
  BY DEF WordTouch, Touch, Leaves
----------------------------------------
(* The lists of a bag's gradient.                                          *)
BagShaped(r) ==
  /\ {r.rows, r.k, r.vocab, r.d} \subseteq Nat \ {0}
  /\ \A pair \in 1..BagPairs(r) : r.ids[pair] \in Nat

LEMMA BagAdmits ==
  ASSUME NEW r, FirstOf(BagRefusals(r)) = "none", {r.rows, r.k, r.vocab, r.d} \subseteq Nat,
         BagPairs(r) <= Bounds.pairs => \A pair \in 1..BagPairs(r) : r.ids[pair] \in Nat
  PROVE  BagShaped(r)
  <1> DEFINE
      x1 == <<0 \in {r.rows, r.k, r.vocab, r.d}, "SHAPE">>
      x2 == <<\/ BagPairs(r) > Bounds.pairs \/ r.vocab > Bounds.vocab \/ r.d > Bounds.dim
              \/ r.rows * r.d > Bounds.elements \/ r.vocab * r.d > Bounds.elements, "SIZE">>
      x3 == <<Lacks(r, [at \in BagIns(r) \cup {"out"} \cup BagScratch(r) |-> 4 * BagWords(r, at)]), "SIZE">>
      x4 == <<Shared(r, {"out"} \cup BagScratch(r), BagIns(r)), "SHAPE">>
      c == <<x1, x2, x3, x4>>
  <1>1. BagRefusals(r) = c  BY DEF BagRefusals
  <1>2. x1[2] # "none" /\ x2[2] # "none" /\ x3[2] # "none" /\ x4[2] # "none"  OBVIOUS
  <1>3. (x1[1] <=> 0 \in {r.rows, r.k, r.vocab, r.d}) /\ (~x2[1] => ~(BagPairs(r) > Bounds.pairs))
    OBVIOUS
  <1> HIDE DEF x1, x2, x3, x4
  <1>4. Listed(c)  BY <1>2 DEF Listed
  <1>5. 1 \in DOMAIN c /\ 2 \in DOMAIN c /\ c[1] = x1 /\ c[2] = x2  OBVIOUS
  <1> HIDE DEF c
  <1>6. ~c[1][1] /\ ~c[2][1]  BY <1>1, <1>4, <1>5, NothingRefused
  <1>7. BagPairs(r) \in Nat  BY DEF BagPairs
  <1>8. Bounds.pairs \in Nat  BY FusedAssumption DEF BoundFields
  <1> QED BY <1>3, <1>5, <1>6, <1>7, <1>8 DEF BagShaped

LEMMA BagRowInTable ==
  ASSUME NEW r, BagShaped(r), NEW pair \in 0..(BagPairs(r) - 1)
  PROVE  BagRow(r, pair) \in 0..(r.vocab - 1) /\ BagPairs(r) \in Nat
  <1>1. BagPairs(r) \in Nat  BY DEF BagPairs, BagShaped
  <1>2. pair + 1 \in 1..BagPairs(r)  BY <1>1
  <1>3. r.ids[pair + 1] \in Nat /\ r.vocab \in Nat \ {0}  BY <1>2 DEF BagShaped
  <1> QED BY <1>1, <1>3 DEF BagRow

\* The order of the lists: by row, then by pair.
Listing(r) ==
  {c \in (0..(BagPairs(r) - 1)) \X (0..(BagPairs(r) - 1)) :
     BagRow(r, c[1]) < BagRow(r, c[2]) \/ (BagRow(r, c[1]) = BagRow(r, c[2]) /\ c[1] < c[2])}

LEMMA ListingLinear ==
  ASSUME NEW r, BagShaped(r)
  PROVE  /\ Linear(BagPairs(r), Listing(r))
         /\ \A a, b \in 0..(BagPairs(r) - 1) :
              <<a, b>> \in Listing(r) <=> BagRow(r, a) < BagRow(r, b) \/ (BagRow(r, a) = BagRow(r, b) /\ a < b)
  <1> DEFINE
      n == BagPairs(r)
      R(p) == BagRow(r, p)
      L == Listing(r)
  <1>1. \A p \in 0..(n - 1) : R(p) \in Nat  BY BagRowInTable
  <1>2. n \in Nat  BY DEF BagPairs, BagShaped
  <1>3. \A a, b \in 0..(n - 1) : <<a, b>> \in L <=> R(a) < R(b) \/ (R(a) = R(b) /\ a < b)
    BY DEF Listing
  <1> HIDE DEF L, R, n
  <1>4. \A a \in 0..(n - 1) : <<a, a>> \notin L  BY <1>1, <1>2, <1>3
  <1>5. \A a, b, c \in 0..(n - 1) : <<a, b>> \in L /\ <<b, c>> \in L => <<a, c>> \in L
    BY <1>1, <1>2, <1>3
  <1>6. \A a, b \in 0..(n - 1) : a # b => <<a, b>> \in L \/ <<b, a>> \in L  BY <1>1, <1>2, <1>3
  <1> QED BY <1>3, <1>4, <1>5, <1>6 DEF Linear, L, R, n

\* A pair's place in the lists is its rank in that order.
LEMMA SlotIsRank ==
  ASSUME NEW r, BagShaped(r), NEW pair \in 0..(BagPairs(r) - 1)
  PROVE  ListSlot(r, pair) = RankIn(BagPairs(r), Listing(r), pair)
  <1> DEFINE
      n == BagPairs(r)
      S == 0..(n - 1)
      A == {p \in S : BagRow(r, p) < BagRow(r, pair)}
      B == {q \in Bagged(r, BagRow(r, pair)) : q < pair}
      T == Lower(n, Listing(r), pair)
  <1>1. n \in Nat  BY DEF BagPairs, BagShaped
  <1>2. IsFiniteSet(S)  BY <1>1, FS_Interval
  <1>3. A \subseteq S /\ B \subseteq S  BY DEF Bagged
  <1>4. IsFiniteSet(A) /\ IsFiniteSet(B)  BY <1>2, <1>3, FS_Subset
  <1>5. A \cap B = {}
    <2>1. ASSUME NEW p \in A, p \in B PROVE FALSE
      <3>1. BagRow(r, p) < BagRow(r, pair) /\ BagRow(r, p) = BagRow(r, pair)  BY <2>1 DEF Bagged
      <3>2. BagRow(r, pair) \in Nat  BY BagRowInTable
      <3> QED BY <3>1, <3>2
    <2> QED BY <2>1
  <1>6. T = A \cup B
    <2>1. ASSUME NEW p \in S PROVE p \in T <=> p \in A \/ p \in B
      <3>1. p \in T <=> <<p, pair>> \in Listing(r)  BY DEF Lower
      <3>2. <<p, pair>> \in Listing(r) <=>
              BagRow(r, p) < BagRow(r, pair) \/ (BagRow(r, p) = BagRow(r, pair) /\ p < pair)
        BY ListingLinear
      <3>3. p \in B <=> BagRow(r, p) = BagRow(r, pair) /\ p < pair  BY DEF Bagged
      <3> QED BY <3>1, <3>2, <3>3
    <2>2. T \subseteq S  BY DEF Lower
    <2> QED BY <1>3, <2>1, <2>2
  <1>7. Cardinality(A \cup B) = Cardinality(A) + Cardinality(B)
    <2> HIDE DEF A, B
    <2>1. Cardinality(A \cup B) = Cardinality(A) + Cardinality(B) - Cardinality(A \cap B)
      BY <1>4, FS_Union
    <2>2. Cardinality(A \cap B) = 0  BY <1>5, FS_EmptySet
    <2>3. Cardinality(A) \in Nat /\ Cardinality(B) \in Nat  BY <1>4, FS_CardinalityType
    <2> QED BY <2>1, <2>2, <2>3
  <1>8. ListSlot(r, pair) = Cardinality(A) + Cardinality(B)  BY DEF ListSlot, RowOffset
  <1> QED BY <1>6, <1>7, <1>8 DEF RankIn

LEMMA SlotOnto ==
  ASSUME NEW r, BagShaped(r), NEW slot \in 0..(BagPairs(r) - 1)
  PROVE  \E pair \in 0..(BagPairs(r) - 1) : ListSlot(r, pair) = slot
  <1>1. BagPairs(r) \in Nat  BY DEF BagPairs, BagShaped
  <1>2. PICK pair \in 0..(BagPairs(r) - 1) : RankIn(BagPairs(r), Listing(r), pair) = slot
    BY <1>1, ListingLinear, RankOnto
  <1> QED BY <1>2, SlotIsRank

LEMMA RowListWithin ==
  ASSUME NEW r, BagShaped(r), NEW v
  PROVE  RowList(r, v) \subseteq {ListAt(r) + slot : slot \in 0..(BagPairs(r) - 1)}
  <1> DEFINE
      n == BagPairs(r)
      S == 0..(n - 1)
      A(x) == {p \in S : BagRow(r, p) < x}
  <1>1. n \in Nat  BY DEF BagPairs, BagShaped
  <1>2. IsFiniteSet(S) /\ Cardinality(S) = n
    <2>1. 0 \in Int /\ n - 1 \in Int /\ IsFiniteSet(S)  BY <1>1, FS_Interval
    <2>2. Cardinality(S) = IF 0 > n - 1 THEN 0 ELSE (n - 1) - 0 + 1  BY <2>1, FS_Interval
    <2> QED BY <1>1, <2>1, <2>2
  <1>3. \A x : A(x) \subseteq S
    OBVIOUS
  <1>4. \A x : RowOffset(r, x) = Cardinality(A(x))  BY DEF RowOffset
  <1> HIDE DEF A, S
  <1>5. ASSUME NEW x PROVE RowOffset(r, x) \in 0..n
    <2>1. IsFiniteSet(A(x)) /\ Cardinality(A(x)) <= Cardinality(S)  BY <1>2, <1>3, FS_Subset
    <2>2. Cardinality(A(x)) \in Nat  BY <2>1, FS_CardinalityType
    <2> QED BY <1>1, <1>2, <1>4, <2>1, <2>2
  <1>6. RowOffset(r, v) \in 0..n /\ RowOffset(r, v + 1) \in 0..n  BY <1>5
  <1>7. RowOffset(r, v)..(RowOffset(r, v + 1) - 1) \subseteq 0..(n - 1)  BY <1>1, <1>6
  <1> QED BY <1>7 DEF RowList

Counted(r) == 0..r.vocab
Ends(r) == {OffsetsAt(r) + v : v \in 0..r.vocab}
Cursors(r) == {CursorAt(r) + v : v \in 0..r.vocab}
Lists(r) == {ListAt(r) + slot : slot \in 0..(BagPairs(r) - 1)}

\* An operand of a bag other than its scratch.
LEMMA OperandUnasking ==
  ASSUME NEW at, at \notin Private, NEW how, NEW e, NEW count, NEW bytes
  PROVE  Unasking(ElementTouch(at, how, e, bytes)) /\ Unasking(Span(at, how, e, count, bytes))
  BY DEF ElementTouch, Span, Touch, Unasking

LEMMA BagClears ==
  ASSUME NEW r, BagShaped(r), NEW f, f = [u \in 0..((r.vocab + 1) - 1) |-> BagTouches(r, 2, u)]
  PROVE  Asks(f, {}) /\ \A w \in Counted(r) : Leaves(f, w)
  <1>0. \A u : BagTouches(r, 2, u) = Scratched("write", {u})  BY DEF BagTouches
  <1>1. DOMAIN f = 0..r.vocab /\ \A u \in DOMAIN f : f[u] = Scratched("write", {u})
    <2>1. (r.vocab + 1) - 1 = r.vocab  BY DEF BagShaped
    <2> QED BY <1>0, <2>1
  <1>2. ASSUME NEW u \in DOMAIN f, NEW t \in f[u] PROVE Unasking(t) \/ Asking(t, {})
    <2>1. t \in Scratched("write", {u})  BY <1>1, <1>2
    <2> QED BY <2>1, ScratchedAsks
  <1>3. ASSUME NEW w \in Counted(r) PROVE Leaves(f, w)
    <2>1. w \in DOMAIN f /\ WordTouch("scratch", "write", w) \in f[w]
      <3>1. w \in DOMAIN f /\ f[w] = Scratched("write", {w})  BY <1>1, <1>3 DEF Counted
      <3>2. WordTouch("scratch", "write", w) \in Scratched("write", {w})  BY DEF Scratched
      <3> QED BY <3>1, <3>2
    <2> QED BY <2>1, WordLeft
  <1> QED BY <1>2, <1>3, AsksOf

LEMMA BagCounts ==
  ASSUME NEW r, BagShaped(r), NEW f, f = [u \in 0..(BagPairs(r) - 1) |-> BagTouches(r, 3, u)]
  PROVE  Asks(f, Counted(r))
  <1>1. ASSUME NEW u \in DOMAIN f, NEW t \in f[u] PROVE Unasking(t) \/ Asking(t, Counted(r))
    <2>1. t = ElementTouch("idx", "read", u, 4) \/ t = WordTouch("scratch", "atomic", BagRow(r, u))
      BY <1>1 DEF BagTouches, Scratched
    <2>2. Unasking(ElementTouch("idx", "read", u, 4))  BY OperandUnasking DEF Private
    <2>3. BagRow(r, u) \in Counted(r)  BY BagRowInTable DEF BagShaped, Counted
    <2> QED BY <2>1, <2>2, <2>3, WordAsks
  <1> QED BY <1>1, AsksOf

LEMMA BagStarts ==
  ASSUME NEW r, BagShaped(r), NEW f, DOMAIN f = 0..0, \A u \in DOMAIN f : f[u] = BagTouches(r, 4, u)
  PROVE  Asks(f, Counted(r)) /\ \A w \in Ends(r) \cup Cursors(r) : Leaves(f, w)
  <1> DEFINE saved == {base + v : base \in {OffsetsAt(r), CursorAt(r)}, v \in 0..r.vocab}
  <1>1. DOMAIN f = 0..0 /\ \A u \in DOMAIN f : f[u] = Scratched("read", 0..r.vocab) \cup Scratched("write", saved)
    BY DEF BagTouches
  <1>2. Ends(r) \cup Cursors(r) \subseteq saved  BY DEF Ends, Cursors
  <1> HIDE DEF saved
  <1>3. ASSUME NEW u \in DOMAIN f, NEW t \in f[u] PROVE Unasking(t) \/ Asking(t, Counted(r))
    <2>1. CASE t \in Scratched("read", 0..r.vocab)  BY <2>1, ScratchedAsks DEF Counted
    <2>2. CASE t \in Scratched("write", saved)  BY <2>2, ScratchedAsks
    <2> QED BY <1>1, <1>3, <2>1, <2>2
  <1>4. ASSUME NEW w \in saved PROVE Leaves(f, w)
    <2>1. 0 \in DOMAIN f /\ WordTouch("scratch", "write", w) \in f[0]  BY <1>1 DEF Scratched
    <2> QED BY <2>1, WordLeft
  <1> QED BY <1>2, <1>3, <1>4, AsksOf

LEMMA BagPlaces ==
  ASSUME NEW r, BagShaped(r), NEW f, f = [u \in 0..(BagPairs(r) - 1) |-> BagTouches(r, 5, u)]
  PROVE  Asks(f, Cursors(r)) /\ \A w \in Lists(r) : Leaves(f, w)
  <1>1. /\ DOMAIN f = 0..(BagPairs(r) - 1)
        /\ \A u \in DOMAIN f : f[u] = {ElementTouch("idx", "read", u, 4)} \cup {WordTouch("scratch", "atomic", CursorAt(r) + BagRow(r, u))}
                                 \cup {WordTouch("scratch", "write", ListAt(r) + ListSlot(r, u))}
    BY DEF BagTouches, Scratched
  <1>2. ASSUME NEW u \in DOMAIN f, NEW t \in f[u] PROVE Unasking(t) \/ Asking(t, Cursors(r))
    <2>1. Unasking(ElementTouch("idx", "read", u, 4))  BY OperandUnasking DEF Private
    <2>2. BagRow(r, u) \in 0..r.vocab  BY <1>1, BagRowInTable DEF BagShaped
    <2>3. CursorAt(r) + BagRow(r, u) \in Cursors(r)  BY <2>2 DEF Cursors
    <2> QED BY <1>1, <1>2, <2>1, <2>3, WordAsks
  <1>3. ASSUME NEW w \in Lists(r) PROVE Leaves(f, w)
    <2>1. PICK slot \in 0..(BagPairs(r) - 1) : w = ListAt(r) + slot  BY DEF Lists
    <2>2. PICK pair \in 0..(BagPairs(r) - 1) : ListSlot(r, pair) = slot  BY SlotOnto
    <2>3. pair \in DOMAIN f /\ WordTouch("scratch", "write", w) \in f[pair]  BY <1>1, <2>1, <2>2
    <2> QED BY <2>3, WordLeft
  <1> QED BY <1>2, <1>3, AsksOf

LEMMA BagReadsList ==
  ASSUME NEW r, BagShaped(r), NEW v \in 0..(r.vocab - 1),
         NEW t \in RowEnds(r, v) \cup Scratched("read", RowList(r, v)) \cup Scratched("write", RowList(r, v))
  PROVE  Unasking(t) \/ Asking(t, Ends(r) \cup Lists(r))
  <1>1. CASE t \in RowEnds(r, v)
    <2>1. v \in 0..r.vocab /\ v + 1 \in 0..r.vocab  BY DEF BagShaped
    <2>2. OffsetsAt(r) + v + 1 = OffsetsAt(r) + (v + 1)  BY DEF OffsetsAt, BagShaped
    <2>3. {OffsetsAt(r) + v, OffsetsAt(r) + v + 1} \subseteq Ends(r) \cup Lists(r)
      BY <2>1, <2>2 DEF Ends
    <2> QED BY <1>1, <2>3, ScratchedAsks DEF RowEnds
  <1>2. CASE t \in Scratched("read", RowList(r, v))
    <2>1. RowList(r, v) \subseteq Ends(r) \cup Lists(r)  BY RowListWithin DEF Lists
    <2> QED BY <1>2, <2>1, ScratchedAsks
  <1>3. CASE t \in Scratched("write", RowList(r, v))  BY <1>3, ScratchedAsks
  <1> QED BY <1>1, <1>2, <1>3

LEMMA BagSorts ==
  ASSUME NEW r, BagShaped(r), NEW f, f = [u \in 0..(r.vocab - 1) |-> BagTouches(r, 6, u)]
  PROVE  Asks(f, Ends(r) \cup Lists(r))
  <1>1. ASSUME NEW u \in DOMAIN f, NEW t \in f[u] PROVE Unasking(t) \/ Asking(t, Ends(r) \cup Lists(r))
    <2>1. u \in 0..(r.vocab - 1)  OBVIOUS
    <2>2. t \in RowEnds(r, u) \cup Scratched("read", RowList(r, u)) \cup Scratched("write", RowList(r, u))
      BY <1>1 DEF BagTouches
    <2> QED BY <2>1, <2>2, BagReadsList
  <1> QED BY <1>1, AsksOf

LEMMA BagSums ==
  ASSUME NEW r, BagShaped(r), r.kind = "GradTable", NEW f, f = [u \in 0..(BagOutput(r) - 1) |-> BagTouches(r, 7, u)]
  PROVE  Asks(f, Ends(r) \cup Lists(r))
  <1>1. ASSUME NEW u \in DOMAIN f, NEW t \in f[u] PROVE Unasking(t) \/ Asking(t, Ends(r) \cup Lists(r))
    <2> DEFINE row == u \div r.d
               Fed(p) == {ElementTouch("w", "read", p, 4)} \cup {ElementTouch("up", "read", (p \div r.k) * r.d + (u % r.d), 4)}
    <2>1. u \in 0..(r.vocab * r.d - 1)  BY DEF BagOutput
    <2>2. row \in 0..(r.vocab - 1)
      <3>1. r.vocab \in Nat \ {0} /\ r.d \in Nat \ {0} /\ r.vocab * r.d \in Nat  BY DEF BagShaped
      <3>2. u \in Nat /\ u < r.vocab * r.d  BY <2>1, <3>1
      <3>3. row \in Nat /\ u % r.d \in Nat /\ u = row * r.d + (u % r.d)  BY <3>1, <3>2, Division
      <3> HIDE DEF row
      <3>4. ~(r.vocab <= row)
        <4>1. SUFFICES ASSUME r.vocab <= row PROVE FALSE  OBVIOUS
        <4>2. r.vocab * r.d <= row * r.d  BY <3>1, <3>3, <4>1, ProductMonotone
        <4>3. row * r.d \in Nat  BY <3>1, <3>3
        <4> QED BY <3>1, <3>2, <3>3, <4>2, <4>3
      <3> QED BY <3>1, <3>3, <3>4
    <2>3. \/ t = ElementTouch("out", "write", u, 4)
          \/ t \in RowEnds(r, row) \cup Scratched("read", RowList(r, row)) \cup Scratched("write", RowList(r, row))
          \/ \E p \in Bagged(r, row) : t \in Fed(p)
      BY <1>1 DEF BagTouches
    <2>4. Unasking(ElementTouch("out", "write", u, 4))  BY OperandUnasking DEF Private
    <2>5. ASSUME NEW p, t \in Fed(p) PROVE Unasking(t)  BY <2>5, OperandUnasking DEF Private
    <2> HIDE DEF row, Fed
    <2> QED BY <2>2, <2>3, <2>4, <2>5, BagReadsList
  <1> QED BY <1>1, AsksOf

LEMMA BagRunTouches ==
  ASSUME NEW r, NEW op, NEW units, NEW per
  PROVE  BagRun(r, op, units, per).touches = [u \in 0..(units - 1) |-> BagTouches(r, op, u)]
  BY LaunchFields DEF BagRun

LEMMA OneUnit ==
  ASSUME NEW r, NEW op, NEW units, units = 1, NEW per
  PROVE  /\ DOMAIN BagRun(r, op, units, per).touches = 0..0
         /\ \A u \in 0..0 : BagRun(r, op, units, per).touches[u] = BagTouches(r, op, u)
  <1>1. BagRun(r, op, units, per).touches = [u \in 0..(units - 1) |-> BagTouches(r, op, u)]
    BY BagRunTouches
  <1>2. 0..(units - 1) = 0..0  OBVIOUS
  <1> QED BY <1>1, <1>2

LEMMA GradTableFresh ==
  ASSUME NEW r, BagShaped(r), r.kind = "GradTable", NEW i \in DOMAIN BagPasses(r)
  PROVE  Fresh(BagPasses(r), i)
  <1> DEFINE
      lanes == Bounds.bagLanes
      p1 == BagRun(r, 2, r.vocab + 1, lanes)
      p2 == BagRun(r, 3, BagPairs(r), lanes)
      p3 == BagRun(r, 4, 1, 1)
      p4 == BagRun(r, 5, BagPairs(r), lanes)
      p5 == BagRun(r, 6, r.vocab, lanes)
      p6 == BagRun(r, 7, BagOutput(r), lanes)
      w == BagPasses(r)
  <1>1. w = <<p1, p2, p3, p4, p5, p6>>  BY DEF BagPasses
  <1>20. p1.touches = [u \in 0..((r.vocab + 1) - 1) |-> BagTouches(r, 2, u)]  BY BagRunTouches
  <1>21. p2.touches = [u \in 0..(BagPairs(r) - 1) |-> BagTouches(r, 3, u)]  BY BagRunTouches
  <1>22. DOMAIN p3.touches = 0..0 /\ \A u \in DOMAIN p3.touches : p3.touches[u] = BagTouches(r, 4, u)
    BY OneUnit
  <1>23. p4.touches = [u \in 0..(BagPairs(r) - 1) |-> BagTouches(r, 5, u)]  BY BagRunTouches
  <1>24. p5.touches = [u \in 0..(r.vocab - 1) |-> BagTouches(r, 6, u)]  BY BagRunTouches
  <1>25. p6.touches = [u \in 0..(BagOutput(r) - 1) |-> BagTouches(r, 7, u)]  BY BagRunTouches
  <1> HIDE DEF p1, p2, p3, p4, p5, p6, w
  <1>2. Asks(p1.touches, {}) /\ \A x \in Counted(r) : Leaves(p1.touches, x)  BY <1>20, BagClears
  <1>3. Asks(p2.touches, Counted(r))  BY <1>21, BagCounts
  <1>4. Asks(p3.touches, Counted(r)) /\ \A x \in Ends(r) \cup Cursors(r) : Leaves(p3.touches, x)
    BY <1>22, BagStarts
  <1>5. Asks(p4.touches, Cursors(r)) /\ \A x \in Lists(r) : Leaves(p4.touches, x)  BY <1>23, BagPlaces
  <1>6. Asks(p5.touches, Ends(r) \cup Lists(r))  BY <1>24, BagSorts
  <1>7. Asks(p6.touches, Ends(r) \cup Lists(r))  BY <1>25, BagSums
  <1>8. /\ i \in 1..6 /\ w[1] = p1 /\ w[2] = p2 /\ w[3] = p3 /\ w[4] = p4 /\ w[5] = p5 /\ w[6] = p6
    BY <1>1 DEF w
  <1>9. Fresh(w, 1)
    <2>1. Asks(w[1].touches, {})  BY <1>2, <1>8
    <2> QED BY <2>1, FreshAlone
  <1>10. Fresh(w, 2)
    <2>1. 1 \in 1..(2 - 1)  OBVIOUS
    <2> QED BY <1>2, <1>3, <1>8, <2>1, FreshFrom
  <1>11. Fresh(w, 3)
    <2>1. 1 \in 1..(3 - 1)  OBVIOUS
    <2> QED BY <1>2, <1>4, <1>8, <2>1, FreshFrom
  <1>12. Fresh(w, 4)
    <2>1. 3 \in 1..(4 - 1)  OBVIOUS
    <2> QED BY <1>4, <1>5, <1>8, <2>1, FreshFrom
  <1>13. Fresh(w, 5)
    <2>1. 3 \in 1..(5 - 1) /\ 4 \in 1..(5 - 1)  OBVIOUS
    <2>2. \A x \in Ends(r) \cup Lists(r) : \E j \in 1..(5 - 1) : Leaves(w[j].touches, x)
      BY <1>4, <1>5, <1>8, <2>1
    <2> QED BY <1>6, <1>8, <2>2, FreshFrom
  <1>14. Fresh(w, 6)
    <2>1. 3 \in 1..(6 - 1) /\ 4 \in 1..(6 - 1)  OBVIOUS
    <2>2. \A x \in Ends(r) \cup Lists(r) : \E j \in 1..(6 - 1) : Leaves(w[j].touches, x)
      BY <1>4, <1>5, <1>8, <2>1
    <2> QED BY <1>7, <1>8, <2>2, FreshFrom
  <1>15. i = 1 \/ i = 2 \/ i = 3 \/ i = 4 \/ i = 5 \/ i = 6  BY <1>8
  <1> QED BY <1>9, <1>10, <1>11, <1>12, <1>13, <1>14, <1>15 DEF w

LEMMA EnteredFresh ==
  ASSUME NEW why, NEW passes, NEW scratch, NEW built, plan = Entered(why, passes, scratch, built),
         why = "none" => \A i \in DOMAIN passes : Fresh(passes, i)
  PROVE  ScratchIsFresh
  <1>1. CASE why # "none"
    <2>1. Passes = <<>>  BY <1>1, RefusedPasses DEF Entered
    <2> QED BY <2>1, FreshPasses
  <1>2. CASE why = "none"
    <2>1. Passes = passes  BY <1>2, AnsweredPasses DEF Entered
    <2> QED BY <1>2, <2>1, FreshPasses
  <1> QED BY <1>1, <1>2

LEMMA BagFresh ==
  ASSUME plan = BagEntry(request), PassesArePrepared, request.kind \in {"Forward", "GradWeights", "GradTable"},
         {request.rows, request.k, request.vocab, request.d} \subseteq Nat,
         BagPairs(request) <= Bounds.pairs => \A pair \in 1..BagPairs(request) : request.ids[pair] \in Nat
  PROVE  ScratchIsFresh
  <1>1. CASE request.kind = "GradTable"
    <2> DEFINE why == FirstOf(BagRefusals(request))
               passes == BagPasses(request)
    <2>1. why = "none" => \A i \in DOMAIN passes : Fresh(passes, i)  BY <1>1, BagAdmits, GradTableFresh
    <2>2. plan = Entered(why, passes, 0, {<<"weighted_bag">>})  BY DEF BagEntry
    <2> HIDE DEF why, passes
    <2> QED BY <2>1, <2>2, EnteredFresh
  <1>2. CASE request.kind # "GradTable"  BY <1>2, BagPublic, PublicIsFresh
  <1> QED BY <1>1, <1>2

----------------------------------------
(* The halves of the radix sort.                                           *)
KeyWords(s, half) == {KeyWord(s, half, i, 0) : i \in 0..(s.n - 1)} \cup {KeyWord(s, half, i, 1) : i \in 0..(s.n - 1)}
PositionWords(s, half) == {PositionWord(s, half, i) : i \in 0..(s.n - 1)}
PairWords(s, half) == KeyWords(s, half) \cup PositionWords(s, half)
CountWords(s) == {HistogramWord(s, d, b) : d \in 0..(Digits - 1), b \in 0..(s.blocks - 1)}
TotalWords(s) == {TotalWord(s, d) : d \in 0..(Digits - 1)}

LEMMA PairWordsOf ==
  ASSUME NEW s, NEW how, NEW half, NEW i
  PROVE  PairTouches(s, how, half, i) = {WordTouch("scratch", how, KeyWord(s, half, i, 0)),
           WordTouch("scratch", how, KeyWord(s, half, i, 1)), WordTouch("scratch", how, PositionWord(s, half, i))}
  BY DEF PairTouches

LEMMA PairAsks ==
  ASSUME NEW s, NEW half, NEW i \in 0..(s.n - 1), NEW W, PairWords(s, half) \subseteq W,
         NEW t \in PairTouches(s, "read", half, i)
  PROVE  Unasking(t) \/ Asking(t, W)
  <1>1. {KeyWord(s, half, i, 0), KeyWord(s, half, i, 1), PositionWord(s, half, i)} \subseteq W
    BY DEF PairWords, KeyWords, PositionWords
  <1>2. \/ t = WordTouch("scratch", "read", KeyWord(s, half, i, 0))
        \/ t = WordTouch("scratch", "read", KeyWord(s, half, i, 1))
        \/ t = WordTouch("scratch", "read", PositionWord(s, half, i))
    BY PairWordsOf
  <1> QED BY <1>1, <1>2, WordAsks

LEMMA PairWritten ==
  ASSUME NEW s, NEW half, NEW i, NEW t \in PairTouches(s, "write", half, i) PROVE Unasking(t)
  BY PairWordsOf, WordAsks

\* The words of a half are left by whoever writes the pair of every place.
LEMMA PairsLeft ==
  ASSUME NEW s, NEW half, NEW touches,
         \A i \in 0..(s.n - 1) : \E u \in DOMAIN touches : PairTouches(s, "write", half, i) \subseteq touches[u]
  PROVE  \A w \in PairWords(s, half) : Leaves(touches, w)
  <1> SUFFICES ASSUME NEW w \in PairWords(s, half) PROVE Leaves(touches, w)  OBVIOUS
  <1>1. PICK i \in 0..(s.n - 1) : w \in {KeyWord(s, half, i, 0), KeyWord(s, half, i, 1), PositionWord(s, half, i)}
    BY DEF PairWords, KeyWords, PositionWords
  <1>2. PICK u \in DOMAIN touches : PairTouches(s, "write", half, i) \subseteq touches[u]  OBVIOUS
  <1>3. WordTouch("scratch", "write", w) \in PairTouches(s, "write", half, i)  BY <1>1, PairWordsOf
  <1> QED BY <1>2, <1>3, WordLeft

\* A sort whose blocks hold its elements.
Blocked(s, keys) == Sortable(s, keys) /\ s.blocks = CeilDiv(s.n, Block)

LEMMA InSomeBlock ==
  ASSUME NEW s, NEW keys, Blocked(s, keys), NEW i \in 0..(s.n - 1)
  PROVE  \E b \in 0..(s.blocks - 1) : i \in InBlock(s, b)
  <1> DEFINE b == i \div Block
             c == CeilDiv(s.n, Block)
  <1>1. s.n \in Nat /\ i \in Nat /\ i < s.n /\ Block \in Nat \ {0} /\ s.blocks = c
    BY StridedAssumption DEF Blocked, Sortable
  <1>2. c \in Nat /\ s.n <= c * Block  BY <1>1, CeilDivCovers
  <1>3. b \in Nat /\ b * Block \in Nat /\ b * Block <= i
    <2>1. b \in Nat /\ i % Block \in Nat /\ i = b * Block + (i % Block)  BY <1>1, Division
    <2> HIDE DEF b
    <2>2. b * Block \in Nat  BY <1>1, <2>1
    <2> QED BY <1>1, <2>1, <2>2
  <1> HIDE DEF b, c
  <1>4. ~(c <= b)
    <2>1. SUFFICES ASSUME c <= b PROVE FALSE  OBVIOUS
    <2>2. c * Block <= b * Block /\ c * Block \in Nat  BY <1>1, <1>2, <1>3, <2>1, ProductMonotone
    <2> QED BY <1>1, <1>2, <1>3, <2>2
  <1>5. b \in 0..(s.blocks - 1)  BY <1>1, <1>2, <1>3, <1>4
  <1>6. i \in InBlock(s, b)  BY DEF InBlock, b
  <1> QED BY <1>5, <1>6

\* One pass moves some element to every place.
LEMMA MovedOnto ==
  ASSUME NEW s, NEW keys, Sortable(s, keys), NEW j \in Nat, NEW p \in 0..(s.n - 1)
  PROVE  \E c \in Standing(s, keys, j) : Target(s, keys, Standing(s, keys, j), j, c) = p /\ c[1] \in 0..(s.n - 1)
  <1> DEFINE
      L == Order(s, keys, j)
      M == Order(s, keys, j + 1)
      placed == Standing(s, keys, j)
  <1>1. s.n \in Nat /\ j + 1 \in Nat  BY DEF Sortable
  <1>2. Linear(s.n, L) /\ Linear(s.n, M)  BY <1>1, OrderLinear
  <1>3. placed = {<<RankIn(s.n, L, e), e>> : e \in 0..(s.n - 1)}  BY DEF Standing
  <1>4. Standing(s, keys, j + 1) = {<<RankIn(s.n, M, e), e>> : e \in 0..(s.n - 1)}  BY DEF Standing
  <1> HIDE DEF L, M, placed
  <1>5. PICK e \in 0..(s.n - 1) : RankIn(s.n, M, e) = p  BY <1>1, <1>2, RankOnto
  <1>6. <<p, e>> \in Moved(s, keys, placed, j)
    <2>1. <<p, e>> \in Standing(s, keys, j + 1)  BY <1>4, <1>5
    <2> QED BY <2>1, StandingNext DEF placed
  <1>7. PICK c \in placed : <<p, e>> = <<Target(s, keys, placed, j, c), c[2]>>  BY <1>6 DEF Moved
  <1>8. c[1] \in 0..(s.n - 1)
    <2>1. PICK f \in 0..(s.n - 1) : c = <<RankIn(s.n, L, f), f>>  BY <1>3
    <2>2. RankIn(s.n, L, f) \in 0..(s.n - 1)  BY <1>1, <1>2, LowerFinite
    <2> QED BY <2>1, <2>2
  <1>9. Target(s, keys, placed, j, c) = p  BY <1>7
  <1> QED BY <1>8, <1>9 DEF placed

\* What the three dispatches of a digit pass ask of the scratch, and leave.
Flows(s, j, p) ==
  /\ Asks(p[1].touches, PairWords(s, j % 2)) /\ \A w \in CountWords(s) : Leaves(p[1].touches, w)
  /\ Asks(p[2].touches, CountWords(s)) /\ \A w \in TotalWords(s) : Leaves(p[2].touches, w)
  /\ Asks(p[3].touches, PairWords(s, j % 2) \cup CountWords(s) \cup TotalWords(s))
  /\ \A w \in PairWords(s, (j + 1) % 2) : Leaves(p[3].touches, w)

\* What a unit of the second and of the third dispatch touches.
StartTouches(s, d) ==
  {WordTouch("scratch", how, HistogramWord(s, d, b)) : b \in 0..(s.blocks - 1), how \in {"read", "write"}}
    \cup {WordTouch("scratch", "write", TotalWord(s, d))}
MoveTouches(s, keys, placed, j, b) ==
  {WordTouch("scratch", "read", TotalWord(s, d)) : d \in 0..(Digits - 1)}
    \cup {WordTouch("scratch", "read", HistogramWord(s, d, b)) : d \in 0..(Digits - 1)}
    \cup (UNION {PairTouches(s, "read", j % 2, i) : i \in InBlock(s, b)})
    \cup UNION {PairTouches(s, "write", (j + 1) % 2, Target(s, keys, placed, j, c)) :
                  c \in {q \in placed : q[1] \in InBlock(s, b)}}

LEMMA BlockPairsAsk ==
  ASSUME NEW s, NEW half, NEW b, NEW W, PairWords(s, half) \subseteq W,
         NEW t \in UNION {PairTouches(s, "read", half, i) : i \in InBlock(s, b)}
  PROVE  Unasking(t) \/ Asking(t, W)
  <1>1. PICK i \in InBlock(s, b) : t \in PairTouches(s, "read", half, i)  OBVIOUS
  <1>2. i \in 0..(s.n - 1)  BY DEF InBlock
  <1> QED BY <1>1, <1>2, PairAsks

LEMMA CountsFlow ==
  ASSUME NEW s, NEW j, NEW f,
         f = [b \in 0..(s.blocks - 1) |->
                (UNION {PairTouches(s, "read", j % 2, i) : i \in InBlock(s, b)})
                  \cup {WordTouch("scratch", "write", HistogramWord(s, d, b)) : d \in 0..(Digits - 1)}]
  PROVE  Asks(f, PairWords(s, j % 2)) /\ \A w \in CountWords(s) : Leaves(f, w)
  <1> DEFINE Pairs(b) == UNION {PairTouches(s, "read", j % 2, i) : i \in InBlock(s, b)}
             Saved(b) == {WordTouch("scratch", "write", HistogramWord(s, d, b)) : d \in 0..(Digits - 1)}
  <1>1. DOMAIN f = 0..(s.blocks - 1) /\ \A b \in DOMAIN f : f[b] = Pairs(b) \cup Saved(b)  OBVIOUS
  <1>2. ASSUME NEW b, NEW t \in Pairs(b) PROVE Unasking(t) \/ Asking(t, PairWords(s, j % 2))
    BY <1>2, BlockPairsAsk
  <1>3. ASSUME NEW b, NEW t \in Saved(b) PROVE Unasking(t)  BY <1>3, WordAsks
  <1>4. ASSUME NEW b, NEW d \in 0..(Digits - 1) PROVE WordTouch("scratch", "write", HistogramWord(s, d, b)) \in Saved(b)
    OBVIOUS
  <1> HIDE DEF Pairs, Saved
  <1>5. ASSUME NEW u \in DOMAIN f, NEW t \in f[u] PROVE Unasking(t) \/ Asking(t, PairWords(s, j % 2))
    BY <1>1, <1>2, <1>3, <1>5
  <1>6. ASSUME NEW w \in CountWords(s) PROVE Leaves(f, w)
    <2>1. PICK d \in 0..(Digits - 1) : \E b \in 0..(s.blocks - 1) : w = HistogramWord(s, d, b)
      BY DEF CountWords
    <2>2. PICK b \in 0..(s.blocks - 1) : w = HistogramWord(s, d, b)  BY <2>1
    <2>3. b \in DOMAIN f /\ WordTouch("scratch", "write", w) \in f[b]  BY <1>1, <1>4, <2>2
    <2> QED BY <2>3, WordLeft
  <1> QED BY <1>5, <1>6, AsksOf

LEMMA StartsFlow ==
  ASSUME NEW s, NEW f,
         f = [d \in 0..(Digits - 1) |-> StartTouches(s, d)]
  PROVE  Asks(f, CountWords(s)) /\ \A w \in TotalWords(s) : Leaves(f, w)
  <1> DEFINE Run(d) == {WordTouch("scratch", how, HistogramWord(s, d, b)) : b \in 0..(s.blocks - 1), how \in {"read", "write"}}
  <1>1. DOMAIN f = 0..(Digits - 1) /\ \A d \in DOMAIN f : f[d] = Run(d) \cup {WordTouch("scratch", "write", TotalWord(s, d))}
    BY DEF StartTouches
  <1>2. ASSUME NEW d \in 0..(Digits - 1), NEW t \in Run(d) PROVE Unasking(t) \/ Asking(t, CountWords(s))
    <2>1. PICK b \in 0..(s.blocks - 1) : \E how \in {"read", "write"} : t = WordTouch("scratch", how, HistogramWord(s, d, b))
      BY <1>2
    <2>2. HistogramWord(s, d, b) \in CountWords(s)  BY DEF CountWords
    <2> QED BY <2>1, <2>2, WordAsks
  <1> HIDE DEF Run
  <1>3. ASSUME NEW u \in DOMAIN f, NEW t \in f[u] PROVE Unasking(t) \/ Asking(t, CountWords(s))
    <2>1. Unasking(WordTouch("scratch", "write", TotalWord(s, u)))  BY WordAsks
    <2> QED BY <1>1, <1>2, <1>3, <2>1
  <1>4. ASSUME NEW w \in TotalWords(s) PROVE Leaves(f, w)
    <2>1. PICK d \in 0..(Digits - 1) : w = TotalWord(s, d)  BY DEF TotalWords
    <2>2. d \in DOMAIN f /\ WordTouch("scratch", "write", w) \in f[d]  BY <1>1, <2>1
    <2> QED BY <2>2, WordLeft
  <1> QED BY <1>3, <1>4, AsksOf

LEMMA MovesFlow ==
  ASSUME NEW s, NEW keys, Blocked(s, keys), NEW j \in Nat, NEW placed, placed = Standing(s, keys, j), NEW f,
         f = [b \in 0..(s.blocks - 1) |-> MoveTouches(s, keys, placed, j, b)]
  PROVE  /\ Asks(f, PairWords(s, j % 2) \cup CountWords(s) \cup TotalWords(s))
         /\ \A w \in PairWords(s, (j + 1) % 2) : Leaves(f, w)
  <1> DEFINE
      W == PairWords(s, j % 2) \cup CountWords(s) \cup TotalWords(s)
      Totals == {WordTouch("scratch", "read", TotalWord(s, d)) : d \in 0..(Digits - 1)}
      Loaded(b) == {WordTouch("scratch", "read", HistogramWord(s, d, b)) : d \in 0..(Digits - 1)}
      Pairs(b) == UNION {PairTouches(s, "read", j % 2, i) : i \in InBlock(s, b)}
      Put(c) == PairTouches(s, "write", (j + 1) % 2, Target(s, keys, placed, j, c))
      Mine(b) == {q \in placed : q[1] \in InBlock(s, b)}
      Moves(b) == UNION {Put(c) : c \in Mine(b)}
  <1>1. DOMAIN f = 0..(s.blocks - 1) /\ \A b \in DOMAIN f : f[b] = Totals \cup Loaded(b) \cup Pairs(b) \cup Moves(b)
    BY DEF MoveTouches
  <1>2. ASSUME NEW t \in Totals PROVE Unasking(t) \/ Asking(t, W)
    <2>1. PICK d \in 0..(Digits - 1) : t = WordTouch("scratch", "read", TotalWord(s, d))  OBVIOUS
    <2>2. TotalWord(s, d) \in W  BY DEF TotalWords
    <2> HIDE DEF W
    <2> QED BY <2>1, <2>2, WordAsks
  <1>3. ASSUME NEW b \in 0..(s.blocks - 1), NEW t \in Loaded(b) PROVE Unasking(t) \/ Asking(t, W)
    <2>1. PICK d \in 0..(Digits - 1) : t = WordTouch("scratch", "read", HistogramWord(s, d, b))  BY <1>3
    <2>2. HistogramWord(s, d, b) \in W  BY DEF CountWords
    <2> HIDE DEF W
    <2> QED BY <2>1, <2>2, WordAsks
  <1>4. ASSUME NEW b, NEW t \in Pairs(b) PROVE Unasking(t) \/ Asking(t, W)
    <2>1. PairWords(s, j % 2) \subseteq W  OBVIOUS
    <2> HIDE DEF W
    <2> QED BY <1>4, <2>1, BlockPairsAsk
  <1>5. ASSUME NEW b, NEW t \in Moves(b) PROVE Unasking(t)
    <2>1. \E i : t \in PairTouches(s, "write", (j + 1) % 2, i)  BY <1>5
    <2> QED BY <2>1, PairWritten
  <1>6. ASSUME NEW i \in 0..(s.n - 1)
        PROVE  \E u \in DOMAIN f : PairTouches(s, "write", (j + 1) % 2, i) \subseteq f[u]
    <2>1. PICK c \in placed : Target(s, keys, placed, j, c) = i /\ c[1] \in 0..(s.n - 1)
      BY MovedOnto DEF Blocked
    <2>2. PICK b \in 0..(s.blocks - 1) : c[1] \in InBlock(s, b)  BY <2>1, InSomeBlock
    <2>3. c \in Mine(b) /\ Put(c) = PairTouches(s, "write", (j + 1) % 2, i)  BY <2>1, <2>2
    <2> HIDE DEF Put, Mine
    <2>4. Put(c) \subseteq Moves(b)  BY <2>3
    <2> HIDE DEF Moves, Totals, Loaded, Pairs
    <2>5. b \in DOMAIN f /\ Moves(b) \subseteq f[b]  BY <1>1
    <2> QED BY <2>3, <2>4, <2>5
  <1> HIDE DEF Totals, Loaded, Pairs, Moves, W
  <1>7. ASSUME NEW u \in DOMAIN f, NEW t \in f[u] PROVE Unasking(t) \/ Asking(t, W)
    <2>1. u \in 0..(s.blocks - 1) /\ (t \in Totals \/ t \in Loaded(u) \/ t \in Pairs(u) \/ t \in Moves(u))
      BY <1>1, <1>7
    <2> QED BY <1>2, <1>3, <1>4, <1>5, <2>1
  <1>8. Asks(f, W)  BY <1>7, AsksOf
  <1>9. \A w \in PairWords(s, (j + 1) % 2) : Leaves(f, w)  BY <1>6, PairsLeft
  <1> QED BY <1>8, <1>9 DEF W

LEMMA DigitPassFlows ==
  ASSUME NEW s, NEW keys, Blocked(s, keys), NEW j \in Nat, NEW placed, placed = Standing(s, keys, j)
  PROVE  Flows(s, j, DigitPass(s, keys, placed, j))
  <1> DEFINE
      Histogram(b) ==
        (UNION {PairTouches(s, "read", j % 2, i) : i \in InBlock(s, b)})
          \cup {WordTouch("scratch", "write", HistogramWord(s, d, b)) : d \in 0..(Digits - 1)}
      counts == [b \in 0..(s.blocks - 1) |-> Histogram(b)]
      starts == [d \in 0..(Digits - 1) |-> StartTouches(s, d)]
      moves == [b \in 0..(s.blocks - 1) |-> MoveTouches(s, keys, placed, j, b)]
      first == Pass(<<"radix">>, s.blocks, 1, Folded(s.blocks, 1), counts)
      second == Pass(<<"radix">>, Digits, 1, Folded(Digits, 1), starts)
      third == Pass(<<"radix">>, s.blocks, 1, Folded(s.blocks, 1), moves)
      p == DigitPass(s, keys, placed, j)
  <1>1. p = <<first, second, third>>  BY DEF DigitPass, StartTouches, MoveTouches
  <1>2. Asks(counts, PairWords(s, j % 2)) /\ \A w \in CountWords(s) : Leaves(counts, w)  BY CountsFlow
  <1>3. Asks(starts, CountWords(s)) /\ \A w \in TotalWords(s) : Leaves(starts, w)  BY StartsFlow
  <1>4. /\ Asks(moves, PairWords(s, j % 2) \cup CountWords(s) \cup TotalWords(s))
        /\ \A w \in PairWords(s, (j + 1) % 2) : Leaves(moves, w)
    BY MovesFlow
  <1> HIDE DEF counts, starts, moves
  <1>5. first.touches = counts /\ second.touches = starts /\ third.touches = moves  BY PassFields
  <1> HIDE DEF first, second, third, p
  <1>6. p[1].touches = counts /\ p[2].touches = starts /\ p[3].touches = moves  BY <1>1, <1>5
  <1>7. Flows(s, j, p)  BY <1>2, <1>3, <1>4, <1>6 DEF Flows
  <1> QED BY <1>7 DEF p

\* The dispatches of a sort between one that writes its first half and one
\* that reads its last.
LEMMA SortedPass ==
  ASSUME NEW s, NEW keys, Blocked(s, keys), NEW q, q = RadixSort(s, keys).passes, NEW j \in 0..(DigitPasses(s) - 1)
  PROVE  Flows(s, j, <<q[3 * j + 1], q[3 * j + 2], q[3 * j + 3]>>)
  <1> DEFINE
      D == DigitPasses(s)
      Step(k) == DigitPass(s, keys, Placed(s, keys)[k], k)
      p == Step(j)
  <1>1. D \in Nat /\ j \in Nat  BY DEF Blocked, Sortable, DigitPasses
  <1>2. q = [i \in 1..(3 * D) |-> Step((i - 1) \div 3)[((i - 1) % 3) + 1]]  BY DEF RadixSort
  <1>3. Flows(s, j, p)
    <2>1. Placed(s, keys)[j] = Standing(s, keys, j)  BY <1>1, PlacedStands DEF Blocked
    <2> QED BY <1>1, <2>1, DigitPassFlows
  <1> HIDE DEF D, Step, p
  <1>4. /\ 3 * j + 1 \in 1..(3 * D) /\ ((3 * j + 1) - 1) \div 3 = j /\ (((3 * j + 1) - 1) % 3) + 1 = 1
        /\ 3 * j + 2 \in 1..(3 * D) /\ ((3 * j + 2) - 1) \div 3 = j /\ (((3 * j + 2) - 1) % 3) + 1 = 2
        /\ 3 * j + 3 \in 1..(3 * D) /\ ((3 * j + 3) - 1) \div 3 = j /\ (((3 * j + 3) - 1) % 3) + 1 = 3
    BY <1>1 DEF D
  <1>5. q[3 * j + 1] = Step(j)[1] /\ q[3 * j + 2] = Step(j)[2] /\ q[3 * j + 3] = Step(j)[3]
    BY <1>2, <1>4
  <1> QED BY <1>3, <1>5 DEF Flows, p

LEMMA BlockedPasses ==
  ASSUME NEW s, NEW keys, Blocked(s, keys) PROVE DigitPasses(s) \in Nat
  BY DEF Blocked, Sortable, DigitPasses

PassList(s, q) == q \in Seq({q[k] : k \in DOMAIN q}) /\ Len(q) = 3 * DigitPasses(s)
LEMMA SortedSeq ==
  ASSUME NEW s, NEW keys, Blocked(s, keys) PROVE PassList(s, RadixSort(s, keys).passes)
  <1> DEFINE q == RadixSort(s, keys).passes
  <1>1. DigitPasses(s) \in Nat  BY BlockedPasses
  <1>2. /\ DOMAIN q = 1..(3 * DigitPasses(s)) /\ Len(q) = 3 * DigitPasses(s)
        /\ q \in Seq({q[k] : k \in DOMAIN q})
        /\ \A k \in DOMAIN q : InScratch(q[k])
    BY <1>1, SortInScratch
  <1> HIDE DEF q
  <1>3. PassList(s, q)  BY <1>2 DEF PassList
  <1> QED BY <1>3 DEF q

LEMMA ThreeApart ==
  ASSUME NEW D \in Nat, NEW i \in 1..(3 * D + 2)
  PROVE  i = 1 \/ i = 3 * D + 2 \/ \E j \in 0..(D - 1) : i = 3 * j + 2 \/ i = 3 * j + 3 \/ i = 3 * j + 4
  <1>1. CASE i \in 2..(3 * D + 1)
    <2> DEFINE j == (i - 2) \div 3
    <2>1. i - 2 \in Nat /\ 3 \in Nat \ {0}  BY <1>1
    <2>2. j \in Nat /\ (i - 2) % 3 \in Nat /\ (i - 2) % 3 < 3 /\ i - 2 = j * 3 + ((i - 2) % 3)
      BY <2>1, Division
    <2> HIDE DEF j
    <2>3. i = 3 * j + 2 \/ i = 3 * j + 3 \/ i = 3 * j + 4  BY <1>1, <2>2
    <2>4. j \in 0..(D - 1)  BY <1>1, <2>2
    <2> QED BY <2>3, <2>4
  <1>2. CASE i \notin 2..(3 * D + 1)  BY <1>2
  <1> QED BY <1>1, <1>2

LEMMA SortFresh ==
  ASSUME NEW s, NEW keys, Blocked(s, keys), NEW q, q = RadixSort(s, keys).passes,
         NEW a, NEW b, NEW w, w = <<a>> \o q \o <<b>>,
         Asks(a.touches, {}), \A x \in PairWords(s, 0) : Leaves(a.touches, x),
         Asks(b.touches, PairWords(s, DigitPasses(s) % 2))
  PROVE  \A i \in DOMAIN w : Fresh(w, i)
  <1> DEFINE D == DigitPasses(s)
             T == {q[k] : k \in DOMAIN q} \cup {a, b}
  <1>1. D \in Nat  BY BlockedPasses
  <1>2. q \in Seq({q[k] : k \in DOMAIN q}) /\ Len(q) = 3 * D  BY SortedSeq DEF PassList
  <1>3. ASSUME NEW j \in 0..(D - 1) PROVE Flows(s, j, <<q[3 * j + 1], q[3 * j + 2], q[3 * j + 3]>>)
    BY SortedPass
  <1>4. a \in T /\ b \in T /\ q \in Seq(T)  BY <1>2
  <1> HIDE DEF T
  <1>6. /\ w \in Seq(T) /\ Len(w) = 3 * D + 2 /\ w[1] = a /\ w[3 * D + 2] = b
        /\ \A i \in 2..(3 * D + 1) : w[i] = q[i - 1]
    <2>1. /\ w \in Seq(T) /\ Len(w) = Len(q) + 2 /\ w[1] = a /\ w[Len(w)] = b
          /\ \A i \in 2..(Len(w) - 1) : w[i] = q[i - 1] /\ i - 1 \in 1..Len(q)
      BY <1>4, Sandwich
    <2>2. Len(w) = 3 * D + 2 /\ Len(w) - 1 = 3 * D + 1  BY <1>1, <1>2, <2>1
    <2> QED BY <2>1, <2>2
  <1> HIDE DEF D
  <1>7. ASSUME NEW j \in 0..(D - 1) PROVE Flows(s, j, <<w[3 * j + 2], w[3 * j + 3], w[3 * j + 4]>>)
    <2>1. /\ 3 * j + 2 \in 2..(3 * D + 1) /\ (3 * j + 2) - 1 = 3 * j + 1
          /\ 3 * j + 3 \in 2..(3 * D + 1) /\ (3 * j + 3) - 1 = 3 * j + 2
          /\ 3 * j + 4 \in 2..(3 * D + 1) /\ (3 * j + 4) - 1 = 3 * j + 3
      BY <1>1
    <2>2. w[3 * j + 2] = q[3 * j + 1] /\ w[3 * j + 3] = q[3 * j + 2] /\ w[3 * j + 4] = q[3 * j + 3]
      BY <1>6, <2>1
    <2> QED BY <1>3, <2>2
  <1>8. ASSUME NEW j \in 0..D PROVE \A x \in PairWords(s, j % 2) : Leaves(w[3 * j + 1].touches, x)
    <2>1. CASE j = 0
      <3>1. 3 * j + 1 = 1 /\ j % 2 = 0  BY <2>1
      <3> QED BY <1>6, <3>1
    <2>2. CASE j # 0
      <3> DEFINE k == j - 1
      <3>1. k \in 0..(D - 1) /\ 3 * k + 4 = 3 * j + 1 /\ k + 1 = j  BY <1>1, <2>2
      <3> HIDE DEF k
      <3>2. \A x \in PairWords(s, (k + 1) % 2) : Leaves(w[3 * k + 4].touches, x)
        BY <1>7, <3>1 DEF Flows
      <3> QED BY <3>1, <3>2
    <2> QED BY <2>1, <2>2
  <1>9. Fresh(w, 1)  BY <1>6, FreshAlone
  <1>10. Fresh(w, 3 * D + 2)
    <2>1. 3 * D + 1 \in 1..((3 * D + 2) - 1) /\ D \in 0..D  BY <1>1
    <2>2. \A x \in PairWords(s, D % 2) : Leaves(w[3 * D + 1].touches, x)  BY <1>8, <2>1
    <2>3. Asks(w[3 * D + 2].touches, PairWords(s, D % 2))  BY <1>6 DEF D
    <2> QED BY <2>1, <2>2, <2>3, FreshFrom
  <1>11. ASSUME NEW j \in 0..(D - 1) PROVE Fresh(w, 3 * j + 2) /\ Fresh(w, 3 * j + 3) /\ Fresh(w, 3 * j + 4)
    <2> DEFINE p == <<w[3 * j + 2], w[3 * j + 3], w[3 * j + 4]>>
    <2>1. Flows(s, j, p) /\ p[1] = w[3 * j + 2] /\ p[2] = w[3 * j + 3] /\ p[3] = w[3 * j + 4]  BY <1>7
    <2> HIDE DEF p
    <2>2. /\ Asks(w[3 * j + 2].touches, PairWords(s, j % 2)) /\ \A x \in CountWords(s) : Leaves(w[3 * j + 2].touches, x)
          /\ Asks(w[3 * j + 3].touches, CountWords(s)) /\ \A x \in TotalWords(s) : Leaves(w[3 * j + 3].touches, x)
          /\ Asks(w[3 * j + 4].touches, PairWords(s, j % 2) \cup CountWords(s) \cup TotalWords(s))
      BY <2>1 DEF Flows
    <2>3. \A x \in PairWords(s, j % 2) : Leaves(w[3 * j + 1].touches, x)
      <3>1. j \in 0..D  BY <1>1
      <3> QED BY <1>8, <3>1
    <2>4. /\ 3 * j + 1 \in 1..((3 * j + 2) - 1) /\ 3 * j + 2 \in 1..((3 * j + 3) - 1)
          /\ 3 * j + 1 \in 1..((3 * j + 4) - 1) /\ 3 * j + 2 \in 1..((3 * j + 4) - 1) /\ 3 * j + 3 \in 1..((3 * j + 4) - 1)
      BY <1>1
    <2>5. Fresh(w, 3 * j + 2)  BY <2>2, <2>3, <2>4, FreshFrom
    <2>6. Fresh(w, 3 * j + 3)  BY <2>2, <2>4, FreshFrom
    <2>7. Fresh(w, 3 * j + 4)
      <3>1. \A x \in PairWords(s, j % 2) \cup CountWords(s) \cup TotalWords(s) :
              \E k \in 1..((3 * j + 4) - 1) : Leaves(w[k].touches, x)
        BY <2>2, <2>3, <2>4
      <3> QED BY <2>2, <3>1, FreshFrom
    <2> QED BY <2>5, <2>6, <2>7
  <1>12. ASSUME NEW i \in DOMAIN w PROVE Fresh(w, i)
    <2>1. i \in 1..(3 * D + 2)  BY <1>6
    <2>2. i = 1 \/ i = 3 * D + 2 \/ \E j \in 0..(D - 1) : i = 3 * j + 2 \/ i = 3 * j + 3 \/ i = 3 * j + 4
      BY <1>1, <2>1, ThreeApart
    <2> QED BY <1>9, <1>10, <1>11, <2>2
  <1> QED BY <1>12

----------------------------------------
(* The slots of a scatter.                                                 *)
LEMMA Packed ==
  ASSUME NEW a \in Nat, NEW b \in Nat, NEW m \in Nat, NEW k \in Nat, a < m, b < k
  PROVE  a * k + b \in Nat /\ a * k + b < m * k /\ m * k \in Nat
  <1>1. a + 1 \in Nat /\ a + 1 <= m  OBVIOUS
  <1>2. (a + 1) * k <= m * k  BY <1>1, ProductMonotone
  <1>3. (a + 1) * k = a * k + k /\ a * k \in Nat /\ m * k \in Nat  OBVIOUS
  <1> QED BY <1>2, <1>3

\* A place in row-major order is below the count of elements.
LEMMA DotWithin ==
  ASSUME NEW e \in Shapes, NEW c \in CoordinatesOf(e)
  PROVE  Dot(c, Dense(e)) \in 0..(Count(e) - 1) /\ Count(e) \in Nat
  <1> DEFINE
      c1 == c[1]
      c2 == c[2]
      c3 == c[3]
      c4 == c[4]
      e1 == e[1]
      e2 == e[2]
      e3 == e[3]
      e4 == e[4]
  <1>1. /\ c1 \in Nat /\ c2 \in Nat /\ c3 \in Nat /\ c4 \in Nat
        /\ e1 \in Nat /\ e2 \in Nat /\ e3 \in Nat /\ e4 \in Nat
        /\ c1 < e1 /\ c2 < e2 /\ c3 < e3 /\ c4 < e4
    BY DEF Shapes, CoordinatesOf, Dims
  <1>2. Dot(c, Dense(e)) = c1 * (e2 * e3 * e4) + c2 * (e3 * e4) + c3 * e4 + c4 * 1  BY DEF Dot, Dense
  <1>3. Count(e) = e1 * e2 * e3 * e4  BY DEF Count
  <1> HIDE DEF c1, c2, c3, c4, e1, e2, e3, e4
  <1> DEFINE
      p2 == c1 * e2 + c2
      m2 == e1 * e2
      p3 == p2 * e3 + c3
      m3 == m2 * e3
      p4 == p3 * e4 + c4
      m4 == m3 * e4
  <1>4. p2 \in Nat /\ p2 < m2 /\ m2 \in Nat  BY <1>1, Packed
  <1>5. p3 \in Nat /\ p3 < m3 /\ m3 \in Nat
    <2> HIDE DEF p2, m2
    <2> QED BY <1>1, <1>4, Packed
  <1>6. p4 \in Nat /\ p4 < m4 /\ m4 \in Nat
    <2> HIDE DEF p3, m3
    <2> QED BY <1>1, <1>5, Packed
  <1>7. c1 * (e2 * e3 * e4) + c2 * (e3 * e4) + c3 * e4 + c4 * 1 = p4  BY <1>1
  <1>8. e1 * e2 * e3 * e4 = m4  OBVIOUS
  <1> HIDE DEF p4, m4
  <1> QED BY <1>2, <1>3, <1>6, <1>7, <1>8

\* What a scatter that is not refused is asked.
Scattering(r) ==
  /\ Extents(r) \in Shapes /\ Axis(r) \in Dims /\ r.bound \in Nat \ {0}
  /\ r.pick \in [0..(Count(Extents(r)) - 1) -> -1..(r.bound - 1)]

LEMMA WithOneExtent ==
  ASSUME NEW e \in Shapes, NEW c \in CoordinatesOf(e), NEW d \in Dims
  PROVE  With(e, d, 1) \in Shapes /\ With(c, d, 0) \in CoordinatesOf(With(e, d, 1))
  <1>1. /\ e \in [Dims -> Nat \ {0}] /\ c \in [Dims -> Nat] /\ \A k \in Dims : c[k] < e[k]
    BY DEF Shapes, CoordinatesOf
  <1>2. With(e, d, 1) \in [Dims -> Nat \ {0}] /\ With(c, d, 0) \in [Dims -> Nat]  BY <1>1 DEF With
  <1>3. ASSUME NEW k \in Dims PROVE With(c, d, 0)[k] < With(e, d, 1)[k]
    <2>1. CASE k = d  BY <1>1, <2>1 DEF With
    <2>2. CASE k # d  BY <1>1, <2>2 DEF With
    <2> QED BY <2>1, <2>2
  <1> QED BY <1>2, <1>3 DEF Shapes, CoordinatesOf

LEMMA SlotInTable ==
  ASSUME NEW r, Scattering(r), NEW l \in 0..(Count(Extents(r)) - 1), r.pick[l] # -1
  PROVE  Slot(r, l) \in 0..(Fibers(r) * r.bound - 1)
  <1> DEFINE
      e == Extents(r)
      d == Axis(r)
      one == With(e, d, 1)
      c == Coordinates(l, e)
      F == Fibers(r)
      f == Fiber(r, l)
      p == r.pick[l]
      b == r.bound
  <1>1. e \in Shapes /\ d \in Dims /\ b \in Nat \ {0} /\ p \in -1..(b - 1) /\ p # -1  BY DEF Scattering
  <1>2. l \in Nat /\ l < Count(e)
    <2>1. Count(e) \in Nat
      <3>1. e \in [Dims -> Nat]  BY <1>1 DEF Shapes
      <3> QED BY <3>1, CountOf
    <2> QED BY <2>1
  <1>3. c \in CoordinatesOf(e)  BY <1>1, <1>2, CoordinatesInExtents
  <1>4. one \in Shapes /\ With(c, d, 0) \in CoordinatesOf(one)  BY <1>1, <1>3, WithOneExtent
  <1>5. Dot(With(c, d, 0), Dense(one)) \in 0..(Count(one) - 1) /\ Count(one) \in Nat  BY <1>4, DotWithin
  <1>6. F = Count(one) /\ f = Dot(With(c, d, 0), Dense(one))  BY DEF Fibers, Fiber
  <1>7. Slot(r, l) = f * b + p  BY DEF Slot
  <1> HIDE DEF e, d, one, c, F, f, p, b
  <1>8. f \in Nat /\ F \in Nat /\ f < F /\ p \in Nat /\ p < b /\ b \in Nat  BY <1>1, <1>5, <1>6
  <1>9. f * b + p \in Nat /\ f * b + p < F * b /\ F * b \in Nat  BY <1>8, Packed
  <1>10. Slot(r, l) \in 0..(F * b - 1)  BY <1>7, <1>9
  <1> QED BY <1>10 DEF F, b
----------------------------------------
(* The elected scatter.                                                    *)
Slotted(r) == 0..(Fibers(r) * r.bound - 1)

LEMMA IndexUnasking ==
  ASSUME NEW r, NEW l, NEW c, NEW how
  PROVE  /\ Unasking(IndexTouch(r, l)) /\ Unasking(StoreTouch(r, how, l))
         /\ \A t \in SourceTouch(r, c) : Unasking(t)
         /\ \A t \in StatusTouch(r, l) : Unasking(t)
  BY IndexOperands DEF Unasking, Private

LEMMA ElectedFresh ==
  ASSUME NEW r, Scattering(r), NEW i \in DOMAIN ElectedPasses(r) PROVE Fresh(ElectedPasses(r), i)
  <1> DEFINE
      n == Count(Extents(r))
      slots == Fibers(r) * r.bound
      Vote(l) == IF r.pick[l] = -1 THEN {} ELSE {WordTouch("scratch", "atomic", Slot(r, l))}
      Tally(l) == IF r.pick[l] = -1 THEN {} ELSE {WordTouch("scratch", "read", Slot(r, l))}
      Write(l) == IF r.pick[l] = -1 \/ ~Winner(r, l) THEN {}
                  ELSE SourceTouch(r, Coordinates(l, Extents(r)))
                         \cup {StoreTouch(r, IF Bytes(r.type) >= 4 THEN "write" ELSE "atomic", l)}
      cleared == [u \in 0..(slots - 1) |-> {WordTouch("scratch", "write", u)}]
      voted == [l \in 0..(n - 1) |-> {IndexTouch(r, l)} \cup StatusTouch(r, l) \cup Vote(l)]
      wrote == [l \in 0..(n - 1) |-> {IndexTouch(r, l)} \cup Tally(l) \cup Write(l)]
      p1 == Pass(<<"index">>, slots, Lanes, Folded(slots, Lanes), cleared)
      p2 == Pass(<<"index">>, n, Lanes, Folded(n, Lanes), voted)
      p3 == Pass(<<"index">>, n, Lanes, Folded(n, Lanes), wrote)
      w == ElectedPasses(r)
      W == Slotted(r)
  <1>1. w = <<p1, p2, p3>>  BY DEF ElectedPasses
  <1>2. Asks(cleared, {}) /\ \A x \in W : Leaves(cleared, x)
    <2>1. DOMAIN cleared = W /\ \A u \in DOMAIN cleared : cleared[u] = {WordTouch("scratch", "write", u)}
      BY DEF Slotted
    <2> HIDE DEF cleared, W
    <2>2. ASSUME NEW u \in DOMAIN cleared, NEW t \in cleared[u] PROVE Unasking(t) \/ Asking(t, {})
      BY <2>1, <2>2, WordAsks
    <2>3. ASSUME NEW x \in W PROVE Leaves(cleared, x)
      <3>1. x \in DOMAIN cleared /\ WordTouch("scratch", "write", x) \in cleared[x]  BY <2>1
      <3> QED BY <3>1, WordLeft
    <2> QED BY <2>2, <2>3, AsksOf
  <1>3. ASSUME NEW l \in 0..(n - 1), NEW t \in Vote(l) \cup Tally(l) PROVE Unasking(t) \/ Asking(t, W)
    <2>1. r.pick[l] # -1 /\ (t = WordTouch("scratch", "atomic", Slot(r, l)) \/ t = WordTouch("scratch", "read", Slot(r, l)))
      BY <1>3
    <2>2. Slot(r, l) \in W  BY <2>1, SlotInTable DEF Slotted
    <2> HIDE DEF W
    <2> QED BY <2>1, <2>2, WordAsks
  <1>4. ASSUME NEW l, NEW t \in Write(l) PROVE Unasking(t)
    <2> DEFINE Source == SourceTouch(r, Coordinates(l, Extents(r)))
               Store == StoreTouch(r, IF Bytes(r.type) >= 4 THEN "write" ELSE "atomic", l)
    <2>1. t \in Source \/ t = Store  BY <1>4
    <2>2. (\A x \in Source : Unasking(x)) /\ Unasking(Store)  BY IndexUnasking
    <2> QED BY <2>1, <2>2
  <1>5. /\ DOMAIN voted = 0..(n - 1) /\ \A l \in DOMAIN voted : voted[l] = {IndexTouch(r, l)} \cup StatusTouch(r, l) \cup Vote(l)
        /\ DOMAIN wrote = 0..(n - 1) /\ \A l \in DOMAIN wrote : wrote[l] = {IndexTouch(r, l)} \cup Tally(l) \cup Write(l)
    OBVIOUS
  <1> HIDE DEF Vote, Tally, Write, voted, wrote, cleared, n, W
  <1>6. Asks(voted, W)
    <2>1. ASSUME NEW l \in DOMAIN voted, NEW t \in voted[l] PROVE Unasking(t) \/ Asking(t, W)
      <3>1. l \in 0..(n - 1) /\ (t = IndexTouch(r, l) \/ t \in StatusTouch(r, l) \/ t \in Vote(l))
        BY <1>5, <2>1
      <3> QED BY <1>3, <3>1, IndexUnasking
    <2> QED BY <2>1, AsksOf
  <1>7. Asks(wrote, W)
    <2>1. ASSUME NEW l \in DOMAIN wrote, NEW t \in wrote[l] PROVE Unasking(t) \/ Asking(t, W)
      <3>1. l \in 0..(n - 1) /\ (t = IndexTouch(r, l) \/ t \in Tally(l) \/ t \in Write(l))
        BY <1>5, <2>1
      <3>2. Unasking(IndexTouch(r, l))  BY IndexUnasking
      <3> QED BY <1>3, <1>4, <3>1, <3>2
    <2> QED BY <2>1, AsksOf
  <1>8. p1.touches = cleared /\ p2.touches = voted /\ p3.touches = wrote  BY PassFields
  <1> HIDE DEF p1, p2, p3, w
  <1>9. i \in 1..3 /\ w[1] = p1 /\ w[2] = p2 /\ w[3] = p3  BY <1>1 DEF w
  <1>10. Fresh(w, 1)  BY <1>2, <1>8, <1>9, FreshAlone
  <1>11. Fresh(w, 2)
    <2>1. 1 \in 1..(2 - 1)  OBVIOUS
    <2> QED BY <1>2, <1>6, <1>8, <1>9, <2>1, FreshFrom
  <1>12. Fresh(w, 3)
    <2>1. 1 \in 1..(3 - 1)  OBVIOUS
    <2> QED BY <1>2, <1>7, <1>8, <1>9, <2>1, FreshFrom
  <1>13. i = 1 \/ i = 2 \/ i = 3  BY <1>9
  <1> QED BY <1>10, <1>11, <1>12, <1>13 DEF w

----------------------------------------
(* The two users of the sort.                                              *)
LEMMA RankFresh ==
  ASSUME NEW r, Extents(r) \in [Dims -> Nat], Sorted(r), r.type["x"] \in Floats \cup IntegerCodes,
         \A i \in 0..(Count(Extents(r)) - 1) : r.keys[i] \in 0..(Power[Bytes(r.type["x"])] - 1)
  PROVE  \A i \in DOMAIN RankPasses(r) : Fresh(RankPasses(r), i)
  <1> DEFINE
      s == RankSort(r)
      q == RadixSort(s, r.keys).passes
      order == RadixSort(s, r.keys).order
      half == DigitPasses(s) % 2
      Key(k) == PairTouches(s, "write", 0, k) \cup {ElementTouch("x", "read", IntAddress(r, "x", k), Bytes(r.type["x"]))}
      Rank(k) == {WordTouch("scratch", "read", PositionWord(s, half, k)), IntOutTouch(r, order[k + 1])}
      keys == [k \in 0..(s.n - 1) |-> Key(k)]
      ranks == [k \in 0..(s.n - 1) |-> Rank(k)]
      first == Pass(<<"radix">>, s.n, Lanes, Folded(CeilDiv(s.n, Lanes), 1), keys)
      final == Pass(<<"radix">>, s.n, Lanes, Folded(CeilDiv(s.n, Lanes), 1), ranks)
      w == RankPasses(r)
  <1>1. w = <<first>> \o q \o <<final>>  BY DEF RankPasses
  <1>2. Blocked(s, r.keys)
    <2>1. Sortable(s, r.keys)  BY RankSortIs
    <2>2. s.blocks = CeilDiv(s.n, Block)  BY DEF RankSort, RadixPlan
    <2> HIDE DEF s
    <2> QED BY <2>1, <2>2 DEF Blocked
  <1> HIDE DEF s
  <1>3. ASSUME NEW k, NEW t \in Key(k) PROVE Unasking(t)
    <2>1. Unasking(ElementTouch("x", "read", IntAddress(r, "x", k), Bytes(r.type["x"])))
      BY OperandUnasking DEF Private
    <2> QED BY <1>3, <2>1, PairWritten
  <1>4. ASSUME NEW k \in 0..(s.n - 1), NEW t \in Rank(k) PROVE Unasking(t) \/ Asking(t, PairWords(s, half))
    <2>1. Unasking(IntOutTouch(r, order[k + 1]))  BY OutTouched DEF Unasking, Private
    <2>2. PositionWord(s, half, k) \in PairWords(s, half)  BY DEF PairWords, PositionWords
    <2>3. t = WordTouch("scratch", "read", PositionWord(s, half, k)) \/ t = IntOutTouch(r, order[k + 1])
      BY <1>4
    <2> QED BY <2>1, <2>2, <2>3, WordAsks
  <1>5. ASSUME NEW k PROVE PairTouches(s, "write", 0, k) \subseteq Key(k)  OBVIOUS
  <1>6. /\ DOMAIN keys = 0..(s.n - 1) /\ \A k \in DOMAIN keys : keys[k] = Key(k)
        /\ DOMAIN ranks = 0..(s.n - 1) /\ \A k \in DOMAIN ranks : ranks[k] = Rank(k)
    OBVIOUS
  <1> HIDE DEF Key, Rank, keys, ranks, q
  <1>7. Asks(keys, {}) /\ \A x \in PairWords(s, 0) : Leaves(keys, x)
    <2>1. ASSUME NEW k \in DOMAIN keys, NEW t \in keys[k] PROVE Unasking(t) \/ Asking(t, {})
      BY <1>3, <1>6, <2>1
    <2>2. \A k \in 0..(s.n - 1) : \E u \in DOMAIN keys : PairTouches(s, "write", 0, k) \subseteq keys[u]
      BY <1>5, <1>6
    <2>3. Asks(keys, {})  BY <2>1, AsksOf
    <2>4. \A x \in PairWords(s, 0) : Leaves(keys, x)  BY <2>2, PairsLeft
    <2> QED BY <2>3, <2>4
  <1>8. Asks(ranks, PairWords(s, half))
    <2>1. ASSUME NEW k \in DOMAIN ranks, NEW t \in ranks[k] PROVE Unasking(t) \/ Asking(t, PairWords(s, half))
      BY <1>4, <1>6, <2>1
    <2> HIDE DEF half
    <2> QED BY <2>1, AsksOf
  <1>9. first.touches = keys /\ final.touches = ranks  BY PassFields
  <1> HIDE DEF first, final, w
  <1>10. \A i \in DOMAIN w : Fresh(w, i)
    <2>1. q = RadixSort(s, r.keys).passes  BY DEF q
    <2>2. Asks(final.touches, PairWords(s, DigitPasses(s) % 2))  BY <1>8, <1>9
    <2> QED BY <1>1, <1>2, <1>7, <1>9, <2>1, <2>2, SortFresh
  <1> QED BY <1>10 DEF w

\* Four bytes of key are enough for every slot and the sentinel.
LEMMA GroupKeysFit ==
  ASSUME NEW slots \in Nat, slots < WordLimit - 1
  PROVE  /\ GroupKeyBytes(slots) \in Nat /\ slots < Power[GroupKeyBytes(slots)]
         /\ Power[GroupKeyBytes(slots)] \in Nat \ {0}
  <1> DEFINE
      D2 == Digits * Digits
      D3 == D2 * Digits
      D4 == D3 * Digits
  <1>1. Digits \in Nat /\ WordLimit \in Nat /\ WordLimit <= Digits * Digits * Digits * Digits
    BY StridedAssumption, WidthAssumption
  <1>2. D2 \in Nat  BY <1>1
  <1>3. D3 \in Nat
    <2> HIDE DEF D2
    <2> QED BY <1>1, <1>2
  <1>4. D4 \in Nat /\ WordLimit <= D4
    <2>1. WordLimit <= D4  BY <1>1
    <2> HIDE DEF D3
    <2> QED BY <1>1, <1>3, <2>1
  <1>5. Power[0] = 1 /\ Power[1] = Digits * Power[0] /\ Power[2] = Digits * Power[1] /\ Power[3] = Digits * Power[2]
        /\ Power[4] = Digits * Power[3]
    <2>1. Power[0 + 1] = Digits * Power[0] /\ Power[1 + 1] = Digits * Power[1] /\ Power[2 + 1] = Digits * Power[2]
          /\ Power[3 + 1] = Digits * Power[3]
      BY PowersOf
    <2> QED BY <2>1, PowersOf
  <1>6. Power[1] = Digits /\ Power[2] = D2  BY <1>1, <1>5
  <1>7. Power[4] = D4
    <2>1. Power[3] = Digits * D2  BY <1>5, <1>6
    <2>2. Power[4] = Digits * (Digits * D2)  BY <1>5, <2>1
    <2> HIDE DEF D2
    <2> QED BY <1>1, <1>2, <2>2
  <1> HIDE DEF D4
  <1>8. slots < Power[GroupKeyBytes(slots)] /\ GroupKeyBytes(slots) \in {1, 2, 4}
    <2>1. CASE slots < Digits  BY <1>6, <2>1 DEF GroupKeyBytes
    <2>2. CASE ~(slots < Digits) /\ slots < Digits * Digits  BY <1>6, <2>2 DEF GroupKeyBytes
    <2>3. CASE ~(slots < Digits) /\ ~(slots < Digits * Digits)
      <3>1. GroupKeyBytes(slots) = 4  BY <2>3 DEF GroupKeyBytes
      <3>2. slots < D4  BY <1>1, <1>4
      <3> QED BY <1>7, <3>1, <3>2
    <2> QED BY <2>1, <2>2, <2>3
  <1> QED BY <1>8, PowersOf

LEMMA GroupedBlocked ==
  ASSUME NEW r, Scattering(r), Fibers(r) * r.bound < WordLimit - 1
  PROVE  Blocked(GroupedSort(r), GroupKeys(r)) /\ GroupedSort(r).n = Count(Extents(r))
  <1> DEFINE
      n == Count(Extents(r))
      slots == Fibers(r) * r.bound
      bytes == GroupKeyBytes(slots)
      s == GroupedSort(r)
      keys == GroupKeys(r)
  <1>1. Extents(r) \in [Dims -> Nat] /\ ~(0 \in {Extents(r)[k] : k \in Dims})  BY DEF Scattering, Shapes
  <1>2. n \in Nat \ {0}  BY <1>1, PositiveCount
  <1>3. slots \in Nat
    <2>1. With(Extents(r), Axis(r), 1) \in [Dims -> Nat] /\ r.bound \in Nat
      BY <1>1 DEF With, Scattering
    <2>2. Fibers(r) \in Nat  BY <2>1, CountOf DEF Fibers
    <2> QED BY <2>1, <2>2
  <1>4. bytes \in Nat /\ slots < Power[bytes] /\ Power[bytes] \in Nat \ {0}
    <2> HIDE DEF slots
    <2>1. slots < WordLimit - 1  BY DEF slots
    <2> QED BY <1>3, <2>1, GroupKeysFit
  <1>5. s.n = n /\ s.row = n /\ s.values = bytes /\ s.rows = RowPasses(n \div n) /\ s.blocks = CeilDiv(n, Block)
    BY DEF GroupedSort, RadixPlan
  <1>6. s.rows \in Nat
    <2>1. (n \div n) \in Nat  BY <1>2
    <2> QED BY <1>5, <2>1, RowPassesOf
  <1>7. DOMAIN r.pick = 0..(n - 1)  BY DEF Scattering
  <1>8. keys = [l \in 0..(n - 1) |-> IF r.pick[l] = -1 THEN Power[bytes] - 1 ELSE Slot(r, l)]
    BY <1>7 DEF GroupKeys, Sentinel
  <1>9. ASSUME NEW i \in 0..(n - 1) PROVE keys[i] \in 0..(Power[bytes] - 1)
    <2>1. CASE r.pick[i] = -1
      <3>1. keys[i] = Power[bytes] - 1  BY <1>8, <2>1
      <3> HIDE DEF keys, bytes
      <3> QED BY <1>4, <3>1
    <2>2. CASE r.pick[i] # -1
      <3>1. keys[i] = Slot(r, i)  BY <1>8, <2>2
      <3>2. Slot(r, i) \in 0..(slots - 1)  BY <2>2, SlotInTable
      <3> HIDE DEF keys, bytes, slots
      <3> QED BY <1>3, <1>4, <3>1, <3>2
    <2> QED BY <2>1, <2>2
  <1> HIDE DEF n, slots, bytes, s, keys
  <1>10. Sortable(s, keys)  BY <1>2, <1>4, <1>5, <1>6, <1>9 DEF Sortable
  <1>11. Blocked(s, keys)  BY <1>5, <1>10 DEF Blocked
  <1> QED BY <1>5, <1>11 DEF s, keys, n

LEMMA GroupedFresh ==
  ASSUME NEW r, Scattering(r), Fibers(r) * r.bound < WordLimit - 1
  PROVE  \A i \in DOMAIN GroupedPasses(r) : Fresh(GroupedPasses(r), i)
  <1> DEFINE
      n == Count(Extents(r))
      keys == GroupKeys(r)
      s == GroupedSort(r)
      half == DigitPasses(s) % 2
      q == RadixSort(s, keys).passes
      order == RadixSort(s, keys).order
      At(e) == order[e + 1]
      Key(e) == keys[At(e)]
      Run(e) == {p \in e..(n - 1) : Key(p) = Key(e)}
      First(e) == Key(e) # Sentinel(Fibers(r) * r.bound) /\ (e = 0 \/ Key(e - 1) # Key(e))
      How == IF Bytes(r.type) >= 4 THEN "write" ELSE "atomic"
      KeyOf(e) == {IndexTouch(r, e)} \cup StatusTouch(r, e) \cup PairTouches(s, "write", 0, e)
      Looked(e) == {WordTouch("scratch", "read", KeyWord(s, half, p, 0)) : p \in {Most(e - 1, 0), e}}
      Store(p) == StoreTouch(r, How, At(p))
      Source(p) == SourceTouch(r, Coordinates(At(p), Extents(r)))
      Added(p) ==
        {WordTouch("scratch", "read", KeyWord(s, half, p, 0)), WordTouch("scratch", "read", PositionWord(s, half, p)), Store(p)}
          \cup Source(p)
      RunOf(e) == Looked(e) \cup IF ~First(e) THEN {} ELSE UNION {Added(p) : p \in Run(e)}
      keyed == [e \in 0..(n - 1) |-> KeyOf(e)]
      summed == [e \in 0..(n - 1) |-> RunOf(e)]
      first == Pass(<<"index">>, n, Lanes, Folded(n, Lanes), keyed)
      final == Pass(<<"index">>, n, Lanes, Folded(n, Lanes), summed)
      w == GroupedPasses(r)
      W == PairWords(s, half)
  <1>1. w = <<first>> \o q \o <<final>>  BY DEF GroupedPasses
  <1>2. Blocked(s, keys) /\ s.n = n  BY GroupedBlocked
  <1>3. n \in Nat  BY <1>2 DEF Blocked, Sortable
  <1> HIDE DEF s, keys
  <1>4. ASSUME NEW e, NEW t \in KeyOf(e) PROVE Unasking(t)
    <2>1. t = IndexTouch(r, e) \/ t \in StatusTouch(r, e) \/ t \in PairTouches(s, "write", 0, e)
      BY <1>4
    <2> QED BY <2>1, IndexUnasking, PairWritten
  <1>5. ASSUME NEW p \in 0..(n - 1) PROVE KeyWord(s, half, p, 0) \in W /\ PositionWord(s, half, p) \in W
    BY <1>2 DEF PairWords, KeyWords, PositionWords
  <1> HIDE DEF W
  <1>6. ASSUME NEW e \in 0..(n - 1), NEW t \in Looked(e) PROVE Unasking(t) \/ Asking(t, W)
    <2>1. PICK p \in {Most(e - 1, 0), e} : t = WordTouch("scratch", "read", KeyWord(s, half, p, 0))
      BY <1>6
    <2>2. p \in 0..(n - 1)  BY <1>3 DEF Most
    <2> QED BY <1>5, <2>1, <2>2, WordAsks
  <1>7. ASSUME NEW p \in 0..(n - 1), NEW t \in Added(p) PROVE Unasking(t) \/ Asking(t, W)
    <2>1. Unasking(Store(p)) /\ \A x \in Source(p) : Unasking(x)  BY IndexUnasking
    <2>2. \/ t = WordTouch("scratch", "read", KeyWord(s, half, p, 0))
          \/ t = WordTouch("scratch", "read", PositionWord(s, half, p)) \/ t = Store(p) \/ t \in Source(p)
      BY <1>7
    <2> QED BY <1>5, <2>1, <2>2, WordAsks
  <1>8. ASSUME NEW e \in 0..(n - 1) PROVE Run(e) \subseteq 0..(n - 1)  BY <1>3
  <1> HIDE DEF Looked, Added, Run, First
  <1>9. ASSUME NEW e \in 0..(n - 1), NEW t \in RunOf(e) PROVE Unasking(t) \/ Asking(t, W)
    <2>1. t \in Looked(e) \/ \E p \in Run(e) : t \in Added(p)  BY <1>9
    <2> QED BY <1>6, <1>7, <1>8, <2>1
  <1>10. ASSUME NEW e PROVE PairTouches(s, "write", 0, e) \subseteq KeyOf(e)  OBVIOUS
  <1>11. /\ DOMAIN keyed = 0..(n - 1) /\ \A e \in DOMAIN keyed : keyed[e] = KeyOf(e)
         /\ DOMAIN summed = 0..(n - 1) /\ \A e \in DOMAIN summed : summed[e] = RunOf(e)
    OBVIOUS
  <1> HIDE DEF KeyOf, RunOf, keyed, summed, q, n
  <1>12. Asks(keyed, {}) /\ \A x \in PairWords(s, 0) : Leaves(keyed, x)
    <2>1. ASSUME NEW e \in DOMAIN keyed, NEW t \in keyed[e] PROVE Unasking(t) \/ Asking(t, {})
      BY <1>4, <1>11, <2>1
    <2>2. \A e \in 0..(s.n - 1) : \E u \in DOMAIN keyed : PairTouches(s, "write", 0, e) \subseteq keyed[u]
      BY <1>2, <1>10, <1>11
    <2>3. Asks(keyed, {})  BY <2>1, AsksOf
    <2>4. \A x \in PairWords(s, 0) : Leaves(keyed, x)  BY <2>2, PairsLeft
    <2> QED BY <2>3, <2>4
  <1>13. Asks(summed, W)
    <2>1. ASSUME NEW e \in DOMAIN summed, NEW t \in summed[e] PROVE Unasking(t) \/ Asking(t, W)
      BY <1>9, <1>11, <2>1
    <2> QED BY <2>1, AsksOf
  <1>14. first.touches = keyed /\ final.touches = summed  BY PassFields
  <1> HIDE DEF first, final, w
  <1>15. \A i \in DOMAIN w : Fresh(w, i)
    <2>1. q = RadixSort(s, keys).passes  BY DEF q
    <2>2. Asks(final.touches, PairWords(s, DigitPasses(s) % 2))  BY <1>13, <1>14 DEF W
    <2> QED BY <1>1, <1>2, <1>12, <1>14, <2>1, <2>2, SortFresh
  <1> QED BY <1>15 DEF w

----------------------------------------
(* What the entries hand on keeps the touches of the passes planned.       *)
Ranked(w) == \E n \in Nat : DOMAIN w = 1..n

LEMMA SandwichRanked ==
  ASSUME NEW s, DigitPasses(s) \in Nat, NEW keys, NEW a, NEW b
  PROVE  Ranked(<<a>> \o RadixSort(s, keys).passes \o <<b>>)
  <1> DEFINE
      q == RadixSort(s, keys).passes
      T == {q[k] : k \in DOMAIN q} \cup {a, b}
      w == <<a>> \o q \o <<b>>
  <1>0. q = RadixSort(s, keys).passes  OBVIOUS
  <1> HIDE DEF q
  <1>1. q \in Seq({q[k] : k \in DOMAIN q})  BY <1>0, SortInScratch
  <1>2. w = <<a>> \o q \o <<b>>  OBVIOUS
  <1> HIDE DEF q, w
  <1>3. a \in T /\ b \in T /\ q \in Seq(T)  BY <1>1
  <1> HIDE DEF T
  <1>4. w \in Seq(T)  BY <1>2, <1>3, Sandwich
  <1>5. DOMAIN w = 1..Len(w) /\ Len(w) \in Nat  BY <1>4
  <1>6. Ranked(w)  BY <1>5 DEF Ranked
  <1> QED BY <1>6 DEF w, q

LEMMA FreshKept ==
  ASSUME NEW w, Ranked(w), NEW passes, DOMAIN passes = DOMAIN w,
         \A i \in DOMAIN w : passes[i].touches = w[i].touches,
         \A i \in DOMAIN w : Fresh(w, i),
         NEW scratch, NEW built, plan = Answered(passes, scratch, built)
  PROVE  ScratchIsFresh
  <1>1. ASSUME NEW i \in DOMAIN passes PROVE Fresh(passes, i)
    <2>1. Fresh(w, i) /\ passes[i].touches = w[i].touches  OBVIOUS
    <2>2. \A j \in 1..(i - 1) : j \in DOMAIN w  BY DEF Ranked
    <2>3. \A j \in 1..(i - 1) : passes[j].touches = w[j].touches  BY <2>2
    <2> QED BY <2>1, <2>3 DEF Fresh
  <1>2. Passes = passes  BY AnsweredPasses
  <1> QED BY <1>1, <1>2, FreshPasses

LEMMA IntwiseFresh ==
  ASSUME plan = IntwiseEntry(request), PassesArePrepared, Shaped(request),
         request.type["x"] \in Floats \cup IntegerCodes, Sorted(request) =>
           \A i \in 0..(Count(Extents(request)) - 1) : request.keys[i] \in 0..(Power[Bytes(request.type["x"])] - 1)
  PROVE  ScratchIsFresh
  <1> DEFINE
      r == request
      answer == IntwisePlan(r)
      coded == Coded(answer, {"AddressOverflow"})
      kernel == <<"intwise", r.compute = "F64">>
      built == {kernel} \cup IF MayPlanRadix(r) THEN {<<"radix">>} ELSE {}
      Access(i, pass) ==
        IF ~Sorted(r) THEN Declaring(pass, {"x", "y"}, {"out"})
        ELSE IF i = Len(coded.passes) THEN Declaring(pass, {"x", "scratch"}, {"out"})
        ELSE Declaring(pass, {"x", "out"}, {"scratch"})
  <1>1. plan = Recorded(coded, built, Access)  BY DEF IntwiseEntry
  <1>2. Admitted(answer) => FirstOf(IntwiseRefusals(r)) = "none"  BY RefusalIsRefused DEF IntwisePlan
  <1>3. CASE ~Sorted(r)  BY <1>3, UnsortedPublic, PublicIsFresh
  <1>4. CASE Sorted(r) /\ ~Admitted(answer)
    <2>1. ~Admitted(coded)  BY <1>4, CodedPlan, RefusalIsRefused
    <2> HIDE DEF coded, built
    <2>2. plan = coded  BY <1>1, <2>1 DEF Recorded
    <2> QED BY <2>1, <2>2, UnadmittedPublic, PublicIsFresh
  <1>5. CASE Sorted(r) /\ Admitted(answer)
    <2> DEFINE w == RankPasses(r)
               passes == [i \in DOMAIN w |-> Access(i, w[i])]
    <2>1. answer = PlannedWith(w, ScratchWords(RankSort(r)))  BY <1>2, <1>5 DEF IntwisePlan
    <2>2. r.ndim \in 1..4  BY <1>2, <1>5, IntwiseNotBadRank DEF BadRank
    <2>3. Extents(r) \in [Dims -> Nat]  BY <2>2, ShapeInFour
    <2>4. \A i \in DOMAIN w : Fresh(w, i)  BY <1>5, <2>3, RankFresh
    <2>5. DigitPasses(RankSort(r)) \in Nat  BY <1>5, <2>3, RankSortOf
    <2>6. Ranked(w)  BY <2>5, SandwichRanked DEF RankPasses
    <2>7. answer.passes = w /\ coded = answer  BY <1>5, <2>1, PlannedFields, CodedPlan
    <2> HIDE DEF w, answer, coded, built
    <2>8. plan = Answered(passes, answer.scratch, built)  BY <1>1, <1>5, <2>7 DEF Recorded
    <2>9. \A i \in DOMAIN w : passes[i].touches = w[i].touches  BY DeclaringFields
    <2>10. DOMAIN passes = DOMAIN w  OBVIOUS
    <2> HIDE DEF passes
    <2> QED BY <2>4, <2>6, <2>8, <2>9, <2>10, FreshKept
  <1> QED BY <1>3, <1>4, <1>5

LEMMA IndexScatters ==
  ASSUME NEW r, FirstOf(IndexRefusals(r)) = "none", Shaped(r), {r.dim, r.bound} \subseteq Nat,
         r.bound > 0 => r.pick \in [Every(r) -> -1..(r.bound - 1)]
  PROVE  Scattering(r)
  <1>1. r.ndim \in 1..4 /\ r.dim \in Nat /\ r.dim < r.ndim /\ ~(0 \in {Extents(r)[k] : k \in Dims})
    BY IndexNothingRefused DEF BadRank, Shaped
  <1>2. r.bound \in Nat \ {0}  BY IndexNothingRefused
  <1>3. Extents(r) \in [Dims -> Nat]  BY <1>1, ShapeInFour
  <1>4. Extents(r) \in Shapes  BY <1>1, <1>3 DEF Shapes
  <1>5. Axis(r) \in Dims  BY <1>1 DEF Axis, Dims
  <1>6. r.pick \in [0..(Count(Extents(r)) - 1) -> -1..(r.bound - 1)]  BY <1>2 DEF Every
  <1> QED BY <1>2, <1>4, <1>5, <1>6 DEF Scattering

LEMMA IndexFresh ==
  ASSUME plan = IndexEntry(request), PassesArePrepared, Shaped(request), {request.dim, request.bound} \subseteq Nat,
         request.bound > 0 => request.pick \in [Every(request) -> -1..(request.bound - 1)]
  PROVE  ScratchIsFresh
  <1> DEFINE
      r == request
      answer == IndexPlan(r)
      coded == Coded(answer, {"AddressOverflow", "StatusSlotOutOfRange"})
      strategy == IF r.op = "Gather" THEN "Gather" ELSE IndexStrategy(r)
      built == {<<"index">>} \cup IF MayPlanGrouped(r) THEN {<<"radix">>} ELSE {}
      Access(i, pass) == IndexAccess(strategy, Len(coded.passes), i, pass)
  <1>1. plan = Recorded(coded, built, Access)  BY DEF IndexEntry
  <1>2. Admitted(answer) => FirstOf(IndexRefusals(r)) = "none"  BY RefusalIsRefused DEF IndexPlan
  <1>3. CASE r.op = "Gather" \/ IndexStrategy(r) \notin {"Elected", "Grouped"}
    BY <1>3, DirectPublic, PublicIsFresh
  <1>4. CASE ~Admitted(answer)
    <2>1. ~Admitted(coded)  BY <1>4, CodedPlan, RefusalIsRefused
    <2> HIDE DEF coded, built
    <2>2. plan = coded  BY <1>1, <2>1 DEF Recorded
    <2> QED BY <2>1, <2>2, UnadmittedPublic, PublicIsFresh
  <1>5. ASSUME Admitted(answer), r.op # "Gather", IndexStrategy(r) \in {"Elected", "Grouped"}
        PROVE  /\ Scattering(r)
               /\ IndexStrategy(r) = "Elected" => answer = PlannedWith(ElectedPasses(r), IndexScratchWords(r))
               /\ IndexStrategy(r) = "Grouped" => answer = PlannedWith(GroupedPasses(r), IndexScratchWords(r))
    <2>1. FirstOf(IndexRefusals(r)) = "none"  BY <1>2, <1>5
    <2>2. Scattering(r)  BY <2>1, IndexScatters
    <2>3. IndexStrategy(r) = "Elected" => answer = PlannedWith(ElectedPasses(r), IndexScratchWords(r))
      BY <1>5, <2>1 DEF IndexPlan
    <2>4. IndexStrategy(r) = "Grouped" => answer = PlannedWith(GroupedPasses(r), IndexScratchWords(r))
      BY <1>5, <2>1 DEF IndexPlan
    <2> QED BY <2>2, <2>3, <2>4
  <1>6. ASSUME Admitted(answer), NEW w, answer = PlannedWith(w, IndexScratchWords(r)), Ranked(w),
               \A i \in DOMAIN w : Fresh(w, i),
               \A i \in DOMAIN w : IndexAccess(strategy, Len(w), i, w[i]).touches = w[i].touches
        PROVE  ScratchIsFresh
    <2> DEFINE passes == [i \in DOMAIN w |-> Access(i, w[i])]
    <2>1. answer.passes = w /\ coded = answer  BY <1>6, PlannedFields, CodedPlan
    <2> HIDE DEF answer, coded, built, strategy
    <2>2. plan = Answered(passes, answer.scratch, built)  BY <1>1, <1>6, <2>1 DEF Recorded
    <2>3. DOMAIN passes = DOMAIN w /\ \A i \in DOMAIN w : passes[i].touches = w[i].touches
      BY <1>6, <2>1
    <2> HIDE DEF passes
    <2> QED BY <1>6, <2>2, <2>3, FreshKept
  <1>7. CASE Admitted(answer) /\ r.op # "Gather" /\ IndexStrategy(r) = "Elected"
    <2> DEFINE w == ElectedPasses(r)
    <2>1. Scattering(r) /\ answer = PlannedWith(w, IndexScratchWords(r)) /\ strategy = "Elected"
      BY <1>5, <1>7
    <2>2. \A i \in DOMAIN w : Fresh(w, i)  BY <2>1, ElectedFresh
    <2>3. Ranked(w) /\ \A i \in DOMAIN w : i \in 1..3  BY DEF ElectedPasses, Ranked
    <2> HIDE DEF w, answer, strategy
    <2>4. ASSUME NEW i \in DOMAIN w PROVE IndexAccess("Elected", Len(w), i, w[i]).touches = w[i].touches
      <3>1. IndexAccess("Elected", Len(w), i, w[i]) \in
              {Declaring(w[i], {"src", "index", "status"}, {"scratch"}), Declaring(w[i], {"src", "index"}, {"scratch", "status"}),
               Declaring(w[i], {"src", "index", "scratch"}, {"out"})}
        BY <2>3 DEF IndexAccess
      <3> QED BY <3>1, DeclaringFields
    <2> QED BY <1>6, <1>7, <2>1, <2>2, <2>3, <2>4
  <1>8. CASE Admitted(answer) /\ r.op # "Gather" /\ IndexStrategy(r) = "Grouped"
    <2> DEFINE w == GroupedPasses(r)
    <2>1. Scattering(r) /\ answer = PlannedWith(w, IndexScratchWords(r)) /\ strategy = "Grouped"
      BY <1>5, <1>8
    <2>2. Fibers(r) * r.bound < WordLimit - 1  BY <1>8 DEF IndexStrategy
    <2>3. \A i \in DOMAIN w : Fresh(w, i)  BY <2>1, <2>2, GroupedFresh
    <2>4. DigitPasses(GroupedSort(r)) \in Nat  BY <2>1, <2>2, GroupedBlocked, BlockedPasses
    <2>5. Ranked(w)  BY <2>4, SandwichRanked DEF GroupedPasses
    <2>6. \A i \in DOMAIN w : i \in 1..Len(w) /\ Len(w) \in Nat  BY <2>4, GroupedBound
    <2> HIDE DEF w, answer, strategy
    <2>7. ASSUME NEW i \in DOMAIN w PROVE IndexAccess("Grouped", Len(w), i, w[i]).touches = w[i].touches
      <3>1. IndexAccess("Grouped", Len(w), i, w[i]) \in
              {Declaring(w[i], {"src", "index"}, {"scratch", "status"}), Declaring(w[i], {"index", "out"}, {"scratch"}),
               Declaring(w[i], {"src", "scratch", "status"}, {"out"})}
        <4>1. i = 1 \/ i \in 2..(Len(w) - 1) \/ i = Len(w)  BY <2>6
        <4> QED BY <4>1 DEF IndexAccess
      <3> QED BY <3>1, DeclaringFields
    <2> QED BY <1>6, <1>8, <2>1, <2>3, <2>5, <2>7
  <1> QED BY <1>3, <1>4, <1>7, <1>8

----------------------------------------
(* The request in force.                                                   *)

LEMMA AnsweredFresh ==
  ASSUME Answers, request.op # "reduce" PROVE ScratchIsFresh
  <1>1. PassesArePrepared  BY AnsweredInFull
  <1>2. CASE plan = Refused("none asked")  BY <1>1, <1>2, RefusedPublic, PublicIsFresh
  <1>3. CASE request \in Requests("index") /\ plan = IndexEntry(request)
    <2>1. Shaped(request) /\ {request.dim, request.bound} \subseteq Nat  BY <1>3, RequestAssumption
    <2>2. request.bound > 0 => request.pick \in [Every(request) -> -1..(request.bound - 1)]
      BY <1>3, RequestAssumption
    <2> QED BY <1>1, <1>3, <2>1, <2>2, IndexFresh
  <1>4. CASE request \in Requests("intwise") /\ plan = IntwiseEntry(request)
    <2>1. Shaped(request) /\ request.type["x"] \in Floats \cup IntegerCodes  BY <1>4, RequestAssumption
    <2>2. Sorted(request) =>
            \A i \in 0..(Count(Extents(request)) - 1) : request.keys[i] \in 0..(Power[Bytes(request.type["x"])] - 1)
      BY <1>4, RequestAssumption
    <2> QED BY <1>1, <1>4, <2>1, <2>2, IntwiseFresh
  <1>5. CASE request \in Requests("reduce") /\ plan = ReduceEntry(request)  BY <1>5, RequestAssumption
  <1>6. CASE request \in Requests("weighted_bag") /\ plan = BagEntry(request)
    <2>1. /\ request.kind \in {"Forward", "GradWeights", "GradTable"}
          /\ {request.rows, request.k, request.vocab, request.d} \subseteq Nat
          /\ BagPairs(request) <= Bounds.pairs => \A pair \in 1..BagPairs(request) : request.ids[pair] \in Nat
      BY <1>6, RequestAssumption
    <2> QED BY <1>1, <1>6, <2>1, BagFresh
  <1>7. CASE request \in Requests("convert") /\ plan = ConvertEntry(request)
    BY <1>1, <1>7, ConvertPublic, PublicIsFresh
  <1>8. CASE request \in Requests("pointwise") /\ plan = PointwiseEntry(request)
    BY <1>1, <1>8, PointwisePublic, PublicIsFresh
  <1>9. CASE request \in Requests("rowwise") /\ plan = RowEntry(request)
    BY <1>1, <1>9, RowPublic, PublicIsFresh
  <1>10. CASE request \in Requests("loss") /\ plan = LossEntry(request)
    BY <1>1, <1>10, LossPublic, PublicIsFresh
  <1>11. CASE request \in Requests("embedding") /\ plan = EmbeddingEntry(request)
    BY <1>1, <1>11, EmbeddingPublic, PublicIsFresh
  <1>12. CASE request \in Requests("student_norm") /\ plan = NormEntry(request)
    <2>1. request.kind \in QkKinds \cup {"Norm", "NormBackward"}  BY <1>12, RequestAssumption
    <2> QED BY <1>1, <1>12, <2>1, NormPublic, PublicIsFresh
  <1>13. CASE request \in Requests("rotary") /\ plan = RotaryEntry(request)
    BY <1>1, <1>13, RotaryPublic, PublicIsFresh
  <1>14. CASE request \in Requests("swiglu") /\ plan = SwigluEntry(request)
    BY <1>1, <1>14, SwigluPublic, PublicIsFresh
  <1>15. CASE request \in Requests("swiglu_scaled") /\ plan = ScaledEntry(request)
    BY <1>1, <1>15, ScaledPublic, PublicIsFresh
  <1>16. CASE request \in Requests("head_lse") /\ plan = LseEntry(request)
    BY <1>1, <1>16, LsePublic, PublicIsFresh
  <1>17. CASE request \in Requests("head_grad") /\ plan = GradEntry(request)
    BY <1>1, <1>17, GradPublic, PublicIsFresh
  <1>18. CASE request \in Requests("expert_factor") /\ plan = FactorEntry(request)
    BY <1>1, <1>18, FactorPublic, PublicIsFresh
  <1>19. CASE request \in Requests("amp_unscale") /\ plan = UnscaleEntry(request)
    BY <1>1, <1>19, UnscalePublic, PublicIsFresh
  <1>20. CASE request \in Requests("amp_update") /\ plan = UpdateEntry(request)
    BY <1>1, <1>20, UpdatePublic, PublicIsFresh
  <1>21. CASE request \in Requests("vq") /\ plan = VqEntry(request)
    BY <1>1, <1>21, VqPublic, PublicIsFresh
  <1>22. CASE request \in Requests("cast") /\ plan = CastEntry(request)
    BY <1>1, <1>22, CastPublic, PublicIsFresh
  <1>23. CASE request \in Requests("matmul_f32") /\ plan = ProductEntry(request)
    BY <1>1, <1>23, ProductPublic, PublicIsFresh
  <1>24. CASE request \in Requests("matmul_16") /\ plan = HalfEntry(request)
    BY <1>1, <1>24, HalfPublic, PublicIsFresh
  <1>25. CASE request \in Requests("nf4_decode") /\ plan = DecodeEntry(request)
    BY <1>1, <1>25, DecodePublic, PublicIsFresh
  <1>26. CASE request \in Requests("nf4_matmul") /\ plan = GroupedEntry(request)
    BY <1>1, <1>26, GroupedPublic, PublicIsFresh
  <1>27. CASE request \in Requests("attention") /\ plan = AttentionEntry(request)
    BY <1>1, <1>27, AttentionPublic, PublicIsFresh
  <1> QED
    BY <1>2, <1>3, <1>4, <1>5, <1>6, <1>7, <1>8, <1>9, <1>10, <1>11, <1>12, <1>13, <1>14, <1>15, <1>16, <1>17, <1>18, <1>19, <1>20, <1>21, <1>22, <1>23, <1>24, <1>25, <1>26, <1>27 DEF Answers, AnswerTo

\* Every pass of every call but a reduction finds in its scratch and its
\* partial results what an earlier pass of the same call left there, never
\* what another call did.
THEOREM ScratchStaysFresh == Spec => [](request.op # "reduce" => ScratchIsFresh)
  BY PlanIsTheAnswer, AnsweredFresh, PTL

(* A product taken in splits.                                              *)

----------------------------------------
(* The splits of a product.                                                *)

\* Where the splits do not reach beyond 32 bits each one starts where its
\* number says.
LEMMA SplitsApart ==
  ASSUME NEW r, r.zmode = 1, r.k \in Nat, r.z \in Nat, r.kz \in Nat, r.z * r.kz <= U32,
         NEW y \in 0..(r.z - 1), NEW z \in 0..(r.z - 1), y < z
  PROVE  SplitTerms(r, y) \cap SplitTerms(r, z) = {}
  <1> DEFINE
      kz == r.kz
      n == r.z
      U == U32
  <1>1. U \in Nat \ {0} /\ kz \in Nat /\ n \in Nat /\ n * kz <= U  BY WidthAssumption
  <1>2. y \in Nat /\ z \in Nat /\ y + 1 <= z /\ z + 1 <= n /\ y + 1 \in Nat /\ z + 1 \in Nat
    OBVIOUS
  <1>3. SplitStart(r, y) = (y * kz) % U /\ SplitStart(r, z) = (z * kz) % U  BY DEF SplitStart
  <1>4. SplitEnd(r, y) = Least(r.k, (((y * kz) % U) + kz) % U) /\ SplitEnd(r, z) = Least(r.k, (((z * kz) % U) + kz) % U)
    BY <1>3 DEF SplitEnd
  <1> HIDE DEF kz, n, U
  <1>5. CASE kz = 0
    <2>1. y * kz = 0 /\ z * kz = 0  BY <1>2, <1>5
    <2>2. SplitStart(r, y) = 0 % U /\ SplitEnd(r, y) = Least(r.k, ((0 % U) + 0) % U)
      BY <1>3, <1>4, <1>5, <2>1
    <2>3. 0 % U = 0  BY <1>1
    <2>4. SplitEnd(r, y) = Least(r.k, 0) /\ SplitStart(r, y) = 0  BY <2>2, <2>3
    <2>5. SplitEnd(r, y) = 0  BY <2>4 DEF Least
    <2> QED BY <2>4, <2>5 DEF SplitTerms
  <1>6. CASE kz # 0
    <2>1. (y + 1) * kz <= z * kz /\ (z + 1) * kz <= n * kz  BY <1>1, <1>2, ProductMonotone
    <2>2. (y + 1) * kz = y * kz + kz /\ (z + 1) * kz = z * kz + kz /\ y * kz \in Nat /\ z * kz \in Nat /\ n * kz \in Nat
      BY <1>1, <1>2
    <2> DEFINE
        a == y * kz
        b == z * kz
        w == n * kz
    <2>3. a \in Nat /\ b \in Nat /\ w \in Nat /\ a + kz <= b /\ b + kz <= w /\ w <= U
      BY <1>1, <2>1, <2>2
    <2> HIDE DEF a, b, w
    <2>4. a < U /\ b < U /\ a + kz < U  BY <1>1, <1>6, <2>3
    <2>5. a % U = a /\ b % U = b /\ (a + kz) % U = a + kz  BY <1>1, <2>3, <2>4
    <2>6. SplitStart(r, z) = b /\ SplitEnd(r, y) = Least(r.k, a + kz)  BY <1>3, <1>4, <2>5 DEF a, b
    <2>7. SplitEnd(r, y) \in Nat /\ SplitEnd(r, y) <= b  BY <1>1, <2>3, <2>6 DEF Least
    <2>8. \A k \in SplitTerms(r, y) : k \in Int /\ k < b
      <3>1. SplitStart(r, y) \in Nat  BY <1>3, <2>3, <2>5 DEF a
      <3> QED BY <2>3, <2>7, <3>1 DEF SplitTerms
    <2>9. \A k \in SplitTerms(r, z) : k \in Int /\ b <= k
      <3>1. SplitEnd(r, z) \in Int
        <4>1. b + kz \in Nat /\ (b + kz) % U \in Nat  BY <1>1, <2>3
        <4>2. SplitEnd(r, z) = Least(r.k, (b + kz) % U)  BY <1>4, <2>5 DEF b
        <4> QED BY <4>1, <4>2 DEF Least
      <3> QED BY <2>3, <2>6, <3>1 DEF SplitTerms
    <2> QED BY <2>3, <2>8, <2>9
  <1> QED BY <1>5, <1>6

\* The families other than a call's own say nothing of it.
LEMMA SplitsCounted ==
  ASSUME Answers, request.op # "reduce" PROVE TermsCountedOnce
  <1> SUFFICES ASSUME Admitted(plan), request.op = "matmul_16", request.zmode = 1, request.z * request.kz <= U32,
                      NEW y \in 0..(request.z - 1), NEW z \in 0..(request.z - 1), y # z
               PROVE  SplitTerms(request, y) \cap SplitTerms(request, z) = {}
    BY DEF TermsCountedOnce
  <1>1. request \in Requests("matmul_16")
    <2>1. ~(plan = Refused("none asked"))  BY RefusalIsRefused
    <2> DEFINE
        Other == {"convert", "pointwise", "intwise", "reduce", "rowwise", "loss", "embedding", "student_norm", "rotary",
                  "swiglu", "swiglu_scaled", "weighted_bag", "head_lse", "head_grad", "expert_factor", "amp_unscale",
                  "amp_update", "vq", "cast", "matmul_f32", "nf4_decode", "nf4_matmul", "attention"}
    <2>2. request \in Requests("matmul_16") \/ request \in Requests("index") \/ \E f \in Other : request \in Requests(f)
      BY <2>1 DEF Answers, AnswerTo
    <2>3. request \notin Requests("index")  BY RequestAssumption
    <2>4. request \notin Requests("intwise")  BY RequestAssumption
    <2>5. ASSUME NEW f \in Other PROVE request \notin Requests(f)  BY <2>4, <2>5, RequestAssumption
    <2> QED BY <2>2, <2>3, <2>5
  <1>2. {request.k, request.z, request.kz} \subseteq Nat  BY <1>1, RequestAssumption
  <1>3. CASE y < z  BY <1>2, <1>3, SplitsApart
  <1>4. CASE z < y  BY <1>2, <1>4, SplitsApart
  <1>5. y < z \/ z < y  BY <1>2
  <1> QED BY <1>3, <1>4, <1>5

\* The splits of a 16-bit product that stay within 32 bits sum different
\* terms.  (Of a reduction's two passes the same is only model-checked.)
THEOREM SplitsCountOnce == Spec => [](request.op # "reduce" => TermsCountedOnce)
  BY PlanIsTheAnswer, SplitsCounted, PTL
----------------------------------------
(* Storage.                                                                *)

\* A touch of bytes that the storage of its binding has.
Within(r, t) ==
  t.at \in DOMAIN r.storage /\ t.first >= 0 /\ t.last < 4 * CeilDiv(r.storage[t.at].capacity, 4)
\* A binding that holds n elements of b bytes.
Holds(r, at, n, b) ==
  /\ at \in DOMAIN r.storage /\ r.storage[at].capacity \in Nat
  /\ n \in Nat /\ b \in Nat \ {0} /\ n * b <= r.storage[at].capacity

LEMMA WholeWords ==
  ASSUME NEW c \in Nat PROVE CeilDiv(c, 4) \in Nat /\ c <= 4 * CeilDiv(c, 4)
  <1>1. CeilDiv(c, 4) \in Nat /\ c <= CeilDiv(c, 4) * 4  BY CeilDivCovers
  <1> QED BY <1>1

LEMMA SpanWithin ==
  ASSUME NEW r, NEW at, NEW n, NEW b, Holds(r, at, n, b), NEW e \in Nat, NEW c \in Nat, e + c <= n,
         NEW how, NEW t, t = Span(at, how, e, c, b)
  PROVE  Within(r, t)
  <1> DEFINE cap == r.storage[at].capacity
  <1>1. /\ at \in DOMAIN r.storage /\ cap \in Nat /\ n \in Nat /\ b \in Nat \ {0} /\ n * b <= cap
    BY DEF Holds
  <1>2. t.at = at /\ t.first = e * b /\ t.last = e * b + c * b - 1  BY DEF Span, Touch
  <1>3. (e + c) * b <= n * b  BY <1>1, ProductMonotone
  <1>4. (e + c) * b = e * b + c * b /\ e * b \in Nat /\ c * b \in Nat /\ n * b \in Nat  BY <1>1
  <1>5. CeilDiv(cap, 4) \in Nat /\ cap <= 4 * CeilDiv(cap, 4)  BY <1>1, WholeWords
  <1> HIDE DEF cap
  <1>6. t.first >= 0 /\ t.last < 4 * CeilDiv(cap, 4)  BY <1>1, <1>2, <1>3, <1>4, <1>5
  <1> QED BY <1>1, <1>2, <1>6 DEF Within, cap

LEMMA ElementWithin ==
  ASSUME NEW r, NEW at, NEW n, NEW b, Holds(r, at, n, b), NEW e \in 0..(n - 1),
         NEW how, NEW t, t = ElementTouch(at, how, e, b)
  PROVE  Within(r, t)
  <1>1. n \in Nat /\ b \in Nat \ {0}  BY DEF Holds
  <1>2. e \in Nat /\ e + 1 <= n /\ 1 \in Nat  BY <1>1
  <1>3. 1 * b = b  BY <1>1
  <1>4. t = Span(at, how, e, 1, b)  BY <1>3 DEF ElementTouch, Span
  <1> QED BY <1>2, <1>4, SpanWithin

LEMMA WordWithin ==
  ASSUME NEW r, NEW at, NEW n, Holds(r, at, n, 4), NEW e \in 0..(n - 1),
         NEW how, NEW t, t = WordTouch(at, how, e)
  PROVE  Within(r, t)
  <1>1. t = ElementTouch(at, how, e, 4)  BY DEF WordTouch, ElementTouch
  <1> QED BY <1>1, ElementWithin

\* What the test of a buffer's size says, and that of all an entry is given.
LEMMA RoomHolds ==
  ASSUME NEW r, NEW bindings, Backed(r, bindings), NEW at \in bindings,
         NEW n \in Nat, NEW b \in Nat \ {0}, NEW bytes, bytes = n * b, Room(r, at, bytes)
  PROVE  Holds(r, at, n, b)
  BY DEF Backed, Room, Holds

LEMMA NotLacked ==
  ASSUME NEW r, NEW bindings, Backed(r, bindings), NEW at \in bindings,
         NEW needs, ~Lacks(r, needs), at \in DOMAIN needs,
         NEW n \in Nat, NEW b \in Nat \ {0}, needs[at] = n * b
  PROVE  Holds(r, at, n, b)
  <1>1. Room(r, at, needs[at])  BY DEF Lacks
  <1> QED BY <1>1, RoomHolds

Confined(r, touches) == \A u \in DOMAIN touches : \A t \in touches[u] : Within(r, t)

LEMMA AnsweredConfined ==
  ASSUME NEW passes, NEW scratch, NEW built, plan = Answered(passes, scratch, built),
         \A i \in DOMAIN passes : Confined(request, passes[i].touches)
  PROVE  AccessesInStorage
  <1>1. Passes = passes  BY AnsweredPasses
  <1>2. ASSUME NEW t, Within(request, t)
        PROVE  t.first >= 0 /\ t.last < 4 * CeilDiv(Storage[t.at].capacity, 4)
    <2>1. Storage[t.at] = request.storage[t.at]  BY <1>2 DEF Within, Storage
    <2> QED BY <1>2, <2>1 DEF Within
  <1> QED BY <1>1, <1>2 DEF AccessesInStorage, InStorage, Confined

LEMMA RefusedConfined ==
  ASSUME NEW why, why # "none", plan = Refused(why) PROVE AccessesInStorage
  BY RefusedPasses DEF AccessesInStorage

LEMMA EnteredConfined ==
  ASSUME NEW why, NEW passes, NEW scratch, NEW built, plan = Entered(why, passes, scratch, built),
         why = "none" => \A i \in DOMAIN passes : Confined(request, passes[i].touches)
  PROVE  AccessesInStorage
  <1>1. CASE why # "none"  BY <1>1, RefusedConfined DEF Entered
  <1>2. CASE why = "none"  BY <1>2, AnsweredConfined DEF Entered
  <1> QED BY <1>1, <1>2

LEMMA OneLaunchConfined ==
  ASSUME NEW why, NEW kernel, NEW units, NEW per, NEW groups, NEW touches, NEW reads, NEW writes,
         NEW scratch, NEW built,
         plan = Entered(why, <<Launch(kernel, units, per, groups, touches, reads, writes)>>, scratch, built),
         why = "none" => Confined(request, touches)
  PROVE  AccessesInStorage
  <1> DEFINE p == Launch(kernel, units, per, groups, touches, reads, writes)
             passes == <<p>>
  <1>1. p.touches = touches  BY LaunchFields
  <1> HIDE DEF p
  <1>2. why = "none" => \A i \in DOMAIN passes : Confined(request, passes[i].touches)  BY <1>1
  <1>3. plan = Entered(why, passes, scratch, built)  BY DEF p
  <1> QED BY <1>2, <1>3, EnteredConfined

\* A position taken row by row.
LEMMA RowOf ==
  ASSUME NEW i \in Nat, NEW n \in Nat, NEW k \in Nat \ {0}, i < n * k
  PROVE  /\ i \div k \in 0..(n - 1) /\ i % k \in 0..(k - 1)
         /\ (i \div k) * k + (i % k) = i
  <1> DEFINE q == i \div k
             m == i % k
  <1>1. q \in Nat /\ m \in Nat /\ m < k /\ i = q * k + m  BY Division
  <1> HIDE DEF q, m
  <1>2. q < n
    <2>1. SUFFICES ASSUME n <= q PROVE FALSE  BY <1>1
    <2>2. n * k <= q * k  BY <1>1, <2>1, ProductMonotone
    <2>3. n * k \in Nat /\ q * k \in Nat  BY <1>1
    <2> QED BY <1>1, <2>2, <2>3
  <1>3. q \in 0..(n - 1) /\ m \in 0..(k - 1) /\ q * k + m = i  BY <1>1, <1>2
  <1> QED BY <1>3 DEF q, m

LEMMA NextRow ==
  ASSUME NEW a \in Nat, NEW m \in Nat, NEW k \in Nat, a < m PROVE a * k \in Nat /\ a * k + k <= m * k
  <1>1. a + 1 \in Nat /\ a + 1 <= m  OBVIOUS
  <1>2. (a + 1) * k <= m * k  BY <1>1, ProductMonotone
  <1>3. (a + 1) * k = a * k + k /\ a * k \in Nat  OBVIOUS
  <1> QED BY <1>2, <1>3

\* The blocks of a count.
LEMMA BlockStarts ==
  ASSUME NEW n \in Nat, NEW d \in Nat \ {0}, NEW i \in 0..(CeilDiv(n, d) - 1)
  PROVE  i * d \in Nat /\ i * d < n
  <1> DEFINE q == CeilDiv(n, d)
             m == (n + d - 1) % d
  <1>1. n + d - 1 \in Nat  OBVIOUS
  <1>2. q \in Nat /\ m \in Nat /\ n + d - 1 = q * d + m  BY <1>1, Division DEF CeilDiv
  <1> HIDE DEF q, m
  <1>3. i \in Nat /\ i < q /\ q * d \in Nat  BY <1>2 DEF q
  <1>4. i * d \in Nat /\ i * d + d <= q * d  BY <1>2, <1>3, NextRow
  <1> QED BY <1>2, <1>3, <1>4

LEMMA BlockOf ==
  ASSUME NEW n \in Nat, NEW d \in Nat \ {0}, NEW i \in 0..(n - 1)
  PROVE  i \div d \in 0..(CeilDiv(n, d) - 1)
  <1> DEFINE q == CeilDiv(n, d)
  <1>1. q \in Nat /\ n <= q * d  BY CeilDivCovers
  <1> HIDE DEF q
  <1>2. q * d \in Nat  BY <1>1
  <1>3. i \in Nat /\ i < q * d  BY <1>1, <1>2
  <1>4. i \div d \in 0..(q - 1)  BY <1>1, <1>3, RowOf
  <1> QED BY <1>4 DEF q
----------------------------------------
(* In storage: rotations.                                                  *)

RotaryShaped(r) ==
  /\ {r.rows, r.cols, r.posDiv, r.positions} \subseteq Nat \ {0} /\ r.cols % 2 = 0
  /\ Holds(r, "x", r.rows * r.cols, 4) /\ Holds(r, "out", r.rows * r.cols, 4)
  /\ Holds(r, "cos", r.positions * r.cols, 4) /\ Holds(r, "sin", r.positions * r.cols, 4)

LEMMA RotaryAdmits ==
  ASSUME NEW r, FirstOf(RotaryRefusals(r)) = "none",
         {r.rows, r.cols, r.posDiv, r.positions} \subseteq Nat, Backed(r, {"x", "cos", "sin", "out"})
  PROVE  RotaryShaped(r)
  <1> DEFINE
      elements == r.rows * r.cols
      table == r.positions * r.cols
      needs == [x |-> 4 * elements, cos |-> 4 * table, sin |-> 4 * table, out |-> 4 * elements]
      x1 == <<0 \in {r.rows, r.cols, r.posDiv, r.positions}, "SHAPE">>
      x2 == <<r.cols % 2 # 0, "SHAPE">>
      x3 == <<elements > Bounds.elements \/ table > Bounds.elements, "SIZE">>
      x4 == <<Lacks(r, needs), "SIZE">>
      x5 == <<Shared(r, {"out"}, {"x", "cos", "sin"}), "SHAPE">>
      c == <<x1, x2, x3, x4, x5>>
  <1>1. RotaryRefusals(r) = c  BY DEF RotaryRefusals
  <1>2. x1[2] # "none" /\ x2[2] # "none" /\ x3[2] # "none" /\ x4[2] # "none" /\ x5[2] # "none"
    OBVIOUS
  <1>3. /\ x1[1] <=> 0 \in {r.rows, r.cols, r.posDiv, r.positions}
        /\ x2[1] <=> r.cols % 2 # 0
        /\ x4[1] <=> Lacks(r, needs)
    OBVIOUS
  <1> HIDE DEF x1, x2, x3, x4, x5
  <1>4. Listed(c)  BY <1>2 DEF Listed
  <1>5. 1 \in DOMAIN c /\ 2 \in DOMAIN c /\ 4 \in DOMAIN c /\ c[1] = x1 /\ c[2] = x2 /\ c[4] = x4
    OBVIOUS
  <1> HIDE DEF c
  <1>6. 0 \notin {r.rows, r.cols, r.posDiv, r.positions} /\ r.cols % 2 = 0 /\ ~Lacks(r, needs)
    BY <1>1, <1>3, <1>4, <1>5, NothingRefused
  <1>7. {r.rows, r.cols, r.posDiv, r.positions} \subseteq Nat \ {0}  BY <1>6
  <1>8. elements \in Nat /\ table \in Nat  BY <1>7
  <1>9. /\ {"x", "cos", "sin", "out"} \subseteq DOMAIN needs
        /\ needs["x"] = elements * 4 /\ needs["out"] = elements * 4 /\ needs["cos"] = table * 4 /\ needs["sin"] = table * 4
    BY <1>8
  <1>10. 4 \in Nat \ {0}  OBVIOUS
  <1> HIDE DEF elements, table, needs
  <1>11. Holds(r, "x", elements, 4) /\ Holds(r, "out", elements, 4)
    BY <1>6, <1>8, <1>9, <1>10, NotLacked
  <1>12. Holds(r, "cos", table, 4) /\ Holds(r, "sin", table, 4)  BY <1>6, <1>8, <1>9, <1>10, NotLacked
  <1> QED BY <1>6, <1>7, <1>11, <1>12 DEF RotaryShaped, elements, table

LEMMA RotaryWithin ==
  ASSUME NEW r, RotaryShaped(r), NEW id \in 0..((r.rows * r.cols) \div 2 - 1), NEW t \in RotaryTouches(r, id)
  PROVE  Within(r, t)
  <1> DEFINE
      half == r.cols \div 2
      row == id \div half
      place == id % half
      turn == (row \div r.posDiv) % r.positions
  <1>1. r.rows \in Nat \ {0} /\ r.cols \in Nat \ {0} /\ r.posDiv \in Nat \ {0} /\ r.positions \in Nat \ {0} /\ r.cols % 2 = 0
    BY DEF RotaryShaped
  <1>2. half \in Nat \ {0} /\ r.cols = half + half  BY <1>1
  <1>3. (r.rows * r.cols) \div 2 = r.rows * half
    <2>1. r.rows * (half + half) = 2 * (r.rows * half) /\ r.rows * half \in Nat  BY <1>1, <1>2
    <2> QED BY <1>2, <2>1
  <1> HIDE DEF half
  <1>31. id \in Nat /\ id < r.rows * half  BY <1>1, <1>2, <1>3
  <1>4. row \in 0..(r.rows - 1) /\ place \in 0..(half - 1)  BY <1>1, <1>2, <1>31, RowOf
  <1>5. turn \in 0..(r.positions - 1)  BY <1>1, <1>4
  <1> HIDE DEF row, place, turn
  <1>6. /\ row * r.cols + place \in 0..(r.rows * r.cols - 1)
        /\ row * r.cols + (place + half) \in 0..(r.rows * r.cols - 1)
        /\ turn * r.cols + place \in 0..(r.positions * r.cols - 1)
        /\ turn * r.cols + (place + half) \in 0..(r.positions * r.cols - 1)
    BY <1>1, <1>2, <1>4, <1>5, Packed
  <1>7. row * r.cols \in Nat /\ turn * r.cols \in Nat  BY <1>1, <1>4, <1>5
  <1>8. LET u == Turned(r, id) IN
        /\ {u.lo, u.hi} \subseteq 0..(r.rows * r.cols - 1)
        /\ {u.tlo, u.thi} \subseteq 0..(r.positions * r.cols - 1)
    BY <1>2, <1>4, <1>6, <1>7 DEF Turned, half, row, place, turn
  <1>9. \E at \in {"x", "out", "cos", "sin"}, how \in {"read", "write"} :
          \E e \in 0..((IF at \in {"x", "out"} THEN r.rows ELSE r.positions) * r.cols - 1) : t = ElementTouch(at, how, e, 4)
    BY <1>8 DEF RotaryTouches
  <1> QED BY <1>9, ElementWithin DEF RotaryShaped

LEMMA RotaryConfined ==
  ASSUME plan = RotaryEntry(request),
         {request.rows, request.cols, request.posDiv, request.positions} \subseteq Nat,
         Backed(request, {"x", "cos", "sin", "out"})
  PROVE  AccessesInStorage
  <1> DEFINE
      r == request
      pairs == (r.rows * r.cols) \div 2
      touches == [id \in 0..(pairs - 1) |-> RotaryTouches(r, id)]
  <1>1. FirstOf(RotaryRefusals(r)) = "none" => Confined(r, touches)
    BY RotaryAdmits, RotaryWithin DEF Confined
  <1> QED BY <1>1, OneLaunchConfined DEF RotaryEntry
----------------------------------------
(* In storage: SwiGLU.                                                     *)

SwigluShaped(r) ==
  LET n == r.rows * r.cols
      b == StoredBytes(r.type)
  IN  /\ {r.rows, r.cols} \subseteq Nat \ {0} /\ r.kind \in {"Forward", "Backward"}
      /\ Holds(r, "packed", 2 * n, b)
      /\ r.kind = "Forward" => Holds(r, "out", n, b)
      /\ r.kind = "Backward" => Holds(r, "out", 2 * n, b) /\ Holds(r, "upstream", n, b)

LEMMA SwigluAdmits ==
  ASSUME NEW r, FirstOf(SwigluRefusals(r)) = "none",
         {r.rows, r.cols} \subseteq Nat, Backed(r, {"packed", "upstream", "out"}), r.kind \in {"Forward", "Backward"}
  PROVE  SwigluShaped(r)
  <1> DEFINE
      b == StoredBytes(r.type)
      nb == r.rows * r.cols * b
      needs == [at \in {"packed", "out"} \cup BackwardOnly(r, {"upstream"}) |->
                  IF at = "upstream" \/ (at = "out" /\ r.kind = "Forward") THEN nb ELSE 2 * nb]
      x1 == <<r.rows = 0 \/ r.cols = 0, "SHAPE">>
      x2 == <<2 * r.rows * r.cols > Bounds.elements, "SIZE">>
      x3 == <<Lacks(r, needs), "SIZE">>
      x4 == <<Shared(r, {"out"}, {"packed"} \cup BackwardOnly(r, {"upstream"})), "SHAPE">>
      c == <<x1, x2, x3, x4>>
      n == r.rows * r.cols
      n2 == 2 * n
  <1>1. SwigluRefusals(r) = c  BY DEF SwigluRefusals
  <1>2. x1[2] # "none" /\ x2[2] # "none" /\ x3[2] # "none" /\ x4[2] # "none"  OBVIOUS
  <1>3. (x1[1] <=> r.rows = 0 \/ r.cols = 0) /\ (x3[1] <=> Lacks(r, needs))  OBVIOUS
  <1> HIDE DEF x1, x2, x3, x4
  <1>4. Listed(c) /\ 1 \in DOMAIN c /\ 3 \in DOMAIN c /\ c[1] = x1 /\ c[3] = x3  BY <1>2 DEF Listed
  <1> HIDE DEF c
  <1>5. r.rows \in Nat \ {0} /\ r.cols \in Nat \ {0} /\ ~Lacks(r, needs)
    BY <1>1, <1>3, <1>4, NothingRefused
  <1>6. n \in Nat /\ n2 \in Nat /\ b \in Nat \ {0}  BY <1>5 DEF StoredBytes
  <1>7. nb = n * b /\ 2 * nb = n2 * b
    <2>1. n2 * b = 2 * (n * b)  BY <1>6
    <2> QED BY <2>1
  <1>8. /\ "packed" \in DOMAIN needs /\ needs["packed"] = n2 * b
        /\ "out" \in DOMAIN needs /\ needs["out"] = IF r.kind = "Forward" THEN n * b ELSE n2 * b
        /\ r.kind = "Backward" => "upstream" \in DOMAIN needs /\ needs["upstream"] = n * b
    BY <1>7 DEF BackwardOnly
  <1> HIDE DEF needs, n, n2, b, nb
  <1>9. Holds(r, "packed", n2, b)  BY <1>5, <1>6, <1>8, NotLacked
  <1>10. r.kind = "Forward" => Holds(r, "out", n, b)  BY <1>5, <1>6, <1>8, NotLacked
  <1>11. r.kind = "Backward" => Holds(r, "out", n2, b) /\ Holds(r, "upstream", n, b)
    BY <1>5, <1>6, <1>8, NotLacked
  <1> QED BY <1>5, <1>9, <1>10, <1>11 DEF SwigluShaped, n, n2, b

LEMMA SwigluWithin ==
  ASSUME NEW r, SwigluShaped(r), NEW id \in 0..(r.rows * r.cols - 1), NEW t \in SwigluTouches(r, id)
  PROVE  Within(r, t)
  <1> DEFINE
      n == r.rows * r.cols
      b == StoredBytes(r.type)
      row == id \div r.cols
      place == id % r.cols
      up == row * 2 * r.cols + place
  <1>1. r.rows \in Nat \ {0} /\ r.cols \in Nat \ {0} /\ r.kind \in {"Forward", "Backward"}
    BY DEF SwigluShaped
  <1>2. id \in Nat /\ id < r.rows * r.cols  BY <1>1
  <1>3. row \in 0..(r.rows - 1) /\ place \in 0..(r.cols - 1)  BY <1>1, <1>2, RowOf
  <1> HIDE DEF row, place
  <1>4. up \in 0..(2 * n - 1) /\ up + r.cols \in 0..(2 * n - 1)
    <2> DEFINE w == 2 * r.cols
    <2>1. w \in Nat \ {0} /\ place \in 0..(w - 1) /\ place + r.cols \in 0..(w - 1)  BY <1>1, <1>3
    <2>2. r.rows * w = 2 * n /\ row * w = row * 2 * r.cols /\ row * w \in Nat  BY <1>1, <1>3
    <2> HIDE DEF w
    <2>3. row * w + place < r.rows * w /\ row * w + (place + r.cols) < r.rows * w
      BY <1>1, <1>3, <2>1, Packed
    <2> QED BY <1>1, <1>3, <2>2, <2>3
  <1>5. t = ElementTouch("packed", "read", up, b) \/ t = ElementTouch("packed", "read", up + r.cols, b)
        \/ (r.kind = "Forward" /\ t = ElementTouch("out", "write", id, b))
        \/ (r.kind = "Backward" /\ (t = ElementTouch("upstream", "read", id, b) \/ t = ElementTouch("out", "write", up, b)
                                    \/ t = ElementTouch("out", "write", up + r.cols, b)))
    BY <1>1 DEF SwigluTouches, row, place
  <1>6. /\ Holds(r, "packed", 2 * n, b)
        /\ r.kind = "Forward" => Holds(r, "out", n, b)
        /\ r.kind = "Backward" => Holds(r, "out", 2 * n, b) /\ Holds(r, "upstream", n, b)
    BY DEF SwigluShaped
  <1>7. id \in 0..(n - 1)  OBVIOUS
  <1> HIDE DEF n, b, up
  <1> QED BY <1>4, <1>5, <1>6, <1>7, ElementWithin

LEMMA SwigluConfined ==
  ASSUME plan = SwigluEntry(request),
         {request.rows, request.cols} \subseteq Nat, Backed(request, {"packed", "upstream", "out"}),
         request.kind \in {"Forward", "Backward"}
  PROVE  AccessesInStorage
  <1> DEFINE r == request
             touches == [id \in 0..(r.rows * r.cols - 1) |-> SwigluTouches(r, id)]
  <1>1. FirstOf(SwigluRefusals(r)) = "none" => Confined(r, touches)
    BY SwigluAdmits, SwigluWithin DEF Confined
  <1> QED BY <1>1, OneLaunchConfined DEF SwigluEntry

\* Separate gate and up: rows that share a scale.
ScaledHolds(r) ==
  \A at \in ScaledIns(r) \cup ScaledOuts(r) :
    Holds(r, at, IF at = "scale" THEN (r.rows \div r.width) * r.cols ELSE r.rows * r.cols, StoredBytes(r.type))
ScaledShaped(r) == {r.rows, r.cols, r.width} \subseteq Nat \ {0} /\ r.rows % r.width = 0 /\ ScaledHolds(r)

LEMMA ScaledAdmits ==
  ASSUME NEW r, FirstOf(ScaledRefusals(r)) = "none", {r.rows, r.cols, r.width} \subseteq Nat,
         Backed(r, {"gate", "up", "scale", "upstream", "out", "out_up", "out_t"})
  PROVE  ScaledShaped(r)
  <1> DEFINE
      b == StoredBytes(r.type)
      n == r.rows * r.cols
      Elements(at) == IF at = "scale" THEN (r.rows \div Most(r.width, 1)) * r.cols ELSE n
      needs == [at \in ScaledIns(r) \cup ScaledOuts(r) |-> Elements(at) * b]
      x1 == <<0 \in {r.rows, r.cols, r.width}, "SHAPE">>
      x2 == <<r.rows % Most(r.width, 1) # 0, "SHAPE">>
      x3 == <<n > Bounds.elements, "SIZE">>
      x4 == <<Lacks(r, needs), "SIZE">>
      x5 == <<Shared(r, ScaledOuts(r), ScaledIns(r)), "SHAPE">>
      c == <<x1, x2, x3, x4, x5>>
  <1>1. ScaledRefusals(r) = c  BY DEF ScaledRefusals
  <1>2. x1[2] # "none" /\ x2[2] # "none" /\ x3[2] # "none" /\ x4[2] # "none" /\ x5[2] # "none"
    OBVIOUS
  <1>3. /\ x1[1] <=> 0 \in {r.rows, r.cols, r.width}
        /\ x2[1] <=> r.rows % Most(r.width, 1) # 0
        /\ x4[1] <=> Lacks(r, needs)
    OBVIOUS
  <1> HIDE DEF x1, x2, x3, x4, x5
  <1>4. Listed(c) /\ 1 \in DOMAIN c /\ 2 \in DOMAIN c /\ 4 \in DOMAIN c /\ c[1] = x1 /\ c[2] = x2 /\ c[4] = x4
    BY <1>2 DEF Listed
  <1> HIDE DEF c
  <1>5. 0 \notin {r.rows, r.cols, r.width} /\ r.rows % Most(r.width, 1) = 0 /\ ~Lacks(r, needs)
    BY <1>1, <1>3, <1>4, NothingRefused
  <1>6. {r.rows, r.cols, r.width} \subseteq Nat \ {0} /\ Most(r.width, 1) = r.width  BY <1>5 DEF Most
  <1>7. b \in Nat \ {0} /\ \A at : Elements(at) \in Nat  BY <1>6 DEF StoredBytes
  <1>8. ASSUME NEW at \in ScaledIns(r) \cup ScaledOuts(r) PROVE Holds(r, at, Elements(at), b)
    <2>1. at \in {"gate", "up", "scale", "upstream", "out", "out_up", "out_t"}
      BY <1>8 DEF ScaledIns, ScaledOuts, BackwardOnly
    <2>2. at \in DOMAIN needs /\ needs[at] = Elements(at) * b  BY <1>8
    <2> HIDE DEF needs, Elements, b
    <2> QED BY <1>5, <1>7, <2>1, <2>2, NotLacked
  <1> QED BY <1>5, <1>6, <1>8 DEF ScaledShaped, ScaledHolds

LEMMA ScaledWithin ==
  ASSUME NEW r, ScaledShaped(r), NEW id \in 0..(r.rows * r.cols - 1), NEW t \in ScaledTouches(r, id)
  PROVE  Within(r, t)
  <1> DEFINE
      b == StoredBytes(r.type)
      row == id \div r.cols
      place == id % r.cols
      shared == row \div r.width
      scaleAt == shared * r.cols + place
      members == r.rows \div r.width
  <1>1. r.rows \in Nat \ {0} /\ r.cols \in Nat \ {0} /\ r.width \in Nat \ {0} /\ r.rows % r.width = 0
    BY DEF ScaledShaped
  <1>2. id \in Nat /\ id < r.rows * r.cols  BY <1>1
  <1>3. row \in 0..(r.rows - 1) /\ place \in 0..(r.cols - 1)  BY <1>1, <1>2, RowOf
  <1>4. members \in Nat /\ r.rows = members * r.width
    <2>1. members \in Nat /\ r.rows = members * r.width + (r.rows % r.width)  BY <1>1, Division
    <2>2. members * r.width \in Nat  BY <1>1, <2>1
    <2> QED BY <1>1, <2>1, <2>2
  <1> HIDE DEF row, place
  <1>5. shared \in 0..(members - 1)
    <2> HIDE DEF members
    <2>1. row \in Nat /\ row < members * r.width  BY <1>1, <1>3, <1>4
    <2> QED BY <1>1, <1>4, <2>1, RowOf
  <1> HIDE DEF shared, members
  <1>6. scaleAt \in 0..(members * r.cols - 1)
    <2>1. shared * r.cols + place < members * r.cols /\ shared * r.cols + place \in Nat
      BY <1>1, <1>3, <1>4, <1>5, Packed
    <2> QED BY <1>1, <1>4, <2>1
  <1>7. \E at \in ScaledIns(r) \cup ScaledOuts(r), how \in {"read", "write"} :
          t = ElementTouch(at, how, IF at = "scale" THEN scaleAt ELSE id, b)
    BY DEF ScaledTouches, ScaledOuts, BackwardOnly, row, place, shared
  <1> HIDE DEF scaleAt, b
  <1>8. PICK at \in ScaledIns(r) \cup ScaledOuts(r), how \in {"read", "write"} :
          t = ElementTouch(at, how, IF at = "scale" THEN scaleAt ELSE id, b)
    BY <1>7
  <1>9. Holds(r, at, IF at = "scale" THEN members * r.cols ELSE r.rows * r.cols, b)
    BY DEF ScaledShaped, ScaledHolds, members, b
  <1> QED BY <1>6, <1>8, <1>9, ElementWithin

LEMMA ScaledConfined ==
  ASSUME plan = ScaledEntry(request), {request.rows, request.cols, request.width} \subseteq Nat,
         Backed(request, {"gate", "up", "scale", "upstream", "out", "out_up", "out_t"})
  PROVE  AccessesInStorage
  <1> DEFINE r == request
             touches == [id \in 0..(r.rows * r.cols - 1) |-> ScaledTouches(r, id)]
  <1>1. FirstOf(ScaledRefusals(r)) = "none" => Confined(r, touches)
    BY ScaledAdmits, ScaledWithin DEF Confined
  <1> QED BY <1>1, OneLaunchConfined DEF ScaledEntry
----------------------------------------
(* In storage: weighted bags.                                              *)

\* Every binding a bag takes holds the words its shape says.
BagNames(r) == BagIns(r) \cup {"out"} \cup BagScratch(r)
BagStocked(r) ==
  /\ BagShaped(r) /\ r.kind \in {"Forward", "GradWeights", "GradTable"}
  /\ \A at \in BagNames(r) : Holds(r, at, BagWords(r, at), 4)

LEMMA BagStocks ==
  ASSUME NEW r, FirstOf(BagRefusals(r)) = "none", {r.rows, r.k, r.vocab, r.d} \subseteq Nat,
         BagPairs(r) <= Bounds.pairs => \A pair \in 1..BagPairs(r) : r.ids[pair] \in Nat,
         Backed(r, {"table", "idx", "w", "up", "out", "scratch"}), r.kind \in {"Forward", "GradWeights", "GradTable"}
  PROVE  BagStocked(r)
  <1> DEFINE
      needs == [at \in BagNames(r) |-> 4 * BagWords(r, at)]
      x1 == <<0 \in {r.rows, r.k, r.vocab, r.d}, "SHAPE">>
      x2 == <<\/ BagPairs(r) > Bounds.pairs \/ r.vocab > Bounds.vocab \/ r.d > Bounds.dim
              \/ r.rows * r.d > Bounds.elements \/ r.vocab * r.d > Bounds.elements, "SIZE">>
      x3 == <<Lacks(r, needs), "SIZE">>
      x4 == <<Shared(r, {"out"} \cup BagScratch(r), BagIns(r)), "SHAPE">>
      c == <<x1, x2, x3, x4>>
  <1>1. BagRefusals(r) = c  BY DEF BagRefusals, BagNames
  <1>2. x1[2] # "none" /\ x2[2] # "none" /\ x3[2] # "none" /\ x4[2] # "none" /\ (x3[1] <=> Lacks(r, needs))
    OBVIOUS
  <1> HIDE DEF x1, x2, x3, x4
  <1>3. Listed(c) /\ 3 \in DOMAIN c /\ c[3] = x3  BY <1>2 DEF Listed
  <1> HIDE DEF c
  <1>4. ~Lacks(r, needs)  BY <1>1, <1>2, <1>3, NothingRefused
  <1>5. BagShaped(r)  BY BagAdmits
  <1>6. ASSUME NEW at \in BagNames(r) PROVE Holds(r, at, BagWords(r, at), 4)
    <2>1. at \in {"table", "idx", "w", "up", "out", "scratch"}  BY <1>6 DEF BagNames, BagIns, BagScratch
    <2>2. BagWords(r, at) \in Nat /\ 4 \in Nat \ {0}
      BY <1>5, <2>1 DEF BagShaped, BagWords, BagPairs, BagOutput, ScratchWanted
    <2>3. at \in DOMAIN needs /\ needs[at] = BagWords(r, at) * 4  BY <2>2
    <2> HIDE DEF needs
    <2> QED BY <1>4, <2>1, <2>2, <2>3, NotLacked
  <1> QED BY <1>5, <1>6 DEF BagStocked

\* A word of a binding of a bag, and words of its scratch.
LEMMA BagWord ==
  ASSUME NEW r, BagStocked(r), NEW at \in BagNames(r), NEW e \in 0..(BagWords(r, at) - 1),
         NEW how, NEW t, t = ElementTouch(at, how, e, 4)
  PROVE  Within(r, t)
  BY ElementWithin DEF BagStocked
LEMMA BagScratched ==
  ASSUME NEW r, BagStocked(r), r.kind = "GradTable", NEW words, words \subseteq 0..(ScratchWanted(r) - 1),
         NEW how, NEW t \in Scratched(how, words)
  PROVE  Within(r, t)
  <1>1. PICK word \in words : t = WordTouch("scratch", how, word)  BY DEF Scratched
  <1>2. "scratch" \in BagNames(r) /\ BagWords(r, "scratch") = ScratchWanted(r)
    BY DEF BagNames, BagScratch, BagWords
  <1>3. Holds(r, "scratch", ScratchWanted(r), 4)  BY <1>2 DEF BagStocked
  <1> QED BY <1>1, <1>3, WordWithin

LEMMA BagRegions ==
  ASSUME NEW r, BagShaped(r)
  PROVE  /\ Counted(r) \subseteq 0..(ScratchWanted(r) - 1) /\ Ends(r) \subseteq 0..(ScratchWanted(r) - 1)
         /\ Cursors(r) \subseteq 0..(ScratchWanted(r) - 1) /\ Lists(r) \subseteq 0..(ScratchWanted(r) - 1)
  <1>1. BagPairs(r) \in Nat /\ r.vocab \in Nat \ {0}  BY DEF BagPairs, BagShaped
  <1> QED BY <1>1 DEF Counted, Ends, Cursors, Lists, ScratchWanted, OffsetsAt, CursorAt, ListAt

\* Where a list's slot and its ends are.
LEMMA ListsKept ==
  ASSUME NEW r, BagStocked(r), r.kind = "GradTable", NEW v \in 0..(r.vocab - 1),
         NEW t \in RowEnds(r, v) \cup Scratched("read", RowList(r, v)) \cup Scratched("write", RowList(r, v))
  PROVE  Within(r, t)
  <1>0. BagShaped(r)  BY DEF BagStocked
  <1>1. OffsetsAt(r) + v \in Ends(r) /\ OffsetsAt(r) + v + 1 \in Ends(r)
    <2>1. v \in 0..r.vocab /\ v + 1 \in 0..r.vocab /\ OffsetsAt(r) + v + 1 = OffsetsAt(r) + (v + 1)
      BY <1>0 DEF BagShaped, OffsetsAt
    <2> QED BY <2>1 DEF Ends
  <1>2. RowList(r, v) \subseteq 0..(ScratchWanted(r) - 1)  BY <1>0, RowListWithin, BagRegions DEF Lists
  <1>3. {OffsetsAt(r) + v, OffsetsAt(r) + v + 1} \subseteq 0..(ScratchWanted(r) - 1)
    BY <1>0, <1>1, BagRegions
  <1> QED BY <1>2, <1>3, BagScratched DEF RowEnds

LEMMA ForwardWithin ==
  ASSUME NEW r, BagStocked(r), r.kind = "Forward", NEW u \in 0..(BagOutput(r) - 1), NEW t \in BagTouches(r, 0, u)
  PROVE  Within(r, t)
  <1> DEFINE
      row == u \div r.d
      place == u % r.d
      n == BagPairs(r)
  <1>1. BagShaped(r) /\ {r.rows, r.k, r.vocab, r.d} \subseteq Nat \ {0} /\ n = r.rows * r.k /\ BagOutput(r) = r.rows * r.d
    BY DEF BagStocked, BagShaped, BagPairs, BagOutput
  <1>2. u \in Nat /\ u < r.rows * r.d  BY <1>1
  <1>3. row \in 0..(r.rows - 1) /\ place \in 0..(r.d - 1)  BY <1>1, <1>2, RowOf
  <1>4. {"out", "w", "idx", "table"} \subseteq BagNames(r) /\ BagWords(r, "out") = BagOutput(r) /\ BagWords(r, "w") = n
        /\ BagWords(r, "idx") = n /\ BagWords(r, "table") = r.vocab * r.d
    BY DEF BagNames, BagIns, BagWords
  <1>5. \/ t = ElementTouch("out", "write", u, 4)
        \/ \E p \in (row * r.k)..(row * r.k + r.k - 1) :
             \/ t = ElementTouch("w", "read", p, 4) \/ t = ElementTouch("idx", "read", p, 4)
             \/ t = ElementTouch("table", "read", BagRow(r, p) * r.d + place, 4)
    BY DEF BagTouches
  <1>6. CASE t = ElementTouch("out", "write", u, 4)  BY <1>4, <1>6, BagWord
  <1>7. ASSUME NEW p \in (row * r.k)..(row * r.k + r.k - 1)
        PROVE  p \in 0..(n - 1) /\ BagRow(r, p) * r.d + place \in 0..(r.vocab * r.d - 1)
    <2> HIDE DEF row, place, n
    <2>1. row * r.k \in Nat /\ p - row * r.k \in 0..(r.k - 1) /\ row * r.k + (p - row * r.k) = p
      BY <1>1, <1>3
    <2>2. p \in 0..(n - 1)
      <3>1. row * r.k + (p - row * r.k) < r.rows * r.k  BY <1>1, <1>3, <2>1, Packed
      <3> QED BY <1>1, <2>1, <3>1
    <2>3. BagRow(r, p) \in 0..(r.vocab - 1)  BY <1>1, <2>2, BagRowInTable DEF n
    <2>4. BagRow(r, p) * r.d + place \in Nat /\ BagRow(r, p) * r.d + place < r.vocab * r.d
      BY <1>1, <1>3, <2>3, Packed
    <2>5. r.vocab * r.d \in Nat  BY <1>1
    <2> QED BY <2>2, <2>4, <2>5
  <1> HIDE DEF row, place, n
  <1> QED BY <1>4, <1>5, <1>6, <1>7, BagWord

LEMMA WeightsWithin ==
  ASSUME NEW r, BagStocked(r), r.kind = "GradWeights", NEW u \in 0..(BagPairs(r) - 1), NEW t \in BagTouches(r, 1, u)
  PROVE  Within(r, t)
  <1> DEFINE row == u \div r.k
  <1>1. BagShaped(r) /\ {r.rows, r.k, r.vocab, r.d} \subseteq Nat \ {0} /\ BagPairs(r) = r.rows * r.k
    BY DEF BagStocked, BagShaped, BagPairs
  <1>2. u \in Nat /\ u < r.rows * r.k  BY <1>1
  <1>3. row \in 0..(r.rows - 1)  BY <1>1, <1>2, RowOf
  <1>4. {"out", "idx", "table", "up"} \subseteq BagNames(r) /\ BagWords(r, "out") = BagPairs(r) /\ BagWords(r, "idx") = BagPairs(r)
        /\ BagWords(r, "table") = r.vocab * r.d /\ BagWords(r, "up") = r.rows * r.d
    BY DEF BagNames, BagIns, BagWords, BagOutput
  <1>5. \/ t = ElementTouch("out", "write", u, 4) \/ t = ElementTouch("idx", "read", u, 4)
        \/ t = Span("up", "read", row * r.d, r.d, 4) \/ t = Span("table", "read", BagRow(r, u) * r.d, r.d, 4)
    BY DEF BagTouches
  <1>6. CASE t = ElementTouch("out", "write", u, 4) \/ t = ElementTouch("idx", "read", u, 4)
    BY <1>4, <1>6, BagWord
  <1> HIDE DEF row
  <1>7. row * r.d \in Nat /\ row * r.d + r.d <= r.rows * r.d  BY <1>1, <1>3, NextRow
  <1>8. BagRow(r, u) * r.d \in Nat /\ BagRow(r, u) * r.d + r.d <= r.vocab * r.d
    <2> DEFINE v == BagRow(r, u)
    <2>1. v \in 0..(r.vocab - 1)  BY <1>1, BagRowInTable
    <2> HIDE DEF v
    <2>3. v * r.d \in Nat /\ v * r.d + r.d <= r.vocab * r.d  BY <1>1, <2>1, NextRow
    <2> QED BY <2>3 DEF v
  <1>9. Holds(r, "up", r.rows * r.d, 4) /\ Holds(r, "table", r.vocab * r.d, 4)  BY <1>4 DEF BagStocked
  <1>10. CASE t = Span("up", "read", row * r.d, r.d, 4)  BY <1>1, <1>7, <1>9, <1>10, SpanWithin
  <1>11. CASE t = Span("table", "read", BagRow(r, u) * r.d, r.d, 4)
    BY <1>1, <1>8, <1>9, <1>11, SpanWithin
  <1> QED BY <1>5, <1>6, <1>10, <1>11

\* The six passes of the table's gradient.
TableUnits(r, op) ==
  CASE op = 2 -> r.vocab + 1 [] op \in {3, 5} -> BagPairs(r) [] op = 4 -> 1 [] op = 6 -> r.vocab [] op = 7 -> BagOutput(r)

LEMMA TableCounts ==
  ASSUME NEW r, BagStocked(r), r.kind = "GradTable", NEW op \in {2, 3, 4, 5}, NEW u \in 0..(TableUnits(r, op) - 1),
         NEW t \in BagTouches(r, op, u)
  PROVE  Within(r, t)
  <1>1. BagShaped(r) /\ {r.rows, r.k, r.vocab, r.d} \subseteq Nat \ {0} /\ BagPairs(r) \in Nat
    BY DEF BagStocked, BagShaped, BagPairs
  <1>2. "idx" \in BagNames(r) /\ BagWords(r, "idx") = BagPairs(r)  BY DEF BagNames, BagIns, BagWords
  <1>3. CASE op = 2
    <2>1. u \in Counted(r) /\ t \in Scratched("write", {u})
      BY <1>1, <1>3 DEF TableUnits, BagTouches, Counted
    <2> QED BY <1>1, <2>1, BagRegions, BagScratched
  <1>4. CASE op \in {3, 5}
    <2>1. u \in 0..(BagPairs(r) - 1)  BY <1>4 DEF TableUnits
    <2>2. BagRow(r, u) \in 0..(r.vocab - 1)  BY <1>1, <2>1, BagRowInTable
    <2>3. BagRow(r, u) \in Counted(r) /\ CursorAt(r) + BagRow(r, u) \in Cursors(r)
      BY <1>1, <2>2 DEF Counted, Cursors
    <2>4. ListAt(r) + ListSlot(r, u) \in Lists(r)
      <3>1. RankIn(BagPairs(r), Listing(r), u) \in 0..(BagPairs(r) - 1)
        BY <1>1, <2>1, ListingLinear, LowerFinite
      <3> QED BY <1>1, <2>1, <3>1, SlotIsRank DEF Lists
    <2>5. \/ t = ElementTouch("idx", "read", u, 4) \/ t \in Scratched("atomic", {BagRow(r, u)})
          \/ t \in Scratched("atomic", {CursorAt(r) + BagRow(r, u)}) \/ t \in Scratched("write", {ListAt(r) + ListSlot(r, u)})
      BY <1>4 DEF BagTouches
    <2>6. CASE t = ElementTouch("idx", "read", u, 4)  BY <1>2, <2>1, <2>6, BagWord
    <2> QED BY <1>1, <2>3, <2>4, <2>5, <2>6, BagRegions, BagScratched
  <1>5. CASE op = 4
    <2>1. t \in Scratched("read", 0..r.vocab)
          \/ t \in Scratched("write", {base + v : base \in {OffsetsAt(r), CursorAt(r)}, v \in 0..r.vocab})
      BY <1>5 DEF BagTouches
    <2>2. {base + v : base \in {OffsetsAt(r), CursorAt(r)}, v \in 0..r.vocab} \subseteq 0..(ScratchWanted(r) - 1)
      <3>1. {base + v : base \in {OffsetsAt(r), CursorAt(r)}, v \in 0..r.vocab} \subseteq Ends(r) \cup Cursors(r)
        BY DEF Ends, Cursors
      <3> QED BY <1>1, <3>1, BagRegions
    <2>3. 0..r.vocab \subseteq 0..(ScratchWanted(r) - 1)  BY <1>1, BagRegions DEF Counted
    <2>4. CASE t \in Scratched("read", 0..r.vocab)  BY <2>3, <2>4, BagScratched
    <2> DEFINE saved == {base + v : base \in {OffsetsAt(r), CursorAt(r)}, v \in 0..r.vocab}
    <2> HIDE DEF saved
    <2>5. CASE t \in Scratched("write", saved)
      <3>1. saved \subseteq 0..(ScratchWanted(r) - 1)  BY <2>2 DEF saved
      <3> QED BY <2>5, <3>1, BagScratched
    <2> QED BY <2>1, <2>4, <2>5 DEF saved
  <1> QED BY <1>3, <1>4, <1>5

LEMMA TableSums ==
  ASSUME NEW r, BagStocked(r), r.kind = "GradTable", NEW op \in {6, 7}, NEW u \in 0..(TableUnits(r, op) - 1),
         NEW t \in BagTouches(r, op, u)
  PROVE  Within(r, t)
  <1>1. BagShaped(r) /\ {r.rows, r.k, r.vocab, r.d} \subseteq Nat \ {0} /\ BagPairs(r) = r.rows * r.k
    BY DEF BagStocked, BagShaped, BagPairs
  <1>2. CASE op = 6
    <2>1. u \in 0..(r.vocab - 1)  BY <1>2 DEF TableUnits
    <2>2. t \in RowEnds(r, u) \cup Scratched("read", RowList(r, u)) \cup Scratched("write", RowList(r, u))
      BY <1>2 DEF BagTouches
    <2> QED BY <2>1, <2>2, ListsKept
  <1>3. CASE op = 7
    <2> DEFINE row == u \div r.d
               place == u % r.d
    <2>1. BagOutput(r) = r.vocab * r.d /\ u \in 0..(r.vocab * r.d - 1)
      BY <1>3 DEF TableUnits, BagOutput
    <2>2. u \in Nat /\ u < r.vocab * r.d  BY <1>1, <2>1
    <2>3. row \in 0..(r.vocab - 1) /\ place \in 0..(r.d - 1)  BY <1>1, <2>2, RowOf
    <2>4. {"out", "w", "up"} \subseteq BagNames(r) /\ BagWords(r, "out") = BagOutput(r) /\ BagWords(r, "w") = BagPairs(r)
          /\ BagWords(r, "up") = r.rows * r.d
      BY DEF BagNames, BagIns, BagWords
    <2>5. \/ t = ElementTouch("out", "write", u, 4)
          \/ t \in RowEnds(r, row) \cup Scratched("read", RowList(r, row)) \cup Scratched("write", RowList(r, row))
          \/ \E p \in Bagged(r, row) :
               t = ElementTouch("w", "read", p, 4) \/ t = ElementTouch("up", "read", (p \div r.k) * r.d + place, 4)
      BY <1>3 DEF BagTouches
    <2>6. CASE t = ElementTouch("out", "write", u, 4)  BY <2>1, <2>4, <2>6, BagWord
    <2> HIDE DEF row, place
    <2>7. CASE t \in RowEnds(r, row) \cup Scratched("read", RowList(r, row)) \cup Scratched("write", RowList(r, row))
      BY <2>3, <2>7, ListsKept
    <2>8. ASSUME NEW p \in Bagged(r, row),
                 t = ElementTouch("w", "read", p, 4) \/ t = ElementTouch("up", "read", (p \div r.k) * r.d + place, 4)
          PROVE  Within(r, t)
      <3> DEFINE owner == p \div r.k
      <3>1. p \in 0..(BagPairs(r) - 1)  BY DEF Bagged
      <3>2. p \in Nat /\ p < r.rows * r.k  BY <1>1, <3>1
      <3>3. owner \in 0..(r.rows - 1)  BY <1>1, <3>2, RowOf
      <3> HIDE DEF owner
      <3>4. owner * r.d + place \in Nat /\ owner * r.d + place < r.rows * r.d /\ r.rows * r.d \in Nat
        BY <1>1, <2>3, <3>3, Packed
      <3>5. owner * r.d + place \in 0..(r.rows * r.d - 1)  BY <3>4
      <3>6. t = ElementTouch("w", "read", p, 4) \/ t = ElementTouch("up", "read", owner * r.d + place, 4)
        BY <2>8 DEF owner
      <3> QED BY <2>4, <3>1, <3>5, <3>6, BagWord
    <2> QED BY <2>5, <2>6, <2>7, <2>8
  <1> QED BY <1>2, <1>3

LEMMA BagConfined ==
  ASSUME plan = BagEntry(request), {request.rows, request.k, request.vocab, request.d} \subseteq Nat,
         BagPairs(request) <= Bounds.pairs => \A pair \in 1..BagPairs(request) : request.ids[pair] \in Nat,
         Backed(request, {"table", "idx", "w", "up", "out", "scratch"}),
         request.kind \in {"Forward", "GradWeights", "GradTable"}
  PROVE  AccessesInStorage
  <1> DEFINE
      r == request
      why == FirstOf(BagRefusals(r))
      lanes == Bounds.bagLanes
      passes == BagPasses(r)
  <1>1. plan = Entered(why, passes, 0, {<<"weighted_bag">>})  BY DEF BagEntry
  <1>2. why = "none" => BagStocked(r)  BY BagStocks
  <1>3. ASSUME BagStocked(r), NEW i \in DOMAIN passes PROVE Confined(r, passes[i].touches)
    <2>1. CASE r.kind = "Forward"
      <3>1. passes = <<BagRun(r, 0, BagOutput(r), lanes)>>  BY <2>1 DEF BagPasses
      <3>2. passes[i].touches = [u \in 0..(BagOutput(r) - 1) |-> BagTouches(r, 0, u)]
        BY <3>1, BagRunTouches
      <3> QED BY <1>3, <2>1, <3>2, ForwardWithin DEF Confined
    <2>2. CASE r.kind = "GradWeights"
      <3>1. passes = <<BagRun(r, 1, BagPairs(r), 1)>>  BY <2>2 DEF BagPasses
      <3>2. passes[i].touches = [u \in 0..(BagPairs(r) - 1) |-> BagTouches(r, 1, u)]
        BY <3>1, BagRunTouches
      <3> QED BY <1>3, <2>2, <3>2, WeightsWithin DEF Confined
    <2>3. CASE r.kind = "GradTable"
      <3>1. \E op \in 2..7 : \E per : passes[i] = BagRun(r, op, TableUnits(r, op), per)
        BY <2>3 DEF BagPasses, TableUnits
      <3>2. PICK op \in 2..7 : \E per : passes[i] = BagRun(r, op, TableUnits(r, op), per)  BY <3>1
      <3>3. passes[i].touches = [u \in 0..(TableUnits(r, op) - 1) |-> BagTouches(r, op, u)]
        BY <3>2, BagRunTouches
      <3>4. op \in {2, 3, 4, 5} \/ op \in {6, 7}  BY <3>2
      <3> QED BY <1>3, <2>3, <3>3, <3>4, TableCounts, TableSums DEF Confined
    <2> QED BY <2>1, <2>2, <2>3
  <1> HIDE DEF why, passes
  <1> QED BY <1>1, <1>2, <1>3, EnteredConfined
----------------------------------------
(* In storage: the head's loss.                                            *)

HeadElements(r, at) ==
  CASE at \in {"yp", "grad"} -> r.rows * r.cols [] at = "h" -> r.cols [] at \in {"top", "gkp"} -> r.rows * r.k
    [] at = "targets" -> r.rows [] at = "row_values" -> 3 * r.rows + 1
    [] at = "partial" -> CeilDiv(r.rows, Most(r.perGroup, 1)) * r.cols [] at = "out" -> 2 * r.rows
HeadWidth(at) == CASE at \in {"yp", "grad"} -> 2 [] at \in {"top", "targets"} -> 8 [] OTHER -> 4
HeadRoles == GradIns \cup GradOuts \cup {"out"}
HeadShaped(r, bindings) ==
  /\ {r.rows, r.cols, r.k} \subseteq Nat \ {0}
  /\ \A at \in bindings : Holds(r, at, HeadElements(r, at), HeadWidth(at))

LEMMA HeadBacks ==
  ASSUME NEW r, {r.rows, r.cols, r.k} \subseteq Nat \ {0}, r.perGroup \in Nat, Backed(r, HeadRoles),
         NEW bindings, bindings \subseteq HeadRoles, ~Lacks(r, [at \in bindings |-> HeadBytes(r, at)])
  PROVE  HeadShaped(r, bindings)
  <1> DEFINE needs == [at \in bindings |-> HeadBytes(r, at)]
  <1>1. ASSUME NEW at \in bindings PROVE Holds(r, at, HeadElements(r, at), HeadWidth(at))
    <2>1. at \in {"yp", "h", "top", "targets", "row_values", "gkp", "grad", "partial", "out"}
      BY DEF HeadRoles, GradIns, LseIns, GradOuts
    <2>2. Most(r.perGroup, 1) \in Nat \ {0}  BY DEF Most
    <2>3. CeilDiv(r.rows, Most(r.perGroup, 1)) \in Nat  BY <2>2, CeilDivCovers
    <2>4. HeadElements(r, at) \in Nat /\ HeadWidth(at) \in Nat \ {0}
      BY <2>1, <2>3 DEF HeadElements, HeadWidth
    <2>5. HeadBytes(r, at) = HeadElements(r, at) * HeadWidth(at)
      BY <2>1, <2>3 DEF HeadBytes, HeadElements, HeadWidth
    <2>6. at \in DOMAIN needs /\ needs[at] = HeadElements(r, at) * HeadWidth(at)  BY <2>5
    <2>7. at \in HeadRoles  OBVIOUS
    <2>8. ~Lacks(r, needs)  OBVIOUS
    <2> HIDE DEF needs
    <2> QED BY <2>4, <2>6, <2>7, <2>8, NotLacked
  <1> QED BY <1>1 DEF HeadShaped

LEMMA HeadRefusing ==
  ASSUME NEW r, {r.rows, r.cols, r.k} \subseteq Nat, NEW c, Refusing(c), FirstOf(HeadShape(r) \o c) = "none"
  PROVE  {r.rows, r.cols, r.k} \subseteq Nat \ {0} /\ \A i \in DOMAIN c : ~c[i][1]
  <1> DEFINE
      x1 == <<0 \in {r.rows, r.cols, r.k}, "SHAPE">>
      x2 == <<r.cols % 2 # 0, "SHAPE">>
      x3 == <<r.cols > Bounds.cols \/ r.k > Bounds.topK, "SHAPE">>
      x4 == <<r.rows * r.cols > Bounds.elements \/ r.rows * r.k > Bounds.top, "SIZE">>
      a == <<x1, x2, x3, x4>>
  <1>1. HeadShape(r) = a  BY DEF HeadShape
  <1>2. x1[2] # "none" /\ x2[2] # "none" /\ x3[2] # "none" /\ x4[2] # "none" /\ (x1[1] <=> 0 \in {r.rows, r.cols, r.k})
    OBVIOUS
  <1> HIDE DEF x1, x2, x3, x4
  <1>3. Refusing(a) /\ 1 \in DOMAIN a /\ a[1] = x1  BY <1>2 DEF Refusing
  <1> HIDE DEF a
  <1>4. (\A i \in DOMAIN a : ~a[i][1]) /\ (\A i \in DOMAIN c : ~c[i][1])  BY <1>1, <1>3, RefusingBoth
  <1> QED BY <1>2, <1>3, <1>4

LEMMA LseAdmits ==
  ASSUME NEW r, FirstOf(LseRefusals(r)) = "none", {r.rows, r.cols, r.k} \subseteq Nat, r.perGroup \in Nat, Backed(r, HeadRoles)
  PROVE  HeadShaped(r, LseIns \cup {"out"})
  <1> DEFINE
      needs == [at \in LseIns \cup {"out"} |-> HeadBytes(r, at)]
      x1 == <<CeilDiv(r.rows, Most(Least(r.rows, MaxGroups), 1)) > MaxGroups, "SIZE">>
      x2 == <<Lacks(r, needs), "SIZE">>
      x3 == <<Shared(r, {"out"}, LseIns), "SHAPE">>
      c == <<x1, x2, x3>>
  <1>1. LseRefusals(r) = HeadShape(r) \o c  BY DEF LseRefusals
  <1>2. x1[2] # "none" /\ x2[2] # "none" /\ x3[2] # "none" /\ (x2[1] <=> Lacks(r, needs))  OBVIOUS
  <1> HIDE DEF x1, x2, x3
  <1>3. Refusing(c) /\ 2 \in DOMAIN c /\ c[2] = x2  BY <1>2 DEF Refusing
  <1> HIDE DEF c
  <1>4. {r.rows, r.cols, r.k} \subseteq Nat \ {0} /\ ~Lacks(r, needs)  BY <1>1, <1>2, <1>3, HeadRefusing
  <1>5. LseIns \cup {"out"} \subseteq HeadRoles  BY DEF HeadRoles, GradIns
  <1> QED BY <1>4, <1>5, HeadBacks

LEMMA LseWithin ==
  ASSUME NEW r, HeadShaped(r, LseIns \cup {"out"}), NEW row \in 0..(r.rows - 1), NEW t \in LseTouches(r, row)
  PROVE  Within(r, t)
  <1>1. {r.rows, r.cols, r.k} \subseteq Nat \ {0} /\ row \in Nat /\ row < r.rows  BY DEF HeadShaped
  <1>2. /\ Holds(r, "yp", r.rows * r.cols, 2) /\ Holds(r, "h", r.cols, 4) /\ Holds(r, "top", r.rows * r.k, 8)
        /\ Holds(r, "out", 2 * r.rows, 4)
    BY DEF HeadShaped, LseIns, HeadElements, HeadWidth
  <1>3. row * r.cols \in Nat /\ row * r.cols + r.cols <= r.rows * r.cols  BY <1>1, NextRow
  <1>4. row * r.k \in Nat /\ row * r.k + r.k <= r.rows * r.k  BY <1>1, NextRow
  <1>5. row \in 0..(2 * r.rows - 1) /\ r.rows + row \in 0..(2 * r.rows - 1) /\ 0 + r.cols <= r.cols
    BY <1>1
  <1>6. \/ t = Span("yp", "read", row * r.cols, r.cols, 2) \/ t = Span("h", "read", 0, r.cols, 4)
        \/ t = Span("top", "read", row * r.k, r.k, 8)
        \/ t = ElementTouch("out", "write", row, 4) \/ t = ElementTouch("out", "write", r.rows + row, 4)
    BY DEF LseTouches
  <1>7. CASE t = Span("yp", "read", row * r.cols, r.cols, 2)  BY <1>1, <1>2, <1>3, <1>7, SpanWithin
  <1>8. CASE t = Span("h", "read", 0, r.cols, 4)  BY <1>1, <1>2, <1>5, <1>8, SpanWithin
  <1>9. CASE t = Span("top", "read", row * r.k, r.k, 8)  BY <1>1, <1>2, <1>4, <1>9, SpanWithin
  <1> QED BY <1>2, <1>5, <1>6, <1>7, <1>8, <1>9, ElementWithin

LEMMA LseConfined ==
  ASSUME plan = LseEntry(request), {request.rows, request.cols, request.k} \subseteq Nat, request.perGroup \in Nat,
         Backed(request, HeadRoles)
  PROVE  AccessesInStorage
  <1> DEFINE r == request
             touches == [row \in 0..(r.rows - 1) |-> LseTouches(r, row)]
  <1>1. FirstOf(LseRefusals(r)) = "none" => Confined(r, touches)  BY LseAdmits, LseWithin DEF Confined
  <1> QED BY <1>1, OneLaunchConfined DEF LseEntry

LEMMA GradAdmits ==
  ASSUME NEW r, FirstOf(GradRefusals(r)) = "none", {r.rows, r.cols, r.k} \subseteq Nat, r.perGroup \in Nat, Backed(r, HeadRoles)
  PROVE  HeadShaped(r, GradIns \cup GradOuts) /\ r.perGroup \in Nat \ {0}
  <1> DEFINE
      groups == CeilDiv(r.rows, Most(r.perGroup, 1))
      needs == [at \in GradIns \cup GradOuts |-> HeadBytes(r, at)]
      x1 == <<r.perGroup \notin 1..Bounds.groupRows, "SHAPE">>
      x2 == <<groups > MaxGroups \/ CeilDiv(r.cols, Bounds.block) > MaxGroups, "SIZE">>
      x3 == <<groups * r.cols > Bounds.elements, "SIZE">>
      x4 == <<Lacks(r, needs), "SIZE">>
      x5 == <<Shared(r, GradOuts, GradIns), "SHAPE">>
      c == <<x1, x2, x3, x4, x5>>
  <1>1. GradRefusals(r) = HeadShape(r) \o c  BY DEF GradRefusals
  <1>2. /\ x1[2] # "none" /\ x2[2] # "none" /\ x3[2] # "none" /\ x4[2] # "none" /\ x5[2] # "none"
        /\ x1[1] <=> r.perGroup \notin 1..Bounds.groupRows
        /\ x4[1] <=> Lacks(r, needs)
    OBVIOUS
  <1> HIDE DEF x1, x2, x3, x4, x5
  <1>3. Refusing(c) /\ 1 \in DOMAIN c /\ 4 \in DOMAIN c /\ c[1] = x1 /\ c[4] = x4  BY <1>2 DEF Refusing
  <1> HIDE DEF c
  <1>4. {r.rows, r.cols, r.k} \subseteq Nat \ {0} /\ ~Lacks(r, needs) /\ r.perGroup \in 1..Bounds.groupRows
    BY <1>1, <1>2, <1>3, HeadRefusing
  <1>5. GradIns \cup GradOuts \subseteq HeadRoles  BY DEF HeadRoles
  <1>6. r.perGroup \in Nat \ {0}  BY <1>4
  <1> QED BY <1>4, <1>5, <1>6, HeadBacks

\* A block of columns over a group of rows.
LEMMA GradWithin ==
  ASSUME NEW r, HeadShaped(r, GradIns \cup GradOuts), r.perGroup \in Nat \ {0},
         NEW u \in 0..(CeilDiv(r.rows, r.perGroup) * CeilDiv(r.cols, Bounds.block) - 1), NEW t \in GradTouches(r, u)
  PROVE  Within(r, t)
  <1> DEFINE
      blocks == CeilDiv(r.cols, Bounds.block)
      groups == CeilDiv(r.rows, r.perGroup)
      group == u \div blocks
      block == u % blocks
      first == block * Bounds.block
      wide == Least(Bounds.block, r.cols - first)
  <1>1. /\ {r.rows, r.cols, r.k} \subseteq Nat \ {0} /\ r.perGroup \in Nat \ {0} /\ Bounds.block \in Nat \ {0}
    BY FusedAssumption DEF HeadShaped, BoundFields
  <1>2. groups \in Nat /\ blocks \in Nat \ {0}
    <2>1. groups \in Nat  BY <1>1, CeilDivCovers
    <2>2. blocks \in Nat /\ (r.cols > 0 => blocks > 0)  BY <1>1, CeilDivCovers
    <2> QED BY <1>1, <2>1, <2>2
  <1>3. u \in Nat /\ u < groups * blocks  BY <1>2
  <1>4. group \in 0..(groups - 1) /\ block \in 0..(blocks - 1)  BY <1>2, <1>3, RowOf
  <1> HIDE DEF group, block
  <1>5. first \in Nat /\ first < r.cols  BY <1>1, <1>4, BlockStarts
  <1>6. wide \in Nat /\ first + wide <= r.cols  BY <1>1, <1>5 DEF Least
  <1> HIDE DEF first, wide
  <1>7. /\ Holds(r, "yp", r.rows * r.cols, 2) /\ Holds(r, "grad", r.rows * r.cols, 2) /\ Holds(r, "h", r.cols, 4)
        /\ Holds(r, "top", r.rows * r.k, 8) /\ Holds(r, "gkp", r.rows * r.k, 4) /\ Holds(r, "targets", r.rows, 8)
        /\ Holds(r, "row_values", 3 * r.rows + 1, 4) /\ Holds(r, "partial", groups * r.cols, 4)
    <2>1. Most(r.perGroup, 1) = r.perGroup  BY <1>1 DEF Most
    <2> QED BY <2>1 DEF HeadShaped, GradIns, LseIns, GradOuts, HeadElements, HeadWidth
  <1> DEFINE
      Of(row) == {Span("yp", "read", row * r.cols + first, wide, 2), Span("grad", "write", row * r.cols + first, wide, 2),
                  Span("top", "read", row * r.k, r.k, 8), Span("gkp", "read", row * r.k, r.k, 4),
                  ElementTouch("targets", "read", row, 8)}
                    \cup {ElementTouch("row_values", "read", part * r.rows + row, 4) : part \in 0..2}
  <1>8. \/ t = Span("h", "read", first, wide, 4) \/ t = Span("partial", "write", group * r.cols + first, wide, 4)
        \/ t = ElementTouch("row_values", "read", 3 * r.rows, 4)
        \/ \E row \in 0..(r.rows - 1) : t \in Of(row)
    BY DEF GradTouches, first, wide, group, block
  <1> HIDE DEF Of
  <1>9. CASE t = Span("h", "read", first, wide, 4)  BY <1>5, <1>6, <1>7, <1>9, SpanWithin
  <1>10. CASE t = Span("partial", "write", group * r.cols + first, wide, 4)
    <2>1. group * r.cols \in Nat /\ group * r.cols + r.cols <= groups * r.cols
      <3> HIDE DEF groups
      <3> QED BY <1>1, <1>2, <1>4, NextRow
    <2>2. group * r.cols + first \in Nat /\ (group * r.cols + first) + wide <= groups * r.cols
      <3> HIDE DEF groups
      <3>1. groups * r.cols \in Nat  BY <1>1, <1>2
      <3> QED BY <1>1, <1>5, <1>6, <2>1, <3>1
    <2> HIDE DEF groups
    <2> QED BY <1>6, <1>7, <1>10, <2>2, SpanWithin
  <1>11. CASE t = ElementTouch("row_values", "read", 3 * r.rows, 4)
    <2>1. 3 * r.rows \in 0..((3 * r.rows + 1) - 1)  BY <1>1
    <2> QED BY <1>7, <1>11, <2>1, ElementWithin
  <1>12. ASSUME NEW row \in 0..(r.rows - 1), t \in Of(row) PROVE Within(r, t)
    <2>1. row * r.cols \in Nat /\ row * r.cols + r.cols <= r.rows * r.cols  BY <1>1, NextRow
    <2>2. row * r.k \in Nat /\ row * r.k + r.k <= r.rows * r.k  BY <1>1, NextRow
    <2>3. row * r.cols + first \in Nat /\ (row * r.cols + first) + wide <= r.rows * r.cols
      <3>1. r.rows * r.cols \in Nat  BY <1>1
      <3> QED BY <1>1, <1>5, <1>6, <2>1, <3>1
    <2>4. \/ t = Span("yp", "read", row * r.cols + first, wide, 2) \/ t = Span("grad", "write", row * r.cols + first, wide, 2)
          \/ t = Span("top", "read", row * r.k, r.k, 8) \/ t = Span("gkp", "read", row * r.k, r.k, 4)
          \/ t = ElementTouch("targets", "read", row, 8)
          \/ \E part \in 0..2 : t = ElementTouch("row_values", "read", part * r.rows + row, 4)
      BY <1>12 DEF Of
    <2>5. CASE t = Span("yp", "read", row * r.cols + first, wide, 2) \/ t = Span("grad", "write", row * r.cols + first, wide, 2)
      BY <1>6, <1>7, <2>3, <2>5, SpanWithin
    <2>6. CASE t = Span("top", "read", row * r.k, r.k, 8)  BY <1>1, <1>7, <2>2, <2>6, SpanWithin
    <2>7. CASE t = Span("gkp", "read", row * r.k, r.k, 4)  BY <1>1, <1>7, <2>2, <2>7, SpanWithin
    <2>8. CASE t = ElementTouch("targets", "read", row, 8)  BY <1>7, <2>8, ElementWithin
    <2>9. ASSUME NEW part \in 0..2, t = ElementTouch("row_values", "read", part * r.rows + row, 4) PROVE Within(r, t)
      <3>1. part * r.rows + row \in 0..((3 * r.rows + 1) - 1)
        <4>1. part = 0 \/ part = 1 \/ part = 2  OBVIOUS
        <4> QED BY <1>1, <4>1
      <3> QED BY <1>7, <2>9, <3>1, ElementWithin
    <2> QED BY <2>4, <2>5, <2>6, <2>7, <2>8, <2>9
  <1> QED BY <1>8, <1>9, <1>10, <1>11, <1>12

LEMMA GradConfined ==
  ASSUME plan = GradEntry(request), {request.rows, request.cols, request.k} \subseteq Nat, request.perGroup \in Nat,
         Backed(request, HeadRoles)
  PROVE  AccessesInStorage
  <1> DEFINE
      r == request
      n == CeilDiv(r.rows, r.perGroup) * CeilDiv(r.cols, Bounds.block)
      touches == [u \in 0..(n - 1) |-> GradTouches(r, u)]
  <1>1. FirstOf(GradRefusals(r)) = "none" => Confined(r, touches)
    BY GradAdmits, GradWithin DEF Confined
  <1> QED BY <1>1, OneLaunchConfined DEF GradEntry
----------------------------------------
(* In storage: casts and the gradient scaler.                              *)

LEMMA HeldHolds ==
  ASSUME NEW r, NEW bindings, Backed(r, bindings), NEW at \in bindings
  PROVE  Held(r, at) \in Nat /\ Holds(r, at, Held(r, at), 4)
  <1> DEFINE cap == r.storage[at].capacity
  <1>1. at \in DOMAIN r.storage /\ cap \in Nat  BY DEF Backed
  <1>2. cap \div 4 \in Nat /\ cap % 4 \in Nat /\ cap = (cap \div 4) * 4 + (cap % 4)  BY <1>1, Division
  <1>3. (cap \div 4) * 4 <= cap /\ 4 \in Nat \ {0}  BY <1>1, <1>2
  <1> QED BY <1>1, <1>2, <1>3 DEF Held, Holds

LEMMA UnscaleAdmits ==
  ASSUME NEW r, FirstOf(UnscaleRefusals(r)) = "none", {r.offset, r.count, r.scaleAt, r.foundAt} \subseteq Nat,
         Backed(r, {"data", "scale", "found"})
  PROVE  r.offset + r.count <= Held(r, "data") /\ r.scaleAt < Held(r, "scale") /\ r.foundAt < Held(r, "found")
  <1> DEFINE
      x1 == <<Aliases(r, {"data", "scale", "found"}), "SHAPE">>
      x2 == <<r.count > Sizes.count, "SIZE">>
      x3 == <<\E n \in {r.offset + r.count, r.scaleAt, r.foundAt} : n >= U32, "SIZE">>
      x4 == <<r.offset + r.count > Held(r, "data"), "SIZE">>
      x5 == <<r.scaleAt >= Held(r, "scale") \/ r.foundAt >= Held(r, "found"), "SIZE">>
      c == <<x1, x2, x3, x4, x5>>
  <1>1. UnscaleRefusals(r) = c  BY DEF UnscaleRefusals
  <1>2. /\ x1[2] # "none" /\ x2[2] # "none" /\ x3[2] # "none" /\ x4[2] # "none" /\ x5[2] # "none"
        /\ x4[1] <=> r.offset + r.count > Held(r, "data")
        /\ x5[1] <=> r.scaleAt >= Held(r, "scale") \/ r.foundAt >= Held(r, "found")
    OBVIOUS
  <1> HIDE DEF x1, x2, x3, x4, x5
  <1>3. Listed(c) /\ 4 \in DOMAIN c /\ 5 \in DOMAIN c /\ c[4] = x4 /\ c[5] = x5  BY <1>2 DEF Listed
  <1> HIDE DEF c
  <1>4. ~x4[1] /\ ~x5[1]  BY <1>1, <1>3, NothingRefused
  <1>5. Held(r, "data") \in Nat /\ Held(r, "scale") \in Nat /\ Held(r, "found") \in Nat  BY HeldHolds
  <1> QED BY <1>2, <1>4, <1>5

LEMMA UnscaleConfined ==
  ASSUME plan = UnscaleEntry(request), Backed(request, {"data", "scale", "found"}),
         {request.offset, request.count, request.scaleAt, request.foundAt} \subseteq Nat
  PROVE  AccessesInStorage
  <1> DEFINE
      r == request
      why == FirstOf(UnscaleRefusals(r))
      groups == Most(Least(CeilDiv(r.count, Sizes.ampLanes), MaxGroups), 1)
      started == groups * Sizes.ampLanes
      units == Least(started, r.count)
      touches == [u \in 0..(units - 1) |-> UnscaleTouches(r, u, started)]
      pass == Launch(<<"amp_unscale">>, units, Sizes.ampLanes, <<groups, 1, 1>>, touches, {"scale"}, {"data", "found"})
      passes == IF r.count = 0 THEN <<>> ELSE <<pass>>
  <1>1. plan = Entered(why, passes, 0, {<<"amp_unscale">>})  BY DEF UnscaleEntry
  <1>2. ASSUME why = "none", NEW u, NEW step, NEW t \in UnscaleTouches(r, u, step) PROVE Within(r, t)
    <2>1. r.offset + r.count <= Held(r, "data") /\ r.scaleAt < Held(r, "scale") /\ r.foundAt < Held(r, "found")
      BY <1>2, UnscaleAdmits
    <2>2. /\ Held(r, "data") \in Nat /\ Holds(r, "data", Held(r, "data"), 4)
          /\ Held(r, "scale") \in Nat /\ Holds(r, "scale", Held(r, "scale"), 4)
          /\ Held(r, "found") \in Nat /\ Holds(r, "found", Held(r, "found"), 4)
      BY HeldHolds
    <2>3. \/ t = WordTouch("scale", "read", r.scaleAt) \/ t = WordTouch("found", "atomic", r.foundAt)
          \/ \E i \in 0..(r.count - 1) : \E how \in {"read", "write"} : t = WordTouch("data", how, r.offset + i)
      BY <1>2 DEF UnscaleTouches
    <2>4. /\ r.scaleAt \in 0..(Held(r, "scale") - 1) /\ r.foundAt \in 0..(Held(r, "found") - 1)
          /\ \A i \in 0..(r.count - 1) : r.offset + i \in 0..(Held(r, "data") - 1)
      BY <2>1, <2>2
    <2> QED BY <2>2, <2>3, <2>4, WordWithin
  <1>3. pass.touches = touches  BY LaunchFields
  <1>4. why = "none" => Confined(r, touches)  BY <1>2 DEF Confined
  <1> HIDE DEF why, touches, pass
  <1>5. why = "none" => \A i \in DOMAIN passes : Confined(r, passes[i].touches)  BY <1>3, <1>4
  <1> HIDE DEF passes
  <1> QED BY <1>1, <1>5, EnteredConfined

LEMMA UpdateAdmits ==
  ASSUME NEW r, FirstOf(UpdateRefusals(r)) = "none", {r.scaleAt, r.trackerAt, r.foundAt} \subseteq Nat,
         Backed(r, {"scale", "tracker", "found"})
  PROVE  r.scaleAt < Held(r, "scale") /\ r.trackerAt < Held(r, "tracker") /\ r.foundAt < Held(r, "found")
  <1> DEFINE
      x1 == <<Aliases(r, {"scale", "tracker", "found"}), "SHAPE">>
      x2 == <<~r.exact \/ r.interval >= U32 \div 2, "SIZE">>
      x3 == <<\E n \in {r.scaleAt, r.trackerAt, r.foundAt} : n >= U32, "SIZE">>
      x4 == <<r.scaleAt >= Held(r, "scale") \/ r.trackerAt >= Held(r, "tracker") \/ r.foundAt >= Held(r, "found"), "SIZE">>
      c == <<x1, x2, x3, x4>>
  <1>1. UpdateRefusals(r) = c  BY DEF UpdateRefusals
  <1>2. /\ x1[2] # "none" /\ x2[2] # "none" /\ x3[2] # "none" /\ x4[2] # "none"
        /\ x4[1] <=> r.scaleAt >= Held(r, "scale") \/ r.trackerAt >= Held(r, "tracker") \/ r.foundAt >= Held(r, "found")
    OBVIOUS
  <1> HIDE DEF x1, x2, x3, x4
  <1>3. Listed(c) /\ 4 \in DOMAIN c /\ c[4] = x4  BY <1>2 DEF Listed
  <1> HIDE DEF c
  <1>4. ~x4[1]  BY <1>1, <1>3, NothingRefused
  <1>5. Held(r, "tracker") \in Nat /\ Held(r, "scale") \in Nat /\ Held(r, "found") \in Nat  BY HeldHolds
  <1> QED BY <1>2, <1>4, <1>5

LEMMA UpdateConfined ==
  ASSUME plan = UpdateEntry(request), Backed(request, {"scale", "tracker", "found"}),
         {request.scaleAt, request.trackerAt, request.foundAt} \subseteq Nat
  PROVE  AccessesInStorage
  <1> DEFINE
      r == request
      why == FirstOf(UpdateRefusals(r))
      word == [scale |-> r.scaleAt, tracker |-> r.trackerAt, found |-> r.foundAt]
      touches == {WordTouch(at, "read", word[at]) : at \in DOMAIN word}
                   \cup {WordTouch(at, "write", word[at]) : at \in {"scale", "tracker"}}
      all == [u \in {0} |-> touches]
  <1>1. ASSUME why = "none", NEW t \in touches PROVE Within(r, t)
    <2>1. \E at \in {"scale", "tracker", "found"}, how \in {"read", "write"} : t = WordTouch(at, how, word[at])
      BY <1>1
    <2>2. r.scaleAt < Held(r, "scale") /\ r.trackerAt < Held(r, "tracker") /\ r.foundAt < Held(r, "found")
      BY <1>1, UpdateAdmits
    <2>3. \A at \in {"scale", "tracker", "found"} : Held(r, at) \in Nat /\ Holds(r, at, Held(r, at), 4)
      BY HeldHolds
    <2>4. \A at \in {"scale", "tracker", "found"} : word[at] \in 0..(Held(r, at) - 1)  BY <2>2, <2>3
    <2> HIDE DEF word, touches, why
    <2> QED BY <2>1, <2>3, <2>4, WordWithin
  <1>2. why = "none" => Confined(r, all)  BY <1>1 DEF Confined
  <1> QED BY <1>2, OneLaunchConfined DEF UpdateEntry

LEMMA CastConfined ==
  ASSUME plan = CastEntry(request), Backed(request, {"src", "dst"}), request.n \in Nat
  PROVE  AccessesInStorage
  <1> DEFINE
      r == request
      why == FirstOf(CastRefusals(r))
      units == CeilDiv(r.n, 4)
      Lane(u) == {Span(at, IF at = "src" THEN "read" ELSE "write", 4 * u, Least(4, r.n - 4 * u), CastWidth(r, at)) :
                    at \in {"src", "dst"}}
      touches == [u \in 0..(units - 1) |-> Lane(u)]
      x1 == <<r.n \notin 1..(U32 - 1) \/ r.mode \notin {0, 1}, "SHAPE">>
      x2 == <<\E at \in {"src", "dst"} : ~Room(r, at, r.n * CastWidth(r, at)), "SIZE">>
      c == <<x1, x2>>
  <1>1. ASSUME why = "none" PROVE \A at \in {"src", "dst"} : Room(r, at, r.n * CastWidth(r, at))
    <2>1. CastRefusals(r) = c  BY DEF CastRefusals
    <2>2. x1[2] # "none" /\ x2[2] # "none" /\ (~x2[1] => \A at \in {"src", "dst"} : Room(r, at, r.n * CastWidth(r, at)))
      OBVIOUS
    <2> HIDE DEF x1, x2
    <2>3. Listed(c) /\ 2 \in DOMAIN c /\ c[2] = x2  BY <2>2 DEF Listed
    <2> HIDE DEF c
    <2> QED BY <1>1, <2>1, <2>2, <2>3, NothingRefused
  <1>2. ASSUME why = "none", NEW u \in 0..(units - 1), NEW t \in Lane(u) PROVE Within(r, t)
    <2> DEFINE wide == Least(4, r.n - 4 * u)
    <2>1. PICK at \in {"src", "dst"} : t = Span(at, IF at = "src" THEN "read" ELSE "write", 4 * u, wide, CastWidth(r, at))
      BY <1>2
    <2>2. CastWidth(r, at) \in Nat \ {0}  BY DEF CastWidth
    <2>3. Holds(r, at, r.n, CastWidth(r, at))  BY <1>1, <1>2, <2>2, RoomHolds
    <2>4. u * 4 \in Nat /\ u * 4 < r.n /\ u \in Nat  BY BlockStarts
    <2>5. 4 * u \in Nat /\ wide \in Nat /\ 4 * u + wide <= r.n  BY <2>4 DEF Least
    <2> HIDE DEF wide
    <2> QED BY <2>1, <2>3, <2>5, SpanWithin
  <1>3. why = "none" => Confined(r, touches)  BY <1>2 DEF Confined
  <1> QED BY <1>3, OneLaunchConfined DEF CastEntry
----------------------------------------
(* In storage: vector-quantised arrays.                                    *)

VqCounts(r) ==
  LET packed == VqWords(r.m, r.group)
      book == Sizes.entries * r.group
  IN  CASE r.kind = "Encode" -> <<r.m, book, 0, 0, packed, 1>>
        [] r.kind = "Decode" -> <<packed, book, 0, 0, r.m, 1>>
        [] r.kind = "AdamW" -> <<4 * packed, 4 * book, 7, 0, 3 * r.m, 1>>
        [] r.kind = "Matmul" -> <<VqWords(r.m * r.k, r.group), book, VqWords(r.k * r.n, r.group), book, r.m * r.n, 1>>
VqShaped(r) ==
  /\ {r.m, r.n, r.k, r.group} \subseteq Nat \ {0} /\ r.kind \in {"Encode", "Decode", "AdamW", "Matmul"}
  /\ \A i \in 1..6 : Holds(r, VqSlots[i], VqCounts(r)[i], 4)

LEMMA VqWordsNat ==
  ASSUME NEW values \in Nat, NEW group \in Nat \ {0} PROVE VqWords(values, group) \in Nat
  <1>1. CeilDiv(values, group) \in Nat /\ Sizes.perWord \in Nat \ {0}
    BY CeilDivCovers, FactorAssumption DEF SizeFields
  <1> QED BY <1>1, CeilDivCovers DEF VqWords

LEMMA VqCountsBytes ==
  ASSUME NEW r, {r.m, r.n, r.k, r.group} \subseteq Nat \ {0}, r.kind \in {"Encode", "Decode", "AdamW", "Matmul"}, NEW i \in 1..6
  PROVE  VqCounts(r)[i] \in Nat /\ VqBytes(r)[i] = VqCounts(r)[i] * 4
  <1> DEFINE
      p == VqWords(r.m, r.group)
      pa == VqWords(r.m * r.k, r.group)
      pb == VqWords(r.k * r.n, r.group)
      book == Sizes.entries * r.group
      mn == r.m * r.n
  <1>1. r.m \in Nat /\ r.m * r.k \in Nat /\ r.k * r.n \in Nat /\ r.group \in Nat \ {0}  OBVIOUS
  <1>2. p \in Nat /\ pa \in Nat /\ pb \in Nat  BY <1>1, VqWordsNat
  <1>3. Sizes.entries \in Nat  BY FactorAssumption DEF SizeFields
  <1>4. book \in Nat /\ mn \in Nat /\ 4 * Sizes.entries * r.group = 4 * book /\ 4 * r.m * r.n = 4 * mn
    BY <1>1, <1>3
  <1>5. VqCounts(r) = CASE r.kind = "Encode" -> <<r.m, book, 0, 0, p, 1>>
                        [] r.kind = "Decode" -> <<p, book, 0, 0, r.m, 1>>
                        [] r.kind = "AdamW" -> <<4 * p, 4 * book, 7, 0, 3 * r.m, 1>>
                        [] r.kind = "Matmul" -> <<pa, book, pb, book, mn, 1>>
    BY DEF VqCounts
  <1>6. VqBytes(r) = CASE r.kind = "Encode" -> <<4 * r.m, 4 * book, 0, 0, 4 * p, 4>>
                       [] r.kind = "Decode" -> <<4 * p, 4 * book, 0, 0, 4 * r.m, 4>>
                       [] r.kind = "AdamW" -> <<4 * (4 * p), 4 * (4 * book), 28, 0, 3 * (4 * r.m), 4>>
                       [] r.kind = "Matmul" -> <<4 * pa, 4 * book, 4 * pb, 4 * book, 4 * mn, 4>>
    BY <1>4 DEF VqBytes
  <1> HIDE DEF p, pa, pb, book, mn
  <1>7. i \in {1, 2, 3, 4, 5, 6}  OBVIOUS
  <1>8. CASE r.kind = "Encode"  BY <1>1, <1>2, <1>4, <1>5, <1>6, <1>7, <1>8
  <1>9. CASE r.kind = "Decode"  BY <1>1, <1>2, <1>4, <1>5, <1>6, <1>7, <1>9
  <1>10. CASE r.kind = "AdamW"  BY <1>1, <1>2, <1>4, <1>5, <1>6, <1>7, <1>10
  <1>11. CASE r.kind = "Matmul"  BY <1>1, <1>2, <1>4, <1>5, <1>6, <1>7, <1>11
  <1> QED BY <1>8, <1>9, <1>10, <1>11

LEMMA VqAdmits ==
  ASSUME NEW r, Either(FirstOf(VqRefusals(r)), FirstOf(VqShares(r))) = "none", {r.m, r.n, r.k} \subseteq Nat,
         r.kind \in {"Encode", "Decode", "AdamW", "Matmul"}, Backed(r, {"b0", "b1", "b2", "b3", "out", "status"})
  PROVE  VqShaped(r)
  <1> DEFINE
      flat == r.kind # "Matmul"
      x1 == <<r.group \notin VqGroups \/ r.entries # Sizes.entries, "SHAPE">>
      x2 == <<~(r.flags \subseteq IF flat THEN {} ELSE {"A", "B"}), "SHAPE">>
      x3 == <<0 \in {r.m, r.n, r.k} \/ (flat /\ (r.n # 1 \/ r.k # 1)), "SHAPE">>
      x4 == <<~flat /\ \E n \in {r.m, r.n, r.k} : n > Sizes.side, "SHAPE">>
      x5 == <<flat /\ (IF r.kind = "AdamW" THEN 3 * r.m ELSE r.m) > Sizes.values, "SIZE">>
      x6 == <<~flat /\ (r.m * r.n * r.k > Sizes.macs \/ \E n \in VqProducts(r) : n > Sizes.values), "SIZE">>
      a == <<x1, x2, x3, x4, x5, x6>>
      inputs == {"b0", "b1", "b2", "b3"}
      groups == Folded(VqItems(r), Sizes.vqLanes)
      y1 == <<\E i \in DOMAIN VqSlots : ~Room(r, VqSlots[i], VqBytes(r)[i]), "SIZE">>
      y2 == <<Shared(r, {"out"}, inputs), "SHAPE">>
      y3 == <<Shared(r, {"status"}, inputs \cup {"out"}), "SHAPE">>
      y4 == <<\E axis \in 1..3 : groups[axis] \notin 1..r.deviceGroups, "SHAPE">>
      b == <<y1, y2, y3, y4>>
  <1>1. VqRefusals(r) = a /\ VqShares(r) = b  BY DEF VqRefusals, VqShares
  <1>2. /\ x1[2] # "none" /\ x2[2] # "none" /\ x3[2] # "none" /\ x4[2] # "none" /\ x5[2] # "none" /\ x6[2] # "none"
        /\ y1[2] # "none" /\ y2[2] # "none" /\ y3[2] # "none" /\ y4[2] # "none"
    OBVIOUS
  <1>3. /\ ~x1[1] => r.group \in VqGroups
        /\ ~x3[1] => 0 \notin {r.m, r.n, r.k}
        /\ ~y1[1] => \A i \in DOMAIN VqSlots : Room(r, VqSlots[i], VqBytes(r)[i])
    OBVIOUS
  <1> HIDE DEF x1, x2, x3, x4, x5, x6, y1, y2, y3, y4
  <1>4. Listed(a) /\ 1 \in DOMAIN a /\ 3 \in DOMAIN a /\ a[1] = x1 /\ a[3] = x3  BY <1>2 DEF Listed
  <1>5. Listed(b) /\ 1 \in DOMAIN b /\ b[1] = y1  BY <1>2 DEF Listed
  <1> HIDE DEF a, b
  <1>6. FirstOf(a) = "none" /\ FirstOf(b) = "none"  BY <1>1, BothRefuseNothing
  <1>7. ~x1[1] /\ ~x3[1] /\ ~y1[1]  BY <1>4, <1>5, <1>6, NothingRefused
  <1>8. {r.m, r.n, r.k, r.group} \subseteq Nat \ {0}  BY <1>3, <1>7, FactorAssumption
  <1>9. DOMAIN VqSlots = 1..6 /\ \A i \in 1..6 : VqSlots[i] \in {"b0", "b1", "b2", "b3", "out", "status"}
    BY DEF VqSlots
  <1>10. ASSUME NEW i \in 1..6 PROVE Holds(r, VqSlots[i], VqCounts(r)[i], 4)
    <2>1. VqCounts(r)[i] \in Nat /\ VqBytes(r)[i] = VqCounts(r)[i] * 4  BY <1>8, VqCountsBytes
    <2>2. Room(r, VqSlots[i], VqBytes(r)[i]) /\ 4 \in Nat \ {0}  BY <1>3, <1>7, <1>9
    <2>3. VqSlots[i] \in {"b0", "b1", "b2", "b3", "out", "status"}  BY <1>9
    <2> QED BY <2>1, <2>2, <2>3, RoomHolds
  <1> QED BY <1>8, <1>10 DEF VqShaped

\* Where a value's code and its element of the book are.
LEMMA CodeWord ==
  ASSUME NEW values \in Nat, NEW group \in Nat \ {0}, NEW logical \in 0..(values - 1)
  PROVE  (logical \div group) \div Sizes.perWord \in 0..(VqWords(values, group) - 1)
  <1> DEFINE v == logical \div group
             vs == CeilDiv(values, group)
  <1>1. v \in 0..(vs - 1) /\ vs \in Nat  BY BlockOf, CeilDivCovers
  <1>2. Sizes.perWord \in Nat \ {0}  BY FactorAssumption DEF SizeFields
  <1> HIDE DEF v, vs
  <1>3. v \div Sizes.perWord \in 0..(CeilDiv(vs, Sizes.perWord) - 1)  BY <1>1, <1>2, BlockOf
  <1> QED BY <1>3 DEF v, vs, VqWords

LEMMA UnpackedWithin ==
  ASSUME NEW r, r.group \in Nat \ {0}, NEW codes, NEW book, NEW values \in Nat, NEW logical \in 0..(values - 1),
         NEW base \in Nat, NEW bookBase \in Nat, NEW n, NEW m, Holds(r, codes, n, 4), Holds(r, book, m, 4),
         base + VqWords(values, r.group) <= n, bookBase + Sizes.entries * r.group <= m,
         NEW t \in Unpacked(r, codes, book, base, bookBase, logical)
  PROVE  Within(r, t)
  <1> DEFINE
      place == (logical \div r.group) \div Sizes.perWord
      words == VqWords(values, r.group)
      part == logical % r.group
      whole == Sizes.entries * r.group
  <1>1. place \in 0..(words - 1) /\ words \in Nat /\ n \in Nat /\ m \in Nat
    BY CodeWord, VqWordsNat DEF Holds
  <1>2. part \in Nat /\ part < r.group /\ Sizes.entries \in Nat /\ whole \in Nat
    <2>1. logical \in Nat /\ Sizes.entries \in Nat  BY FactorAssumption DEF SizeFields
    <2> QED BY <2>1, Division
  <1>3. t = WordTouch(codes, "read", base + place)
        \/ \E code \in 0..(Sizes.entries - 1) : t = WordTouch(book, "read", bookBase + code * r.group + part)
    BY DEF Unpacked
  <1> HIDE DEF place, words, part
  <1>4. base + place \in 0..(n - 1)  BY <1>1 DEF words
  <1>5. ASSUME NEW code \in 0..(Sizes.entries - 1) PROVE bookBase + code * r.group + part \in 0..(m - 1)
    <2>1. code * r.group + part \in Nat /\ code * r.group + part < whole  BY <1>2, Packed
    <2>2. code * r.group \in Nat  BY <1>2
    <2> HIDE DEF whole
    <2>3. bookBase + whole <= m  BY DEF whole
    <2> QED BY <1>1, <1>2, <2>1, <2>2, <2>3
  <1> QED BY <1>3, <1>4, <1>5, WordWithin

LEMMA VqSlotsHold ==
  ASSUME NEW r, VqShaped(r)
  PROVE  /\ Holds(r, "b0", VqCounts(r)[1], 4) /\ Holds(r, "b1", VqCounts(r)[2], 4) /\ Holds(r, "b2", VqCounts(r)[3], 4)
         /\ Holds(r, "b3", VqCounts(r)[4], 4) /\ Holds(r, "out", VqCounts(r)[5], 4) /\ Holds(r, "status", VqCounts(r)[6], 4)
  <1>1. /\ VqSlots[1] = "b0" /\ VqSlots[2] = "b1" /\ VqSlots[3] = "b2" /\ VqSlots[4] = "b3" /\ VqSlots[5] = "out"
        /\ VqSlots[6] = "status"
    BY DEF VqSlots
  <1>2. 1 \in 1..6 /\ 2 \in 1..6 /\ 3 \in 1..6 /\ 4 \in 1..6 /\ 5 \in 1..6 /\ 6 \in 1..6  OBVIOUS
  <1> QED BY <1>1, <1>2 DEF VqShaped

LEMMA BooksWithin ==
  ASSUME NEW r, VqShaped(r), NEW i, NEW t \in BookCheck(r, i) PROVE Within(r, t)
  <1> DEFINE
      values == (IF r.kind = "AdamW" THEN 4 ELSE 1) * Sizes.entries * r.group
      book == Sizes.entries * r.group
      wide == IF r.kind = "AdamW" THEN 4 * book ELSE book
  <1>1. Sizes.entries \in Nat /\ r.group \in Nat \ {0}  BY FactorAssumption DEF SizeFields, VqShaped
  <1>2. values = wide /\ book \in Nat  BY <1>1
  <1>3. \/ \E j \in 0..(values - 1) : t = WordTouch("b1", "read", j)
        \/ r.kind = "Matmul" /\ \E j \in 0..(values - 1) : t = WordTouch("b3", "read", j)
    BY DEF BookCheck
  <1>4. VqCounts(r)[2] = wide /\ (r.kind = "Matmul" => VqCounts(r)[4] = wide)  BY DEF VqShaped, VqCounts
  <1> HIDE DEF values, wide
  <1>5. Holds(r, "b1", wide, 4) /\ (r.kind = "Matmul" => Holds(r, "b3", wide, 4))  BY <1>4, VqSlotsHold
  <1> QED BY <1>2, <1>3, <1>5, WordWithin

LEMMA VqFlatWithin ==
  ASSUME NEW r, VqShaped(r), r.kind # "Matmul", NEW i \in 0..(VqItems(r) - 1), NEW t \in VqTouches(r, i)
  PROVE  Within(r, t)
  <1> DEFINE p == VqWords(r.m, r.group)
             book == Sizes.entries * r.group
  <1>1. r.m \in Nat \ {0} /\ r.group \in Nat \ {0} /\ Sizes.entries \in Nat /\ r.kind \in {"Encode", "Decode", "AdamW", "Matmul"}
    BY FactorAssumption DEF SizeFields, VqShaped
  <1>2. p \in Nat /\ book \in Nat /\ 0 + p <= p /\ 0 + book <= book
    <2>1. p \in Nat  BY <1>1, VqWordsNat
    <2>2. book \in Nat  BY <1>1
    <2> HIDE DEF p, book
    <2> QED BY <2>1, <2>2
  <1>3. CASE t \in BookCheck(r, i)  BY <1>3, BooksWithin
  <1>4. CASE t = WordTouch("status", "atomic", 0)
    <2>1. VqCounts(r)[6] = 1 /\ 0 \in 0..(1 - 1)  BY <1>1 DEF VqCounts
    <2>2. Holds(r, "status", 1, 4)  BY <2>1, VqSlotsHold
    <2> QED BY <1>4, <2>1, <2>2, WordWithin
  <1>5. CASE r.kind = "Encode" /\ t \notin BookCheck(r, i) /\ t # WordTouch("status", "atomic", 0)
    <2>1. VqCounts(r)[1] = r.m /\ VqCounts(r)[2] = book /\ VqCounts(r)[5] = p  BY <1>5 DEF VqCounts
    <2>2. Holds(r, "b0", r.m, 4) /\ Holds(r, "b1", book, 4) /\ Holds(r, "out", p, 4)
      BY <2>1, VqSlotsHold
    <2>3. i \in 0..(p - 1)  BY <1>5 DEF VqItems
    <2>4. \/ t = WordTouch("out", "write", i)
          \/ \E j \in 0..(book - 1) : t = WordTouch("b1", "read", j)
          \/ \E v \in 0..(CeilDiv(r.m, r.group) - 1) : \E j \in (v * r.group)..(Least(r.m, (v + 1) * r.group) - 1) :
               t = WordTouch("b0", "read", j)
      BY <1>5 DEF VqTouches
    <2>5. ASSUME NEW v \in 0..(CeilDiv(r.m, r.group) - 1), NEW j \in (v * r.group)..(Least(r.m, (v + 1) * r.group) - 1)
          PROVE  j \in 0..(r.m - 1)
      <3>1. CeilDiv(r.m, r.group) \in Nat  BY <1>1, CeilDivCovers
      <3>2. v * r.group \in Nat /\ (v + 1) * r.group \in Nat  BY <1>1, <3>1
      <3> QED BY <1>1, <3>2 DEF Least
    <2> HIDE DEF p, book
    <2> QED BY <2>2, <2>3, <2>4, <2>5, WordWithin
  <1>6. CASE r.kind = "Decode" /\ t \notin BookCheck(r, i) /\ t # WordTouch("status", "atomic", 0)
    <2>1. VqCounts(r)[1] = p /\ VqCounts(r)[2] = book /\ VqCounts(r)[5] = r.m  BY <1>6 DEF VqCounts
    <2>2. Holds(r, "b0", p, 4) /\ Holds(r, "b1", book, 4) /\ Holds(r, "out", r.m, 4)
      BY <2>1, VqSlotsHold
    <2>3. i \in 0..(r.m - 1) /\ 0 \in Nat /\ r.m \in Nat  BY <1>1, <1>6 DEF VqItems
    <2>4. t = WordTouch("out", "write", i) \/ t \in Unpacked(r, "b0", "b1", 0, 0, i)
      BY <1>6 DEF VqTouches
    <2>5. CASE t \in Unpacked(r, "b0", "b1", 0, 0, i)  BY <1>1, <1>2, <2>2, <2>3, <2>5, UnpackedWithin
    <2> QED BY <2>2, <2>3, <2>4, <2>5, WordWithin
  <1>7. CASE r.kind = "AdamW" /\ t \notin BookCheck(r, i) /\ t # WordTouch("status", "atomic", 0)
    <2>1. VqCounts(r)[1] = 4 * p /\ VqCounts(r)[2] = 4 * book /\ VqCounts(r)[3] = 7 /\ VqCounts(r)[5] = 3 * r.m
      BY <1>7 DEF VqCounts
    <2>2. Holds(r, "b0", 4 * p, 4) /\ Holds(r, "b1", 4 * book, 4) /\ Holds(r, "b2", 7, 4) /\ Holds(r, "out", 3 * r.m, 4)
      BY <2>1, VqSlotsHold
    <2>3. i \in 0..(r.m - 1) /\ r.m \in Nat  BY <1>1, <1>7 DEF VqItems
    <2>4. \/ t = WordTouch("out", "write", i) \/ t = WordTouch("out", "write", r.m + i) \/ t = WordTouch("out", "write", 2 * r.m + i)
          \/ \E j \in 0..6 : t = WordTouch("b2", "read", j)
          \/ \E state \in 0..3 : t \in Unpacked(r, "b0", "b1", state * p, state * Sizes.entries * r.group, i)
      BY <1>7 DEF VqTouches
    <2>5. {i, r.m + i, 2 * r.m + i} \subseteq 0..(3 * r.m - 1) /\ 0..6 = 0..(7 - 1)  BY <1>1, <2>3
    <2>6. ASSUME NEW state \in 0..3, t \in Unpacked(r, "b0", "b1", state * p, state * Sizes.entries * r.group, i)
          PROVE  Within(r, t)
      <3> HIDE DEF p
      <3>1. state * Sizes.entries * r.group = state * book /\ state \in Nat  BY <1>1
      <3> HIDE DEF book
      <3>2. state * p \in Nat /\ state * p + p <= 4 * p /\ state * book \in Nat /\ state * book + book <= 4 * book
        <4>1. state \in Nat /\ 4 \in Nat /\ state < 4  OBVIOUS
        <4> QED BY <1>2, <4>1, NextRow
      <3>3. t \in Unpacked(r, "b0", "b1", state * p, state * book, i)  BY <2>6, <3>1
      <3> QED BY <1>1, <2>2, <2>3, <3>2, <3>3, UnpackedWithin DEF p, book
    <2> HIDE DEF p, book
    <2> QED BY <2>2, <2>4, <2>5, <2>6, WordWithin
  <1>8. t \notin BookCheck(r, i) /\ t # WordTouch("status", "atomic", 0) => r.kind \in {"Encode", "Decode", "AdamW"}
    BY <1>1
  <1> QED BY <1>3, <1>4, <1>5, <1>6, <1>7, <1>8

LEMMA VqMatmulWithin ==
  ASSUME NEW r, VqShaped(r), r.kind = "Matmul", NEW i \in 0..(VqItems(r) - 1), NEW t \in VqTouches(r, i)
  PROVE  Within(r, t)
  <1> DEFINE
      pa == VqWords(r.m * r.k, r.group)
      pb == VqWords(r.k * r.n, r.group)
      book == Sizes.entries * r.group
      row == i \div r.n
      col == i % r.n
      A(inner) == IF "A" \in r.flags THEN inner * r.m + row ELSE row * r.k + inner
      B(inner) == IF "B" \in r.flags THEN col * r.k + inner ELSE inner * r.n + col
  <1>1. {r.m, r.n, r.k, r.group} \subseteq Nat \ {0} /\ Sizes.entries \in Nat /\ r.m * r.k \in Nat /\ r.k * r.n \in Nat
    BY FactorAssumption DEF SizeFields, VqShaped
  <1>2. pa \in Nat /\ pb \in Nat /\ book \in Nat /\ 0 + pa <= pa /\ 0 + pb <= pb /\ 0 + book <= book /\ 0 \in Nat
    <2>1. pa \in Nat /\ pb \in Nat  BY <1>1, VqWordsNat
    <2>2. book \in Nat  BY <1>1
    <2> HIDE DEF pa, pb, book
    <2> QED BY <2>1, <2>2
  <1>3. /\ VqCounts(r)[1] = pa /\ VqCounts(r)[2] = book /\ VqCounts(r)[3] = pb /\ VqCounts(r)[4] = book
        /\ VqCounts(r)[5] = r.m * r.n /\ VqCounts(r)[6] = 1
    BY DEF VqCounts
  <1>4. /\ Holds(r, "b0", pa, 4) /\ Holds(r, "b1", book, 4) /\ Holds(r, "b2", pb, 4) /\ Holds(r, "b3", book, 4)
        /\ Holds(r, "out", r.m * r.n, 4) /\ Holds(r, "status", 1, 4)
    BY <1>3, VqSlotsHold
  <1>5. i \in 0..(r.m * r.n - 1)  BY DEF VqItems
  <1>6. i \in Nat /\ i < r.m * r.n  BY <1>1, <1>5
  <1>7. row \in 0..(r.m - 1) /\ col \in 0..(r.n - 1)  BY <1>1, <1>6, RowOf
  <1>8. \/ t = WordTouch("status", "atomic", 0) \/ t \in BookCheck(r, i) \/ t = WordTouch("out", "write", i)
        \/ \E inner \in 0..(r.k - 1) : t \in Unpacked(r, "b0", "b1", 0, 0, A(inner)) \/ t \in Unpacked(r, "b2", "b3", 0, 0, B(inner))
    BY DEF VqTouches
  <1> HIDE DEF row, col, pa, pb, book
  <1>9. ASSUME NEW inner \in 0..(r.k - 1) PROVE A(inner) \in 0..(r.m * r.k - 1) /\ B(inner) \in 0..(r.k * r.n - 1)
    <2>1. inner * r.m + row \in Nat /\ inner * r.m + row < r.k * r.m /\ row * r.k + inner \in Nat /\ row * r.k + inner < r.m * r.k
      BY <1>1, <1>7, Packed
    <2>2. col * r.k + inner \in Nat /\ col * r.k + inner < r.n * r.k /\ inner * r.n + col \in Nat /\ inner * r.n + col < r.k * r.n
      BY <1>1, <1>7, Packed
    <2>3. r.k * r.m = r.m * r.k /\ r.n * r.k = r.k * r.n  BY <1>1
    <2> QED BY <1>1, <2>1, <2>2, <2>3
  <1> HIDE DEF A, B
  <1>10. ASSUME NEW inner \in 0..(r.k - 1), t \in Unpacked(r, "b0", "b1", 0, 0, A(inner)) PROVE Within(r, t)
    BY <1>1, <1>2, <1>4, <1>9, <1>10, UnpackedWithin DEF pa, book
  <1>11. ASSUME NEW inner \in 0..(r.k - 1), t \in Unpacked(r, "b2", "b3", 0, 0, B(inner)) PROVE Within(r, t)
    BY <1>1, <1>2, <1>4, <1>9, <1>11, UnpackedWithin DEF pb, book
  <1>12. 0 \in 0..(1 - 1)  OBVIOUS
  <1> QED BY <1>4, <1>5, <1>8, <1>10, <1>11, <1>12, BooksWithin, WordWithin

LEMMA VqConfined ==
  ASSUME plan = VqEntry(request), {request.m, request.n, request.k} \subseteq Nat,
         request.kind \in {"Encode", "Decode", "AdamW", "Matmul"},
         Backed(request, {"b0", "b1", "b2", "b3", "out", "status"})
  PROVE  AccessesInStorage
  <1> DEFINE
      r == request
      why == Either(FirstOf(VqRefusals(r)), FirstOf(VqShares(r)))
      touches == [i \in 0..(VqItems(r) - 1) |-> VqTouches(r, i)]
  <1>1. why = "none" => Confined(r, touches)  BY VqAdmits, VqFlatWithin, VqMatmulWithin DEF Confined
  <1> QED BY <1>1, OneLaunchConfined DEF VqEntry
----------------------------------------
(* In storage: expert factors, whose words are named with their binding.   *)

Housed(r, w) ==
  w[1] \in DOMAIN r.storage /\ r.storage[w[1]].capacity \in Nat /\ w[2] \in Nat /\ w[2] < CeilDiv(r.storage[w[1]].capacity, 4)

LEMMA HousedWithin ==
  ASSUME NEW r, NEW w, Housed(r, w), NEW how, NEW t, t = WordTouch(w[1], how, w[2]) PROVE Within(r, t)
  <1>1. t.at = w[1] /\ t.first = w[2] * 4 /\ t.last = w[2] * 4 + 4 - 1  BY DEF WordTouch, Touch
  <1> DEFINE words == CeilDiv(r.storage[w[1]].capacity, 4)
  <1>2. w[2] \in Nat /\ w[2] < words  BY DEF Housed
  <1>3. words \in Int  BY DEF CeilDiv, Housed
  <1> QED BY <1>1, <1>2, <1>3 DEF Within, Housed

LEMMA BytesHoused ==
  ASSUME NEW r, NEW bindings, Backed(r, bindings), NEW at \in bindings, NEW n \in Nat, Room(r, at, n),
         NEW word \in 0..(CeilDiv(n, 4) - 1)
  PROVE  Housed(r, <<at, word>>)
  <1> DEFINE cap == r.storage[at].capacity
  <1>1. at \in DOMAIN r.storage /\ cap \in Nat /\ n <= cap  BY DEF Backed, Room
  <1> HIDE DEF cap
  <1>2. CeilDiv(n, 4) \in Int /\ word \in Nat /\ word < CeilDiv(cap, 4)  BY <1>1 DEF CeilDiv
  <1> QED BY <1>1, <1>2 DEF Housed, cap

LEMMA WordsHoused ==
  ASSUME NEW r, NEW bindings, Backed(r, bindings), NEW at \in bindings, NEW n \in Nat, NEW bytes, bytes = 4 * n, Room(r, at, bytes),
         NEW word \in 0..(n - 1)
  PROVE  Housed(r, <<at, word>>)
  <1>1. 4 * n \in Nat /\ CeilDiv(4 * n, 4) = n  BY DEF CeilDiv
  <1> QED BY <1>1, BytesHoused

FactorKinds == {"LatentForward", "PackedForward", "LatentBackward", "PackedBackwardRow", "PackedBackwardCol"}
FactorShaped(r) ==
  /\ {r.experts, r.p, r.m, r.r} \subseteq Nat \ {0} /\ {r.r8, r.ld, r.off} \subseteq Nat /\ r.kind \in FactorKinds
  /\ r.ld % 2 = 0 /\ r.r <= r.r8 /\ r.off + r.r8 <= r.ld
  /\ \A at \in FactorRoles : Room(r, at, FactorBytes(r, at))

LEMMA FactorAdmits ==
  ASSUME NEW r, Either(FirstOf(FactorRefusals(r)), FirstOf(FactorShares(r))) = "none", r.kind \in FactorKinds,
         {r.experts, r.p, r.m, r.r, r.r8, r.ld, r.off} \subseteq Nat
  PROVE  FactorShaped(r)
  <1> DEFINE
      units == IF r.kind = "PackedBackwardCol" THEN r.p * r.r ELSE r.p * r.m
      groups == CeilDiv(units, Sizes.factorLanes)
      sizes == {r.p * r.m * r.ld, r.experts * r.m * r.r, r.experts * r.m * Packs(r), r.p * r.m * r.r}
      x1 == <<0 \in {r.experts, r.p, r.m, r.r}, "SHAPE">>
      x2 == <<~(r.flags \subseteq {"Row", "Col", "Int8"}), "SHAPE">>
      x3 == <<"Int8" \in r.flags /\ Latent(r), "SHAPE">>
      x4 == <<r.r > Sizes.rank, "SHAPE">>
      x5 == <<r.r8 % 8 # 0 \/ r.r8 \notin r.r..(r.r + 7), "SHAPE">>
      x6 == <<r.ld % 2 # 0 \/ r.off % 2 # 0 \/ r.off + r.r8 > r.ld, "SHAPE">>
      x7 == <<"Row" \notin r.flags /\ ("Col" \in r.flags \/ r.kind = "PackedBackwardCol"), "SHAPE">>
      x8 == <<\E n \in sizes : n > Sizes.factors, "SIZE">>
      x9 == <<CeilDiv(groups, Most(Least(groups, MaxGroups), 1)) > MaxGroups, "SIZE">>
      a == <<x1, x2, x3, x4, x5, x6, x7, x8, x9>>
      needs == [at \in FactorRoles |-> FactorBytes(r, at)]
      y1 == <<Lacks(r, needs), "SIZE">>
      y2 == <<Shared(r, FactorWrites(r), {"src", "ids", "row", "col"} \cup IF Forward(r) THEN {} ELSE {"factor"}), "SHAPE">>
      b == <<y1, y2>>
  <1>1. FactorRefusals(r) = a /\ FactorShares(r) = b  BY DEF FactorRefusals, FactorShares
  <1>2. /\ x1[2] # "none" /\ x2[2] # "none" /\ x3[2] # "none" /\ x4[2] # "none" /\ x5[2] # "none" /\ x6[2] # "none"
        /\ x7[2] # "none" /\ x8[2] # "none" /\ x9[2] # "none" /\ y1[2] # "none" /\ y2[2] # "none"
    OBVIOUS
  <1>3. /\ ~x1[1] => 0 \notin {r.experts, r.p, r.m, r.r}
        /\ ~x5[1] => r.r8 \in r.r..(r.r + 7)
        /\ ~x6[1] => r.ld % 2 = 0 /\ ~(r.off + r.r8 > r.ld)
        /\ ~y1[1] => ~Lacks(r, needs)
    OBVIOUS
  <1> HIDE DEF x1, x2, x3, x4, x5, x6, x7, x8, x9, y1, y2
  <1>4. Listed(a) /\ 1 \in DOMAIN a /\ 5 \in DOMAIN a /\ 6 \in DOMAIN a /\ a[1] = x1 /\ a[5] = x5 /\ a[6] = x6
    BY <1>2 DEF Listed
  <1>5. Listed(b) /\ 1 \in DOMAIN b /\ b[1] = y1  BY <1>2 DEF Listed
  <1> HIDE DEF a, b
  <1>6. FirstOf(a) = "none" /\ FirstOf(b) = "none"  BY <1>1, BothRefuseNothing
  <1>7. ~x1[1] /\ ~x5[1] /\ ~x6[1] /\ ~y1[1]  BY <1>4, <1>5, <1>6, NothingRefused
  <1>8. \A at \in FactorRoles : Room(r, at, FactorBytes(r, at))  BY <1>3, <1>7 DEF Lacks
  <1>9. r.r <= r.r8 /\ r.off + r.r8 <= r.ld  BY <1>3, <1>7
  <1> QED BY <1>3, <1>7, <1>8, <1>9 DEF FactorShaped

\* An entry's word of a factor.
LEMMA FactorWordHoused ==
  ASSUME NEW r, FactorShaped(r), Backed(r, FactorRoles), NEW q \in 0..(r.p - 1), NEW m \in 0..(r.m - 1), NEW c \in 0..(r.r8 - 1)
  PROVE  Housed(r, <<"factor", FactorWord(r, q, m, c)>>)
  <1> DEFINE
      h == r.ld \div 2
      own == q * r.m + m
      rows == r.p * r.m
      e == own * r.ld + r.off + c
      n == rows * h
  <1>1. {r.p, r.m, r.r8, r.ld, r.off} \subseteq Nat /\ r.ld % 2 = 0 /\ r.off + r.r8 <= r.ld
    BY DEF FactorShaped
  <1>2. h \in Nat /\ r.ld = 2 * h  BY <1>1
  <1>3. own \in Nat /\ own < rows /\ rows \in Nat  BY <1>1, Packed
  <1> HIDE DEF own, rows
  <1>4. own * r.ld + (r.off + c) \in Nat /\ own * r.ld + (r.off + c) < rows * r.ld /\ own * r.ld \in Nat
    <2>1. r.off + c \in Nat /\ r.off + c < r.ld  BY <1>1
    <2>2. own * r.ld \in Nat  BY <1>1, <1>3
    <2> QED BY <1>1, <1>3, <2>1, <2>2, Packed
  <1>5. rows * r.ld = 2 * n /\ n \in Nat  BY <1>2, <1>3
  <1>6. e \in Nat /\ e < 2 * n  BY <1>1, <1>4, <1>5
  <1> HIDE DEF e, n
  <1>7. e \div 2 \in 0..(n - 1)  BY <1>5, <1>6
  <1>8. FactorWord(r, q, m, c) = e \div 2  BY DEF FactorWord, e, own
  <1>9. FactorBytes(r, "factor") = 4 * n
    <2>1. FactorBytes(r, "factor") = 2 * r.p * r.m * r.ld  BY DEF FactorBytes
    <2>2. 2 * r.p * r.m * r.ld = 2 * (rows * r.ld)  BY <1>1 DEF rows
    <2> QED BY <1>5, <2>1, <2>2
  <1>10. "factor" \in FactorRoles /\ Room(r, "factor", FactorBytes(r, "factor"))
    BY DEF FactorShaped, FactorRoles
  <1> QED BY <1>5, <1>7, <1>8, <1>9, <1>10, WordsHoused

\* The word a sign is in.
LEMMA SignHoused ==
  ASSUME NEW r, FactorShaped(r), Backed(r, FactorRoles), NEW e \in 0..(r.experts - 1), NEW m \in 0..(r.m - 1), NEW c \in 0..(r.r - 1)
  PROVE  Housed(r, <<"src", SignWord(r, e, m, c)>>)
  <1> DEFINE
      rows == r.experts * r.m
      own == e * r.m + m
      n == rows * r.r
      packed == rows * Packs(r)
  <1>1. {r.experts, r.m, r.r} \subseteq Nat \ {0}  BY DEF FactorShaped
  <1>2. own \in Nat /\ own < rows /\ rows \in Nat  BY <1>1, Packed
  <1>3. Packs(r) \in Nat /\ c \div 8 \in 0..(Packs(r) - 1)
    <2>1. 8 \in Nat \ {0} /\ r.r \in Nat /\ Packs(r) = CeilDiv(r.r, 8)  BY <1>1 DEF Packs
    <2> QED BY <2>1, CeilDivCovers, BlockOf
  <1>4. "src" \in FactorRoles /\ Room(r, "src", FactorBytes(r, "src"))  BY DEF FactorShaped, FactorRoles
  <1>5. FactorBytes(r, "src") = rows * (CASE Latent(r) -> 4 * r.r [] ~Latent(r) /\ "Int8" \in r.flags -> r.r [] OTHER -> Packs(r))
    BY DEF FactorBytes
  <1>6. SignWord(r, e, m, c) = CASE Latent(r) -> own * r.r + c [] ~Latent(r) /\ "Int8" \in r.flags -> (own * r.r + c) \div 4
                                 [] OTHER -> (own * Packs(r) + c \div 8) \div 4
    BY DEF SignWord
  <1> HIDE DEF own, rows
  <1>7. own * r.r + c \in 0..(n - 1) /\ n \in Nat
    <2>1. own * r.r + c \in Nat /\ own * r.r + c < n /\ n \in Nat  BY <1>1, <1>2, Packed
    <2> QED BY <2>1
  <1>8. own * Packs(r) + c \div 8 \in 0..(packed - 1) /\ packed \in Nat
    <2> DEFINE k == c \div 8
    <2> HIDE DEF k
    <2>1. own * Packs(r) + k \in Nat /\ own * Packs(r) + k < packed /\ packed \in Nat
      BY <1>2, <1>3, Packed DEF k
    <2> QED BY <2>1 DEF k
  <1>9. CASE Latent(r)
    <2>1. SignWord(r, e, m, c) = own * r.r + c /\ FactorBytes(r, "src") = rows * (4 * r.r)
      BY <1>5, <1>6, <1>9
    <2>2. rows * (4 * r.r) = 4 * n  BY <1>1, <1>2
    <2> HIDE DEF n
    <2> QED BY <1>4, <1>7, <2>1, <2>2, WordsHoused
  <1>10. CASE ~Latent(r) /\ "Int8" \in r.flags
    <2>1. SignWord(r, e, m, c) = (own * r.r + c) \div 4 /\ FactorBytes(r, "src") = n
      BY <1>5, <1>6, <1>10
    <2>2. (own * r.r + c) \div 4 \in 0..(CeilDiv(n, 4) - 1)
      <3> HIDE DEF n
      <3> QED BY <1>7, BlockOf, 4 \in Nat \ {0}
    <2> HIDE DEF n
    <2> QED BY <1>4, <1>7, <2>1, <2>2, BytesHoused
  <1>11. CASE ~Latent(r) /\ "Int8" \notin r.flags
    <2>1. SignWord(r, e, m, c) = (own * Packs(r) + c \div 8) \div 4 /\ FactorBytes(r, "src") = packed
      BY <1>5, <1>6, <1>11
    <2>2. (own * Packs(r) + c \div 8) \div 4 \in 0..(CeilDiv(packed, 4) - 1)
      <3> DEFINE k == own * Packs(r) + c \div 8
      <3>0. packed \in Nat /\ 4 \in Nat \ {0}  BY <1>8
      <3>1. k \in 0..(packed - 1)  BY <1>8
      <3> HIDE DEF packed, k
      <3>2. k \div 4 \in 0..(CeilDiv(packed, 4) - 1)  BY <3>1, <3>0, BlockOf
      <3> QED BY <3>2 DEF k
    <2> HIDE DEF packed
    <2> QED BY <1>4, <1>8, <2>1, <2>2, BytesHoused
  <1> QED BY <1>9, <1>10, <1>11

\* The scales, and what is written of them.
LEMMA ScalesHoused ==
  ASSUME NEW r, FactorShaped(r), Backed(r, FactorRoles), NEW q \in 0..(r.p - 1)
  PROVE  /\ \A m \in 0..(r.m - 1) : \A w \in RowScale(r, q, m) : Housed(r, w)
         /\ \A c \in 0..(r.r - 1) : \A w \in ColScale(r, q, c) : Housed(r, w)
  <1> DEFINE n == r.p * r.m
             k == r.p * r.r
  <1>1. {r.p, r.m, r.r} \subseteq Nat \ {0} /\ n \in Nat /\ k \in Nat  BY DEF FactorShaped
  <1>2. {"row", "col"} \subseteq FactorRoles /\ Room(r, "row", FactorBytes(r, "row")) /\ Room(r, "col", FactorBytes(r, "col"))
    BY DEF FactorShaped, FactorRoles
  <1>3. /\ "Row" \in r.flags => FactorBytes(r, "row") = 4 * n
        /\ "Col" \in r.flags => FactorBytes(r, "col") = 4 * k
    <2>1. 4 * r.p * r.m = 4 * n /\ 4 * r.p * r.r = 4 * k  BY <1>1
    <2> HIDE DEF n, k
    <2> QED BY <2>1 DEF FactorBytes
  <1>4. ASSUME NEW m \in 0..(r.m - 1), NEW w \in RowScale(r, q, m) PROVE Housed(r, w)
    <2>1. "Row" \in r.flags /\ w = <<"row", q * r.m + m>>  BY <1>4 DEF RowScale
    <2>2. q * r.m + m \in Nat /\ q * r.m + m < n  BY <1>1, Packed
    <2>3. q * r.m + m \in 0..(n - 1)  BY <1>1, <2>2
    <2> HIDE DEF n
    <2> QED BY <1>1, <1>2, <1>3, <2>1, <2>3, WordsHoused
  <1>5. ASSUME NEW c \in 0..(r.r - 1), NEW w \in ColScale(r, q, c) PROVE Housed(r, w)
    <2>1. "Col" \in r.flags /\ w = <<"col", q * r.r + c>>  BY <1>5 DEF ColScale
    <2>2. q * r.r + c \in Nat /\ q * r.r + c < k  BY <1>1, Packed
    <2>3. q * r.r + c \in 0..(k - 1)  BY <1>1, <2>2
    <2> HIDE DEF k
    <2> QED BY <1>1, <1>2, <1>3, <2>1, <2>3, WordsHoused
  <1> QED BY <1>4, <1>5

\* The words a unit reads, and those it writes.
LEMMA FactorUses ==
  ASSUME NEW r, FactorShaped(r), Backed(r, FactorRoles), NEW q \in 0..(r.p - 1), Routed(r, q)
  PROVE  /\ \A m \in 0..(r.m - 1) : \A w \in EntryWords(r, q, m) : Housed(r, w)
         /\ \A c \in 0..(r.r - 1) : \A w \in ColumnWords(r, q, c) : Housed(r, w)
  <1>1. Expert(r, q) \in 0..(r.experts - 1) /\ \A c \in 0..(r.r - 1) : c \in 0..(r.r8 - 1)
    BY DEF Routed, FactorShaped
  <1>2. ASSUME NEW m \in 0..(r.m - 1), NEW w \in EntryWords(r, q, m) PROVE Housed(r, w)
    <2>1. PICK c \in 0..(r.r - 1) : \/ w = <<"src", SignWord(r, Expert(r, q), m, c)>> \/ w \in ColScale(r, q, c)
                                    \/ w \in RowScale(r, q, m) \/ w = <<"factor", FactorWord(r, q, m, c)>>
      BY <1>2 DEF EntryWords, Signed
    <2> QED BY <1>1, <2>1, SignHoused, ScalesHoused, FactorWordHoused
  <1>3. ASSUME NEW c \in 0..(r.r - 1), NEW w \in ColumnWords(r, q, c) PROVE Housed(r, w)
    <2>1. PICK m \in 0..(r.m - 1) : \/ w = <<"src", SignWord(r, Expert(r, q), m, c)>>
                                    \/ w \in RowScale(r, q, m) \/ w = <<"factor", FactorWord(r, q, m, c)>>
      BY <1>3 DEF ColumnWords, Signed
    <2> QED BY <1>1, <2>1, SignHoused, ScalesHoused, FactorWordHoused
  <1> QED BY <1>2, <1>3

LEMMA FactorMakes ==
  ASSUME NEW r, FactorShaped(r), Backed(r, FactorRoles), r.kind # "PackedBackwardCol",
         NEW q \in 0..(r.p - 1), NEW m \in 0..(r.m - 1), NEW w \in EntryWrites(r, q, m)
  PROVE  Housed(r, w)
  <1> DEFINE
      own == q * r.m + m
      n == r.p * r.m
      both == n * r.r
      rows == r.experts * r.m
      latent == rows * r.r
  <1>1. {r.experts, r.p, r.m, r.r} \subseteq Nat \ {0} /\ r.kind \in FactorKinds  BY DEF FactorShaped
  <1>2. own \in Nat /\ own < n /\ n \in Nat /\ rows \in Nat  BY <1>1, Packed
  <1>3. {"out_a", "out_b"} \subseteq FactorRoles /\ Room(r, "out_a", FactorBytes(r, "out_a")) /\ Room(r, "out_b", FactorBytes(r, "out_b"))
    BY DEF FactorShaped, FactorRoles
  <1>4. 4 * r.p * r.m = 4 * n /\ 4 * r.p * r.m * r.r = 4 * both /\ 4 * rows * r.r = 4 * latent /\ both \in Nat /\ latent \in Nat
    BY <1>1, <1>2
  <1> HIDE DEF own
  <1>5. CASE Forward(r)
    <2>1. w \in {<<"factor", FactorWord(r, q, m, c)>> : c \in 0..(r.r8 - 1)}
      <3>1. r.kind # "PackedBackwardRow" /\ r.kind # "LatentBackward"  BY <1>5 DEF Forward
      <3> QED BY <1>5, <3>1 DEF EntryWrites
    <2> QED BY <2>1, FactorWordHoused
  <1>6. CASE r.kind = "PackedBackwardRow"
    <2>1. w = <<"out_a", own>>  BY <1>6 DEF EntryWrites, Forward, own
    <2>2. FactorBytes(r, "out_a") = 4 * n /\ own \in 0..(n - 1)  BY <1>2, <1>4, <1>6 DEF FactorBytes
    <2> HIDE DEF n
    <2> QED BY <1>2, <1>3, <2>1, <2>2, WordsHoused
  <1>7. CASE r.kind = "LatentBackward"
    <2>1. \/ {"Row", "Col"} \subseteq r.flags /\ \E c \in 0..(r.r - 1) : w = <<"out_b", own * r.r + c>>
          \/ "Row" \in r.flags /\ ~({"Row", "Col"} \subseteq r.flags) /\ w = <<"out_b", own>>
          \/ Routed(r, q) /\ \E c \in 0..(r.r - 1) : w = <<"out_a", (Expert(r, q) * r.m + m) * r.r + c>>
      BY <1>7 DEF EntryWrites, Forward, own
    <2>2. CASE {"Row", "Col"} \subseteq r.flags /\ \E c \in 0..(r.r - 1) : w = <<"out_b", own * r.r + c>>
      <3>1. PICK c \in 0..(r.r - 1) : w = <<"out_b", own * r.r + c>>  BY <2>2
      <3>2. FactorBytes(r, "out_b") = 4 * both  BY <1>4, <1>7, <2>2 DEF FactorBytes
      <3>3. own * r.r + c \in Nat /\ own * r.r + c < both
        <4> HIDE DEF n
        <4> QED BY <1>1, <1>2, Packed
      <3> HIDE DEF both
      <3>4. own * r.r + c \in 0..(both - 1)  BY <1>4, <3>3
      <3> QED BY <1>3, <1>4, <3>1, <3>2, <3>4, WordsHoused
    <2>3. CASE "Row" \in r.flags /\ ~({"Row", "Col"} \subseteq r.flags) /\ w = <<"out_b", own>>
      <3>1. FactorBytes(r, "out_b") = 4 * n
        <4>1. FactorBytes(r, "out_b") = 4 * r.p * r.m * 1  BY <1>7, <2>3 DEF FactorBytes
        <4>2. 4 * r.p * r.m * 1 = 4 * r.p * r.m  BY <1>1
        <4> QED BY <1>4, <4>1, <4>2
      <3>2. own \in 0..(n - 1)  BY <1>2
      <3> HIDE DEF n
      <3> QED BY <1>2, <1>3, <2>3, <3>1, <3>2, WordsHoused
    <2>4. CASE Routed(r, q) /\ \E c \in 0..(r.r - 1) : w = <<"out_a", (Expert(r, q) * r.m + m) * r.r + c>>
      <3> DEFINE e == Expert(r, q) * r.m + m
      <3>1. PICK c \in 0..(r.r - 1) : w = <<"out_a", e * r.r + c>>  BY <2>4
      <3>2. FactorBytes(r, "out_a") = 4 * latent  BY <1>4, <1>7 DEF FactorBytes
      <3>3. e \in Nat /\ e < rows
        <4>1. Expert(r, q) \in 0..(r.experts - 1)  BY <2>4 DEF Routed
        <4> QED BY <1>1, <4>1, Packed
      <3> HIDE DEF e, rows
      <3>4. e * r.r + c \in Nat /\ e * r.r + c < latent  BY <1>1, <1>2, <3>3, Packed
      <3> HIDE DEF latent
      <3>5. e * r.r + c \in 0..(latent - 1)  BY <1>4, <3>4
      <3> QED BY <1>3, <1>4, <3>1, <3>2, <3>5, WordsHoused
    <2> QED BY <2>1, <2>2, <2>3, <2>4
  <1>8. Forward(r) \/ r.kind = "PackedBackwardRow" \/ r.kind = "LatentBackward"
    BY <1>1 DEF FactorKinds, Forward
  <1> QED BY <1>5, <1>6, <1>7, <1>8

FactorUnits(r) == IF r.kind = "PackedBackwardCol" THEN r.p * r.r ELSE r.p * r.m
LEMMA FactorWithin ==
  ASSUME NEW r, FactorShaped(r), Backed(r, FactorRoles), NEW u \in 0..(FactorUnits(r) - 1), NEW t \in FactorTouches(r, u)
  PROVE  Within(r, t)
  <1> DEFINE
      column == r.kind = "PackedBackwardCol"
      side == IF column THEN r.r ELSE r.m
      q == u \div side
      i == u % side
      used == IF ~Routed(r, q) THEN {} ELSE IF column THEN ColumnWords(r, q, i) ELSE EntryWords(r, q, i)
      made == IF column THEN {<<"out_a", u>>} ELSE EntryWrites(r, q, i)
  <1>1. side \in Nat \ {0} /\ r.p \in Nat \ {0} /\ FactorUnits(r) = r.p * side
    BY DEF FactorShaped, FactorUnits
  <1>2. u \in Nat /\ u < r.p * side  BY <1>1
  <1>3. q \in 0..(r.p - 1) /\ i \in 0..(side - 1)  BY <1>1, <1>2, RowOf
  <1>4. \/ t = ElementTouch("ids", "read", q, 8)
        \/ \E w \in used : t = WordTouch(w[1], "read", w[2])
        \/ \E w \in made : t = WordTouch(w[1], "write", w[2])
    BY DEF FactorTouches
  <1> HIDE DEF q, i
  <1>5. CASE t = ElementTouch("ids", "read", q, 8)
    <2>1. "ids" \in FactorRoles /\ Room(r, "ids", FactorBytes(r, "ids")) /\ FactorBytes(r, "ids") = r.p * 8 /\ 8 \in Nat \ {0}
      BY <1>1 DEF FactorShaped, FactorRoles, FactorBytes
    <2>2. Holds(r, "ids", r.p, 8)  BY <1>1, <2>1, RoomHolds
    <2> QED BY <1>3, <1>5, <2>2, ElementWithin
  <1>6. \A w \in used : Housed(r, w)  BY <1>3, FactorUses
  <1>7. \A w \in made : Housed(r, w)
    <2>1. CASE column
      <3> DEFINE n == r.p * r.r
      <3>1. n \in Nat /\ u \in 0..(n - 1) /\ 4 * r.p * r.r = 4 * n
        BY <1>1, <2>1 DEF FactorShaped, FactorUnits
      <3> HIDE DEF n
      <3>2. "out_a" \in FactorRoles /\ Room(r, "out_a", FactorBytes(r, "out_a")) /\ FactorBytes(r, "out_a") = 4 * n
        BY <2>1, <3>1 DEF FactorShaped, FactorRoles, FactorBytes
      <3> QED BY <2>1, <3>1, <3>2, WordsHoused
    <2>2. CASE ~column  BY <1>3, <2>2, FactorMakes
    <2> QED BY <2>1, <2>2
  <1> HIDE DEF used, made
  <1> QED BY <1>4, <1>5, <1>6, <1>7, HousedWithin

LEMMA FactorConfined ==
  ASSUME plan = FactorEntry(request), request.kind \in FactorKinds, Backed(request, FactorRoles),
         {request.experts, request.p, request.m, request.r, request.r8, request.ld, request.off} \subseteq Nat
  PROVE  AccessesInStorage
  <1> DEFINE
      r == request
      why == Either(FirstOf(FactorRefusals(r)), FirstOf(FactorShares(r)))
      touches == [u \in 0..(FactorUnits(r) - 1) |-> FactorTouches(r, u)]
  <1>1. why = "none" => Confined(r, touches)  BY FactorAdmits, FactorWithin DEF Confined
  <1>2. plan = Entered(why, <<Launch(<<"expert_factor">>, FactorUnits(r), Sizes.factorLanes, Folded(FactorUnits(r), Sizes.factorLanes),
                                touches, FactorRoles \ FactorWrites(r), FactorWrites(r))>>, 0, {<<"expert_factor">>})
    BY DEF FactorEntry, FactorUnits
  <1> HIDE DEF touches, why
  <1> QED BY <1>1, <1>2, OneLaunchConfined
----------------------------------------
(* In storage: rows.                                                       *)

RowBindings == {"primary", "upstream", "gamma", "out"}
RowShaped(r) ==
  /\ {r.rows, r.cols} \subseteq Nat \ {0}
  /\ \A at \in RowReads(r) \cup {"out"} : Holds(r, at, RowLength(r, at), 4)
RowRefusals(r) ==
  << <<r.rows \notin 1..Limit.rows \/ r.cols \notin 1..Limit.cols, "SHAPE">>,
     <<r.rows * r.cols > Limit.elements, "SIZE">>,
     <<~r.finite, "SHAPE">>,
     <<\E at \in RowReads(r) \cup {"out"} : ~Room(r, at, 4 * RowLength(r, at)), "SIZE">>,
     <<\E at \in RowReads(r) : Same(r, at, "out"), "SHAPE">> >>

LEMMA RowAdmits ==
  ASSUME NEW r, FirstOf(RowRefusals(r)) = "none", {r.rows, r.cols} \subseteq Nat, Backed(r, RowReads(r) \cup {"out"})
  PROVE  RowShaped(r)
  <1> DEFINE
      bindings == RowReads(r) \cup {"out"}
      x1 == <<r.rows \notin 1..Limit.rows \/ r.cols \notin 1..Limit.cols, "SHAPE">>
      x2 == <<r.rows * r.cols > Limit.elements, "SIZE">>
      x3 == <<~r.finite, "SHAPE">>
      x4 == <<\E at \in bindings : ~Room(r, at, 4 * RowLength(r, at)), "SIZE">>
      x5 == <<\E at \in RowReads(r) : Same(r, at, "out"), "SHAPE">>
      c == <<x1, x2, x3, x4, x5>>
  <1>1. RowRefusals(r) = c  BY DEF RowRefusals
  <1>2. x1[2] # "none" /\ x2[2] # "none" /\ x3[2] # "none" /\ x4[2] # "none" /\ x5[2] # "none"
    OBVIOUS
  <1>3. /\ x1[1] <=> r.rows \notin 1..Limit.rows \/ r.cols \notin 1..Limit.cols
        /\ ~x4[1] => \A at \in bindings : Room(r, at, 4 * RowLength(r, at))
    OBVIOUS
  <1> HIDE DEF x1, x2, x3, x4, x5
  <1>4. Listed(c) /\ 1 \in DOMAIN c /\ 4 \in DOMAIN c /\ c[1] = x1 /\ c[4] = x4  BY <1>2 DEF Listed
  <1> HIDE DEF c
  <1>5. ~x1[1] /\ ~x4[1]  BY <1>1, <1>4, NothingRefused
  <1>6. {r.rows, r.cols} \subseteq Nat \ {0}  BY <1>3, <1>5
  <1>7. ASSUME NEW at \in bindings PROVE Holds(r, at, RowLength(r, at), 4)
    <2>1. at \in RowBindings  BY DEF RowReads, RowBindings
    <2> DEFINE elements == r.rows * r.cols
    <2>2. elements \in Nat /\ 2 * elements \in Nat  BY <1>6
    <2> HIDE DEF elements
    <2>3. RowLength(r, at) \in {elements, 2 * elements, r.cols}
      BY <2>1 DEF RowLength, RowBindings, elements
    <2>4. RowLength(r, at) \in Nat /\ 4 * RowLength(r, at) = RowLength(r, at) * 4  BY <1>6, <2>2, <2>3
    <2>5. Room(r, at, 4 * RowLength(r, at)) /\ 4 \in Nat \ {0}  BY <1>3, <1>5
    <2> QED BY <2>4, <2>5, RoomHolds
  <1> QED BY <1>6, <1>7 DEF RowShaped

LEMMA RowWithin ==
  ASSUME NEW r, RowShaped(r), NEW g \in 0..((IF r.kind = "RmsNormGammaReduction" THEN r.cols ELSE r.rows) - 1),
         NEW t \in RowTouches(r, g)
  PROVE  Within(r, t)
  <1> DEFINE elements == r.rows * r.cols
  <1>1. {r.rows, r.cols} \subseteq Nat \ {0} /\ elements \in Nat  BY DEF RowShaped
  <1>2. CASE r.kind = "RmsNormGammaReduction"
    <2>1. g \in 0..(r.cols - 1) /\ Holds(r, "primary", 2 * elements, 4) /\ Holds(r, "out", r.cols, 4)
      <3>1. {"primary", "out"} \subseteq RowReads(r) \cup {"out"}  BY DEF RowReads
      <3>2. RowLength(r, "primary") = 2 * elements /\ RowLength(r, "out") = r.cols
        BY <1>2 DEF RowLength
      <3> QED BY <1>2, <3>1, <3>2 DEF RowShaped
    <2>2. t = ElementTouch("out", "write", g, 4)
          \/ \E row \in 0..(r.rows - 1) : t = ElementTouch("primary", "read", elements + row * r.cols + g, 4)
      BY <1>2 DEF RowTouches
    <2>3. ASSUME NEW row \in 0..(r.rows - 1) PROVE elements + row * r.cols + g \in 0..(2 * elements - 1)
      <3>1. row * r.cols + g \in Nat /\ row * r.cols + g < elements /\ row * r.cols \in Nat
        <4>1. row * r.cols \in Nat  BY <1>1
        <4> QED BY <1>1, <2>1, <4>1, Packed
      <3> HIDE DEF elements
      <3> QED BY <1>1, <2>1, <3>1
    <2> HIDE DEF elements
    <2> QED BY <2>1, <2>2, <2>3, ElementWithin
  <1>3. CASE r.kind # "RmsNormGammaReduction"
    <2>1. g \in Nat /\ g < r.rows  BY <1>1, <1>3
    <2>2. g * r.cols \in Nat /\ g * r.cols + r.cols <= elements  BY <1>1, <2>1, NextRow
    <2>3. \A at \in RowReads(r) \ {"gamma"} : Holds(r, at, elements, 4)
      <3>1. ASSUME NEW at \in RowReads(r) \ {"gamma"} PROVE RowLength(r, at) = elements
        BY <1>3 DEF RowReads, RowLength
      <3> QED BY <3>1 DEF RowShaped
    <2>4. "gamma" \in RowReads(r) => Holds(r, "gamma", r.cols, 4)
      <3>1. RowLength(r, "gamma") = r.cols  BY DEF RowLength
      <3> QED BY <3>1 DEF RowShaped
    <2>5. Holds(r, "out", IF r.kind = "RmsNormBackward" THEN 2 * elements ELSE elements, 4)
      <3>1. RowLength(r, "out") = IF r.kind = "RmsNormBackward" THEN 2 * elements ELSE elements
        BY <1>3 DEF RowLength
      <3> QED BY <3>1 DEF RowShaped
    <2>6. \/ \E at \in RowReads(r) \ {"gamma"} : t = Span(at, "read", 0 + g * r.cols, r.cols, 4)
          \/ "gamma" \in RowReads(r) /\ t = Span("gamma", "read", 0, r.cols, 4)
          \/ t = Span("out", "write", 0 + g * r.cols, r.cols, 4)
          \/ r.kind = "RmsNormBackward" /\ t = Span("out", "write", elements + g * r.cols, r.cols, 4)
      BY <1>3 DEF RowTouches
    <2> HIDE DEF elements
    <2>7. /\ 0 + g * r.cols \in Nat /\ (0 + g * r.cols) + r.cols <= elements /\ (0 + g * r.cols) + r.cols <= 2 * elements
          /\ elements + g * r.cols \in Nat /\ (elements + g * r.cols) + r.cols <= 2 * elements /\ 0 + r.cols <= r.cols /\ r.cols \in Nat
      BY <1>1, <2>2
    <2>8. CASE \E at \in RowReads(r) \ {"gamma"} : t = Span(at, "read", 0 + g * r.cols, r.cols, 4)
      BY <2>3, <2>7, <2>8, SpanWithin
    <2>9. CASE "gamma" \in RowReads(r) /\ t = Span("gamma", "read", 0, r.cols, 4)
      BY <2>4, <2>7, <2>9, SpanWithin
    <2>10. CASE t = Span("out", "write", 0 + g * r.cols, r.cols, 4)  BY <2>5, <2>7, <2>10, SpanWithin
    <2>11. CASE r.kind = "RmsNormBackward" /\ t = Span("out", "write", elements + g * r.cols, r.cols, 4)
      BY <2>5, <2>7, <2>11, SpanWithin
    <2> QED BY <2>6, <2>8, <2>9, <2>10, <2>11
  <1> QED BY <1>2, <1>3

LEMMA RowConfined ==
  ASSUME plan = RowEntry(request), {request.rows, request.cols} \subseteq Nat, Backed(request, RowReads(request) \cup {"out"})
  PROVE  AccessesInStorage
  <1> DEFINE
      r == request
      groups == IF r.kind = "RmsNormGammaReduction" THEN r.cols ELSE r.rows
      why == FirstOf(RowRefusals(r))
      touches == [g \in 0..(groups - 1) |-> RowTouches(r, g)]
  <1>1. why = "none" => Confined(r, touches)  BY RowAdmits, RowWithin DEF Confined
  <1>2. plan = Entered(why, <<Launch(<<"rowwise">>, groups, 1, <<groups, 1, 1>>, touches, {"primary", "upstream", "gamma"}, {"out"})>>,
                       0, {})
    BY DEF RowEntry, RowRefusals
  <1> HIDE DEF touches, why
  <1> QED BY <1>1, <1>2, OneLaunchConfined
----------------------------------------
(* In storage: cross entropy.                                              *)

LossShaped(r) ==
  /\ {r.rows, r.cols} \subseteq Nat \ {0} /\ r.kind \in LossKinds /\ r.targets \in Seq(Int) /\ Len(r.targets) = r.rows
  /\ \A i \in DOMAIN r.targets : r.targets[i] \in -1..(r.cols - 1)
  /\ r.primary16 => r.kind \in {"Forward", "Backward"}
  /\ r.out16 => r.kind = "Backward"
  /\ "primary" \in LossReads(r) => Holds(r, "primary", LossLength(r, "primary"), PrimaryBytes(r))
  /\ "upstream" \in LossReads(r) => Holds(r, "upstream", LossLength(r, "upstream"), 4)
  /\ Holds(r, "targets", r.rows, 4) /\ Holds(r, "out", LossLength(r, "out"), LossBytes(r))

LEMMA LossAdmits ==
  ASSUME NEW r, FirstOf(LossRefusals(r)) = "none", {r.rows, r.cols} \subseteq Nat, r.kind \in LossKinds, r.targets \in Seq(Int),
         Backed(r, LossReads(r) \cup {"targets", "out"})
  PROVE  LossShaped(r)
  <1> DEFINE
      bindings == LossReads(r) \cup {"targets", "out"}
      x1 == <<r.rows \notin 1..Limit.rows \/ r.cols \notin 1..Limit.cols, "SHAPE">>
      x2 == <<r.rows * r.cols > Limit.elements, "SIZE">>
      x3 == <<r.kind = "Reduce" /\ r.reduction = "None", "SHAPE">>
      x4 == <<Len(r.targets) # r.rows, "SHAPE">>
      x5 == <<\E i \in DOMAIN r.targets : r.targets[i] \notin -1..(r.cols - 1), "SHAPE">>
      x6 == <<r.reduction = "Mean" /\ \A i \in DOMAIN r.targets : r.targets[i] = -1, "SHAPE">>
      a == <<x1, x2, x3, x4, x5, x6>>
      y1 == <<r.primary16 /\ r.kind \notin {"Forward", "Backward"}, "SHAPE">>
      y2 == <<r.out16 /\ ~(r.kind = "Backward" /\ r.primary16), "SHAPE">>
      y3 == <<r.out16 /\ r.cols % 2 # 0, "SHAPE">>
      y4 == <<"primary" \in LossReads(r) /\ ~Room(r, "primary", LossLength(r, "primary") * PrimaryBytes(r)), "SIZE">>
      y5 == <<r.storage["targets"].capacity # 4 * Len(r.targets), "SIZE">>
      y6 == <<"upstream" \in LossReads(r) /\ ~Room(r, "upstream", 4 * LossLength(r, "upstream")), "SIZE">>
      y7 == <<~Room(r, "out", LossLength(r, "out") * LossBytes(r)), "SIZE">>
      y8 == <<\E at \in LossReads(r) \cup {"targets"} : Same(r, at, "out"), "SHAPE">>
      b == <<y1, y2, y3, y4, y5, y6, y7, y8>>
  <1>1. LossRefusals(r) = a \o b  BY DEF LossRefusals, LossPlanRefusals
  <1>2. /\ x1[2] # "none" /\ x2[2] # "none" /\ x3[2] # "none" /\ x4[2] # "none" /\ x5[2] # "none" /\ x6[2] # "none"
        /\ y1[2] # "none" /\ y2[2] # "none" /\ y3[2] # "none" /\ y4[2] # "none" /\ y5[2] # "none" /\ y6[2] # "none"
        /\ y7[2] # "none" /\ y8[2] # "none"
    OBVIOUS
  <1>3. /\ ~x1[1] => r.rows \in 1..Limit.rows /\ r.cols \in 1..Limit.cols
        /\ ~x4[1] => Len(r.targets) = r.rows
        /\ ~x5[1] => \A i \in DOMAIN r.targets : r.targets[i] \in -1..(r.cols - 1)
        /\ ~y1[1] => ~(r.primary16 /\ r.kind \notin {"Forward", "Backward"})
        /\ ~y2[1] => ~(r.out16 /\ ~(r.kind = "Backward" /\ r.primary16))
        /\ ~y4[1] => ~("primary" \in LossReads(r) /\ ~Room(r, "primary", LossLength(r, "primary") * PrimaryBytes(r)))
        /\ ~y5[1] => r.storage["targets"].capacity = 4 * Len(r.targets)
        /\ ~y6[1] => ~("upstream" \in LossReads(r) /\ ~Room(r, "upstream", 4 * LossLength(r, "upstream")))
        /\ ~y7[1] => Room(r, "out", LossLength(r, "out") * LossBytes(r))
    OBVIOUS
  <1> HIDE DEF x1, x2, x3, x4, x5, x6, y1, y2, y3, y4, y5, y6, y7, y8
  <1>4. Refusing(a) /\ {1, 4, 5} \subseteq DOMAIN a /\ a[1] = x1 /\ a[4] = x4 /\ a[5] = x5
    BY <1>2 DEF Refusing
  <1>5. /\ Refusing(b) /\ {1, 2, 4, 5, 6, 7} \subseteq DOMAIN b
        /\ b[1] = y1 /\ b[2] = y2 /\ b[4] = y4 /\ b[5] = y5 /\ b[6] = y6 /\ b[7] = y7
    BY <1>2 DEF Refusing
  <1> HIDE DEF a, b
  <1>6. (\A i \in DOMAIN a : ~a[i][1]) /\ (\A i \in DOMAIN b : ~b[i][1])
    BY <1>1, <1>4, <1>5, RefusingBoth
  <1>7. ~x1[1] /\ ~x4[1] /\ ~x5[1] /\ ~y1[1] /\ ~y2[1] /\ ~y4[1] /\ ~y5[1] /\ ~y6[1] /\ ~y7[1]
    BY <1>4, <1>5, <1>6
  <1>8. {r.rows, r.cols} \subseteq Nat \ {0} /\ PrimaryBytes(r) \in {2, 4} /\ LossBytes(r) \in {2, 4}
    BY <1>3, <1>7 DEF PrimaryBytes, LossBytes
  <1> DEFINE n == r.rows * r.cols
  <1>9. n \in Nat  BY <1>8
  <1>10. LossLength(r, "primary") \in Nat /\ LossLength(r, "upstream") \in Nat /\ LossLength(r, "out") \in Nat
    <2>1. LossLength(r, "primary") \in {r.rows, n} /\ LossLength(r, "upstream") \in {r.rows, 1}
      BY DEF LossLength
    <2>2. LossLength(r, "out") \in {r.rows, n, 1}  BY DEF LossLength, LossKinds
    <2> HIDE DEF n
    <2> QED BY <1>8, <1>9, <2>1, <2>2
  <1>11. "targets" \in bindings /\ "out" \in bindings /\ 4 \in Nat \ {0}  OBVIOUS
  <1>12. Holds(r, "targets", r.rows, 4)
    <2>1. r.storage["targets"].capacity = 4 * r.rows  BY <1>3, <1>7
    <2>2. Room(r, "targets", 4 * r.rows) /\ 4 * r.rows = r.rows * 4  BY <1>8, <2>1 DEF Room
    <2> QED BY <1>8, <1>11, <2>2, RoomHolds
  <1>13. "primary" \in LossReads(r) => Holds(r, "primary", LossLength(r, "primary"), PrimaryBytes(r))
    <2>1. PrimaryBytes(r) \in Nat \ {0}  BY <1>8
    <2> QED BY <1>3, <1>7, <1>10, <2>1, RoomHolds
  <1>14. "upstream" \in LossReads(r) => Holds(r, "upstream", LossLength(r, "upstream"), 4)
    <2>1. 4 * LossLength(r, "upstream") = LossLength(r, "upstream") * 4  BY <1>10
    <2> QED BY <1>3, <1>7, <1>10, <1>11, <2>1, RoomHolds
  <1>15. Holds(r, "out", LossLength(r, "out"), LossBytes(r))
    <2>1. LossBytes(r) \in Nat \ {0}  BY <1>8
    <2> QED BY <1>3, <1>7, <1>10, <1>11, <2>1, RoomHolds
  <1> QED BY <1>3, <1>7, <1>8, <1>12, <1>13, <1>14, <1>15 DEF LossShaped

LEMMA LossWithin ==
  ASSUME NEW r, LossShaped(r), r.kind # "Reduce", NEW row \in 0..(r.rows - 1), NEW t \in LossTouches(r, row)
  PROVE  Within(r, t)
  <1> DEFINE
      n == r.rows * r.cols
      first == row * r.cols
      target == r.targets[row + 1]
      dy == IF r.reduction = "None" THEN row ELSE 0
  <1>1. /\ r.rows \in Nat \ {0} /\ r.cols \in Nat \ {0} /\ row \in Nat /\ row < r.rows /\ n \in Nat
        /\ r.kind \in {"Forward", "Backward", "NllForward", "NllBackward"}
    BY DEF LossShaped, LossKinds
  <1>2. first \in Nat /\ first + r.cols <= n  BY <1>1, NextRow
  <1>3. target \in -1..(r.cols - 1)
    <2>1. row + 1 \in DOMAIN r.targets  BY <1>1 DEF LossShaped
    <2> QED BY <2>1 DEF LossShaped
  <1>4. r.kind # "NllBackward" => Holds(r, "primary", n, PrimaryBytes(r))
    BY DEF LossShaped, LossReads, LossLength
  <1>5. r.kind \in {"Backward", "NllBackward"} => Holds(r, "upstream", IF r.reduction = "None" THEN r.rows ELSE 1, 4)
    BY DEF LossShaped, LossReads, LossLength
  <1>6. /\ r.kind \in {"Forward", "NllForward"} => Holds(r, "out", r.rows, 4)
        /\ r.kind \in {"Backward", "NllBackward"} => Holds(r, "out", n, LossBytes(r))
        /\ r.kind = "NllForward" => PrimaryBytes(r) = 4
    BY DEF LossShaped, LossLength, LossBytes, PrimaryBytes
  <1>7. Holds(r, "targets", r.rows, 4)  BY DEF LossShaped
  <1>8. \/ t = ElementTouch("targets", "read", row, 4)
        \/ r.kind \in {"Forward", "NllForward"} /\ t = ElementTouch("out", "write", row, 4)
        \/ r.kind # "NllBackward" /\ t = Span("primary", "read", first, r.cols, PrimaryBytes(r))
        \/ r.kind = "NllForward" /\ target # -1 /\ t = ElementTouch("primary", "read", first + target, 4)
        \/ r.kind \in {"Backward", "NllBackward"} /\ t = Span("out", "write", first, r.cols, LossBytes(r))
        \/ r.kind \in {"Backward", "NllBackward"} /\ t = ElementTouch("upstream", "read", dy, 4)
    BY <1>1 DEF LossTouches
  <1> HIDE DEF n, first, target
  <1>9. target # -1 => first + target \in 0..(n - 1)  BY <1>1, <1>2, <1>3
  <1>10. dy \in 0..((IF r.reduction = "None" THEN r.rows ELSE 1) - 1)  BY <1>1
  <1> HIDE DEF dy
  <1>11. CASE r.kind # "NllBackward" /\ t = Span("primary", "read", first, r.cols, PrimaryBytes(r))
    BY <1>1, <1>2, <1>4, <1>11, SpanWithin
  <1>12. CASE r.kind \in {"Backward", "NllBackward"} /\ t = Span("out", "write", first, r.cols, LossBytes(r))
    BY <1>1, <1>2, <1>6, <1>12, SpanWithin
  <1>13. CASE t = ElementTouch("targets", "read", row, 4) \/ (r.kind \in {"Forward", "NllForward"} /\ t = ElementTouch("out", "write", row, 4))
    BY <1>6, <1>7, <1>13, ElementWithin
  <1>14. CASE r.kind = "NllForward" /\ target # -1 /\ t = ElementTouch("primary", "read", first + target, 4)
    <2>1. Holds(r, "primary", n, 4)  BY <1>4, <1>6, <1>14
    <2> QED BY <1>9, <1>14, <2>1, ElementWithin
  <1>15. CASE r.kind \in {"Backward", "NllBackward"} /\ t = ElementTouch("upstream", "read", dy, 4)
    BY <1>5, <1>10, <1>15, ElementWithin
  <1> QED BY <1>8, <1>11, <1>12, <1>13, <1>14, <1>15

LEMMA ReduceLossWithin ==
  ASSUME NEW r, LossShaped(r), r.kind = "Reduce", NEW t \in ReduceLoss(r) PROVE Within(r, t)
  <1>1. r.rows \in Nat \ {0} /\ DOMAIN r.targets = 1..r.rows  BY DEF LossShaped
  <1>2. Holds(r, "targets", r.rows, 4) /\ Holds(r, "out", 1, 4) /\ Holds(r, "primary", r.rows, 4)
    BY DEF LossShaped, LossReads, LossLength, LossBytes, PrimaryBytes
  <1>3. \/ t = Span("targets", "read", 0, r.rows, 4) \/ t = ElementTouch("out", "write", 0, 4)
        \/ \E i \in DOMAIN r.targets : t = ElementTouch("primary", "read", i - 1, 4)
    BY DEF ReduceLoss
  <1>4. CASE t = Span("targets", "read", 0, r.rows, 4)
    <2>1. 0 \in Nat /\ r.rows \in Nat /\ 0 + r.rows <= r.rows  BY <1>1
    <2> QED BY <1>2, <1>4, <2>1, SpanWithin
  <1>5. CASE t = ElementTouch("out", "write", 0, 4)
    <2>1. 0 \in 0..(1 - 1)  OBVIOUS
    <2> QED BY <1>2, <1>5, <2>1, ElementWithin
  <1>6. ASSUME NEW i \in DOMAIN r.targets, t = ElementTouch("primary", "read", i - 1, 4) PROVE Within(r, t)
    <2>1. i - 1 \in 0..(r.rows - 1)  BY <1>1
    <2> QED BY <1>2, <1>6, <2>1, ElementWithin
  <1> QED BY <1>3, <1>4, <1>5, <1>6

\* An image that is uploaded lies in the buffer it is uploaded to.
LEMMA UploadConfined ==
  ASSUME NEW r, NEW at, NEW n, NEW bytes, Holds(r, at, n, 4), bytes = 4 * n
  PROVE  Confined(r, Upload(at, bytes).touches)
  <1> DEFINE image == Touch(at, "write", 0, bytes)
  <1>1. Upload(at, bytes).touches = [u \in {0} |-> {image}]  BY LaunchFields DEF Upload
  <1>2. n \in Nat /\ 0 \in Nat /\ 0 + n <= n  BY DEF Holds
  <1>3. image = Span(at, "write", 0, n, 4)
    <2>1. 0 * 4 = 0 /\ n * 4 = bytes  BY <1>2
    <2> QED BY <2>1 DEF Span
  <1>4. Within(r, image)  BY <1>2, <1>3, SpanWithin
  <1> HIDE DEF image
  <1> QED BY <1>1, <1>4 DEF Confined

LEMMA LossConfined ==
  ASSUME plan = LossEntry(request), {request.rows, request.cols} \subseteq Nat, request.kind \in LossKinds,
         request.targets \in Seq(Int), Backed(request, LossReads(request) \cup {"targets", "out"})
  PROVE  AccessesInStorage
  <1> DEFINE
      r == request
      rows == IF r.kind = "Reduce" THEN 1 ELSE r.rows
      half == r.primary16 \/ r.out16
      kernel == IF half THEN <<"loss_bf16", r.out16>> ELSE <<"loss">>
      why == FirstOf(LossRefusals(r))
      touches == IF r.kind = "Reduce" THEN [u \in {0} |-> ReduceLoss(r)] ELSE [u \in 0..(rows - 1) |-> LossTouches(r, u)]
      one == Upload("targets", 4 * r.rows)
      two == Launch(kernel, rows, 1, <<rows, 1, 1>>, touches, {"primary", "targets", "upstream"}, {"out"})
      built == IF half THEN {"loss_bf16"} \X BOOLEAN ELSE {}
      passes == <<one, two>>
  <1>1. plan = Entered(why, passes, 0, built)  BY DEF LossEntry
  <1>2. why = "none" => Confined(r, touches) /\ Confined(r, one.touches)
    <2>1. SUFFICES ASSUME LossShaped(r) PROVE Confined(r, touches) /\ Confined(r, one.touches)
      BY LossAdmits
    <2>2. ASSUME r.kind = "Reduce" PROVE Confined(r, touches)
      <3>1. touches = [u \in {0} |-> ReduceLoss(r)]  BY <2>2
      <3> HIDE DEF touches
      <3> QED BY <2>1, <2>2, <3>1, ReduceLossWithin DEF Confined
    <2>3. ASSUME r.kind # "Reduce" PROVE Confined(r, touches)
      <3>1. touches = [u \in 0..(r.rows - 1) |-> LossTouches(r, u)]  BY <2>3
      <3> HIDE DEF touches
      <3> QED BY <2>1, <2>3, <3>1, LossWithin DEF Confined
    <2> HIDE DEF touches
    <2>4. Confined(r, one.touches)
      <3>1. Holds(r, "targets", r.rows, 4)  BY <2>1 DEF LossShaped
      <3> QED BY <3>1, UploadConfined
    <2> QED BY <2>2, <2>3, <2>4
  <1> HIDE DEF touches
  <1>3. two.touches = touches  BY LaunchFields
  <1> HIDE DEF one, two, why, built
  <1>4. why = "none" => \A i \in DOMAIN passes : Confined(request, passes[i].touches)
    <2>1. DOMAIN passes = {1, 2} /\ passes[1] = one /\ passes[2] = two  OBVIOUS
    <2> HIDE DEF passes
    <2> QED BY <1>2, <1>3, <2>1
  <1> HIDE DEF passes
  <1> QED BY <1>1, <1>4, EnteredConfined
----------------------------------------
(* In storage: the request in force.                                       *)

\* The operations whose reach is the subject here.
Surveyed ==
  {"rowwise", "loss", "rotary", "swiglu", "swiglu_scaled", "weighted_bag", "head_lse", "head_grad", "expert_factor",
   "amp_unscale", "amp_update", "vq", "cast"}

LEMMA AnsweredInStorage ==
  ASSUME Answers, request.op \in Surveyed PROVE AccessesInStorage
  <1> DEFINE Rest == {"convert", "pointwise", "intwise", "reduce", "embedding", "student_norm", "matmul_f32", "matmul_16",
                      "nf4_decode", "nf4_matmul", "attention"}
  <1>1. ASSUME NEW f \in Rest, request \in Requests(f) PROVE FALSE
    <2>1. request.op = f
      <3>1. CASE f = "intwise"  BY <1>1, <3>1, RequestAssumption
      <3>2. CASE f # "intwise"  BY <1>1, <3>2, RequestAssumption
      <3> QED BY <3>1, <3>2
    <2> QED BY <1>1, <2>1 DEF Surveyed
  <1>2. request \notin Requests("index")
    <2>1. ASSUME request \in Requests("index") PROVE request.op \in {"Gather", "Scatter", "ScatterAdd"}
      BY <2>1, RequestAssumption
    <2> QED BY <2>1 DEF Surveyed
  <1>3. CASE plan = Refused("none asked")  BY <1>3, RefusedConfined
  <1>4. CASE request \in Requests("rowwise") /\ plan = RowEntry(request)
    BY <1>4, RequestAssumption, RowConfined
  <1>5. CASE request \in Requests("loss") /\ plan = LossEntry(request)
    <2>1. request.kind \in LossKinds /\ {request.rows, request.cols} \subseteq Nat
      BY <1>5, RequestAssumption
    <2>2. request.targets \in Seq(Int)  BY <1>5, RequestAssumption
    <2>3. Backed(request, LossReads(request) \cup {"targets", "out"})  BY <1>5, RequestAssumption
    <2> QED BY <1>5, <2>1, <2>2, <2>3, LossConfined
  <1>6. CASE request \in Requests("rotary") /\ plan = RotaryEntry(request)
    BY <1>6, RequestAssumption, RotaryConfined
  <1>7. CASE request \in Requests("swiglu") /\ plan = SwigluEntry(request)
    BY <1>7, RequestAssumption, SwigluConfined
  <1>8. CASE request \in Requests("swiglu_scaled") /\ plan = ScaledEntry(request)
    BY <1>8, RequestAssumption, ScaledConfined
  <1>9. CASE request \in Requests("weighted_bag") /\ plan = BagEntry(request)
    BY <1>9, RequestAssumption, BagConfined
  <1>10. CASE request \in Requests("head_lse") /\ plan = LseEntry(request)
    <2>1. /\ {request.rows, request.cols, request.k, request.perGroup} \subseteq Nat
          /\ Backed(request, GradIns \cup GradOuts \cup {"out"})
      BY <1>10, RequestAssumption
    <2>2. Backed(request, HeadRoles)  BY <2>1 DEF HeadRoles
    <2> QED BY <1>10, <2>1, <2>2, LseConfined
  <1>11. CASE request \in Requests("head_grad") /\ plan = GradEntry(request)
    <2>1. /\ {request.rows, request.cols, request.k, request.perGroup} \subseteq Nat
          /\ Backed(request, GradIns \cup GradOuts \cup {"out"})
      BY <1>11, RequestAssumption
    <2>2. Backed(request, HeadRoles)  BY <2>1 DEF HeadRoles
    <2> QED BY <1>11, <2>1, <2>2, GradConfined
  <1>12. CASE request \in Requests("expert_factor") /\ plan = FactorEntry(request)
    <2>1. /\ request.kind \in {"LatentForward", "PackedForward", "LatentBackward", "PackedBackwardRow", "PackedBackwardCol"}
          /\ {request.experts, request.p, request.m, request.r, request.r8, request.ld, request.off} \subseteq Nat
          /\ Backed(request, FactorRoles)
      BY <1>12, RequestAssumption
    <2> QED BY <1>12, <2>1, FactorConfined DEF FactorKinds
  <1>13. CASE request \in Requests("amp_unscale") /\ plan = UnscaleEntry(request)
    BY <1>13, RequestAssumption, UnscaleConfined
  <1>14. CASE request \in Requests("amp_update") /\ plan = UpdateEntry(request)
    BY <1>14, RequestAssumption, UpdateConfined
  <1>15. CASE request \in Requests("vq") /\ plan = VqEntry(request)
    BY <1>15, RequestAssumption, VqConfined
  <1>16. CASE request \in Requests("cast") /\ plan = CastEntry(request)
    BY <1>16, RequestAssumption, CastConfined
  <1> QED
    BY <1>1, <1>2, <1>3, <1>4, <1>5, <1>6, <1>7, <1>8, <1>9, <1>10, <1>11, <1>12, <1>13, <1>14, <1>15, <1>16 DEF Answers, AnswerTo

\* Whatever sizes, buffers and sharings a caller gives, no unit of an admitted
\* plan of these operations reads or writes outside the storage of the
\* bindings it was given.  (Of the other operations this is model-checked.)
THEOREM AccessesStay ==
  Spec => [](request.op \in {"rowwise", "loss", "rotary", "swiglu", "swiglu_scaled", "weighted_bag", "head_lse", "head_grad",
                             "expert_factor", "amp_unscale", "amp_update", "vq", "cast"} => AccessesInStorage)
  <1>1. Answers => (request.op \in {"rowwise", "loss", "rotary", "swiglu", "swiglu_scaled", "weighted_bag", "head_lse",
                                    "head_grad", "expert_factor", "amp_unscale", "amp_update", "vq", "cast"}
                      => AccessesInStorage)
    BY AnsweredInStorage DEF Surveyed
  <1> QED BY <1>1, PlanIsTheAnswer, PTL
=============================================================================
