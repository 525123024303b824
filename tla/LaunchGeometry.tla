--------------------------- MODULE LaunchGeometry ---------------------------
(***************************************************************************)
(* What every operator plan of the compute kit is made of: views over      *)
(* storage, a grid of work groups, and the passes a launch consists of.    *)
(* A plan module says which requests it admits and, for each, the passes   *)
(* it records; this module says what a pass may not do whatever the        *)
(* operation is.  Widths are constants: the code's 2^32, 2^64, 2^31 words  *)
(* and 65535 groups are far beyond what an instance enumerates, and the    *)
(* plans only compare with them.                                           *)
(***************************************************************************)
EXTENDS Integers, Sequences, FiniteSets, TLC

CONSTANTS
  U32,        \* values of a u32; a shader's indices live here
  U64,        \* values of a u64; the planner's arithmetic lives here
  WordLimit,  \* WORD_LIMIT and ADDRESS_LIMIT: every address is below it
  MaxGroups   \* MAX_GROUPS_X: groups along one axis

ASSUME WidthAssumption ==
  /\ {U32, U64, WordLimit, MaxGroups} \subseteq Nat \ {0}
  /\ WordLimit < U32 /\ U32 < U64 /\ MaxGroups < WordLimit

Least(a, b) == IF a < b THEN a ELSE b
Most(a, b) == IF a > b THEN a ELSE b
CeilDiv(a, b) == (a + b - 1) \div b
-----------------------------------------------------------------------------
(* Views: MAX_NDIM is four everywhere in the code.                         *)
Dims == 1..4
Dot(a, b) == a[1] * b[1] + a[2] * b[2] + a[3] * b[3] + a[4] * b[4]
Count(extents) == extents[1] * extents[2] * extents[3] * extents[4]

\* A request's shape or strides, right-aligned in four dimensions.
Padded(s, fill) == [k \in Dims |-> IF k > 4 - Len(s) THEN s[k - 4 + Len(s)] ELSE fill]

View(offset, strides) == [offset |-> offset, strides |-> strides]
Address(view, c) == view.offset + Dot(c, view.strides)

\* The strides of a dense view; the code saturates them at 2^64 - 1, above
\* every stride a plan compares them with.
Dense(e) == <<e[2] * e[3] * e[4], e[3] * e[4], e[4], 1>>

\* Only a dimension of more than one element reaches beyond its first.
MaxElement(view, extents) ==
  view.offset + Dot([k \in Dims |-> extents[k] - 1], view.strides)

\* Mutant: the highest address is taken for the number of elements.
LastUncounted(view, extents, bytes, capacity) ==
  LET max == MaxElement(view, extents) IN max < WordLimit /\ max * bytes <= capacity

\* check_capacity.  Every partial product and sum of the code is at most
\* `end`, so refusing an `end` of 2^64 is what its checked arithmetic does.
Fits(view, extents, bytes, capacity) ==
  LET max == MaxElement(view, extents)
      end == (max + 1) * bytes
  IN  /\ end < U64
      /\ max < WordLimit
      /\ (end - 1) \div 4 < WordLimit
      /\ end <= capacity

\* addresses_are_distinct: by growing stride, each stride steps over all the
\* addresses the smaller ones reach.
Before(strides, extents, j, k) ==
  <<strides[j], extents[j], j>> # <<strides[k], extents[k], k>>
  /\ \/ strides[j] < strides[k]
     \/ strides[j] = strides[k] /\ extents[j] < extents[k]
     \/ strides[j] = strides[k] /\ extents[j] = extents[k] /\ j < k
\* Mutant: how far the smaller strides reach, not how many addresses.
Farthest(strides, extents, below) ==
  Dot([k \in Dims |-> IF k \in below THEN extents[k] - 1 ELSE 0], strides)

Reach(strides, extents, below) ==
  1 + Dot([k \in Dims |-> IF k \in below THEN extents[k] - 1 ELSE 0], strides)
AddressesAreDistinct(strides, extents) ==
  \A k \in Dims : extents[k] > 1 =>
    strides[k] >= Reach(strides, extents, {j \in Dims : Before(strides, extents, j, k)})

\* The coordinates of the l-th element in row-major order.
Coordinates(l, e) ==
  <<l \div (e[2] * e[3] * e[4]), (l \div (e[3] * e[4])) % e[2], (l \div e[4]) % e[3], l % e[4]>>
-----------------------------------------------------------------------------
\* Mutant: the rows of the grid are rounded down.
FoldedShort(units, per) ==
  LET total == CeilDiv(units, per)
      x == Most(Least(total, MaxGroups), 1)
  IN  <<x, Most(total \div x, 1), 1>>

(* A pass: `units` pieces of work, `per` of them a group, a grid of groups,*)
(* and what each unit touches.                                             *)
Folded(units, per) ==
  LET total == CeilDiv(units, per)
      x == Most(Least(total, MaxGroups), 1)
  IN  <<x, Most(CeilDiv(total, x), 1), 1>>

\* Bytes first..last of the binding `at`, touched one way:
\* "read", "write", "atomic", or "fill" (writes that all store one value).
Touch(at, how, first, bytes) ==
  [at |-> at, how |-> how, first |-> first, last |-> first + bytes - 1]
ElementTouch(at, how, element, bytes) == Touch(at, how, element * bytes, bytes)
Span(at, how, element, count, bytes) == Touch(at, how, element * bytes, count * bytes)
WordTouch(at, how, word) == Touch(at, how, word * 4, 4)

Pass(kernel, units, per, groups, touches) ==
  [kernel |-> kernel, units |-> units, per |-> per, groups |-> groups, touches |-> touches]
Refused(why) == [why |-> why]
PlannedWith(passes, scratch) == [why |-> "none", passes |-> passes, scratch |-> scratch]
Planned(passes) == PlannedWith(passes, 0)
Admitted(plan) == plan.why = "none"

\* What an entry of the C ABI makes of a plan: the accesses it declares to the
\* recorded batch pass by pass, and the kernels it builds if they are missing.
Declaring(pass, reads, writes) ==
  [kernel |-> pass.kernel, units |-> pass.units, per |-> pass.per, groups |-> pass.groups, touches |-> pass.touches,
   reads |-> reads, writes |-> writes]
Answered(passes, scratch, built) == [why |-> "none", passes |-> passes, scratch |-> scratch, built |-> built]
Recorded(plan, built, Declared(_, _)) ==
  IF ~Admitted(plan) THEN plan
  ELSE Answered([i \in DOMAIN plan.passes |-> Declared(i, plan.passes[i])], plan.scratch, built)
Launch(kernel, units, per, groups, touches, reads, writes) ==
  Declaring(Pass(kernel, units, per, groups, touches), reads, writes)
Entered(refusals, passes, scratch, built) ==
  IF refusals # "none" THEN Refused(refusals) ELSE Answered(passes, scratch, built)

\* An image the entry derives and uploads before the pass that reads it.
Upload(at, bytes) ==
  Launch(<<"upload">>, 1, 1, <<1, 1, 1>>, [u \in {0} |-> {Touch(at, "write", 0, bytes)}], {}, {at})

Room(r, at, bytes) == bytes <= r.storage[at].capacity
Same(r, a, b) == r.storage[a].identity = r.storage[b].identity

\* The first refusal of a list of <<condition, name>> whose condition holds.
FirstOf(refusals) ==
  LET hits == {i \in DOMAIN refusals : refusals[i][1]}
  IN  IF hits = {} THEN "none"
      ELSE refusals[CHOOSE i \in hits : \A j \in hits : i <= j][2]
Either(first, second) == IF first # "none" THEN first ELSE second
-----------------------------------------------------------------------------
(* What no pass may do.  `storage` gives each binding its storage.         *)
\* The grid starts every unit, and no invocation's number, computed in the
\* shader's 32 bits, wraps round to a unit that is another's.
GridIsWhole(pass) ==
  LET started == pass.groups[1] * pass.groups[2] * pass.groups[3] * pass.per
  IN  /\ pass.units <= started
      /\ started <= U32
      /\ \A axis \in {2, 3} : pass.groups[axis] \in 1..MaxGroups

\* Every byte lies in its storage (a buffer's memory ends on a whole word).
InStorage(pass, storage) ==
  \A u \in DOMAIN pass.touches : \A t \in pass.touches[u] :
    t.first >= 0 /\ t.last < 4 * CeilDiv(storage[t.at].capacity, 4)

Overlap(s, t, storage) ==
  /\ storage[s.at].identity = storage[t.at].identity
  /\ s.first <= t.last /\ t.first <= s.last

Compatible(s, t) ==
  s.how = t.how /\ s.how # "write"

\* Units run in no order: what two of them share both only read, both
\* change with atomics, or both fill with the same value.
UnitsAreIndependent(pass, storage) ==
  \A u, v \in DOMAIN pass.touches : u < v =>
    \A s \in pass.touches[u], t \in pass.touches[v] :
      Overlap(s, t, storage) => Compatible(s, t)
=============================================================================
