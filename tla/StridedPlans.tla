---------------------------- MODULE StridedPlans ----------------------------
(***************************************************************************)
(* The plans of the operations that address their operands through strided *)
(* views: conversion (convert_ops), pointwise (pointwise_ops), indexing    *)
(* (index_ops), integer arithmetic and sorting (intwise_ops, radix_ops).   *)
(* Each has a list of refusals in the order the code tests them and the    *)
(* passes of an admitted request, with what each unit of the shader reads  *)
(* and writes.  Arithmetic on elements is left out.                        *)
(***************************************************************************)
EXTENDS LaunchGeometry, SequencesExt

CONSTANTS
  Tile, MinTiledRows, MinTiledStride,  \* TILE, MIN_TILED_ROWS, MIN_TILED_STRIDE
  PerGroup,       \* units a group of convert and pointwise takes: 1024
  Lanes,          \* units a group of index, intwise and radix takes: 64
  LongFiber, ElectScratchLimit,        \* LONG_FIBER, ELECT_SCRATCH_LIMIT
  ScanLimit, RankRowLimit, RankWorkLimit, RadixMinRow, \* of intwise_ops
  Block, Digits   \* BLOCK and DIGITS of the radix sort: 1024, 256 (a byte)

ASSUME StridedAssumption ==
  /\ {Tile, MinTiledRows, MinTiledStride, PerGroup, Lanes, LongFiber, ElectScratchLimit,
      ScanLimit, RankRowLimit, RankWorkLimit, RadixMinRow, Block} \subseteq Nat \ {0}
  /\ Digits \in Nat \ {0, 1} /\ Tile % 4 = 0 /\ PerGroup % 4 = 0
  /\ WordLimit <= Digits * Digits * Digits * Digits
-----------------------------------------------------------------------------
(* Element types. *)
Bytes(code) ==
  CASE code \in {"I64", "F64"} -> 8 [] code \in {"F32", "I32"} -> 4
    [] code \in {"Bf16", "F16", "I16"} -> 2 [] code \in {"I8", "U8", "Bool"} -> 1
Floats == {"F32", "Bf16", "F16", "F64"}
IntegerCodes == {"I64", "I32", "I16", "I8", "U8", "Bool"}
Slots(bytes) == IF bytes < 4 THEN 4 \div bytes ELSE 1

Extents(r) == Padded(SubSeq(r.shape, 1, Least(r.ndim, 4)), 1)
PaddedView(r, v) == View(v.offset, Padded(SubSeq(v.strides, 1, Least(r.ndim, 4)), 0))
BadRank(r) == r.ndim \notin 1..4
RowMajor(strides, e) == \A k \in Dims : e[k] = 1 \/ strides[k] = Dense(e)[k]
-----------------------------------------------------------------------------
(* Conversion.                                                             *)
Converts(from, to) == from \in Floats => to \in Floats \cup {"Bool"}

\* memory_order: dimensions of more than one element by falling output
\* stride, neighbours merged where both views run on, innermost last.
InMemoryOrder(e, out) ==
  SetToSortSeq({k \in Dims : e[k] > 1},
               LAMBDA j, k : out[j] < out[k] \/ (out[j] = out[k] /\ j > k))
\* Mutant: dimensions merge where the output runs on, whatever the input does.
MergedByOutput(runs, run) ==
  IF runs # <<>> /\ Last(runs).out * Last(runs).extent = run.out
  THEN [runs EXCEPT ![Len(runs)].extent = @ * run.extent]
  ELSE Append(runs, run)

Merged(runs, run) ==
  IF runs # <<>> /\ Last(runs).in * Last(runs).extent = run.in
                 /\ Last(runs).out * Last(runs).extent = run.out
  THEN [runs EXCEPT ![Len(runs)].extent = @ * run.extent]
  ELSE Append(runs, run)
MemoryOrder(e, in, out) ==
  LET order == InMemoryOrder(e, out)
      runs == FoldLeft(Merged, <<>>,
                [i \in DOMAIN order |-> [extent |-> e[order[i]], in |-> in[order[i]], out |-> out[order[i]]]])
      At(k) == 5 - k
  IN  [extents |-> [k \in Dims |-> IF At(k) <= Len(runs) THEN runs[At(k)].extent ELSE 1],
       in |-> [k \in Dims |-> IF At(k) <= Len(runs) THEN runs[At(k)].in ELSE 0],
       out |-> [k \in Dims |-> IF At(k) <= Len(runs) THEN runs[At(k)].out ELSE 0]]

\* How the units of a conversion share the output's words.
ConvertTiled(r, m) ==
  LET rows == m.extents[3]
      cols == m.extents[4]
      es == Bytes(r.to)
  IN  /\ m.extents[1] = 1 /\ m.extents[2] = 1
      /\ rows >= MinTiledRows /\ cols > 1 /\ Bytes(r.from) <= 4 /\ es <= 4
      /\ m.in[3] = 1 /\ m.in[4] >= MinTiledStride /\ m.out[4] = 1 /\ m.out[3] = cols
      /\ es < 4 => r.out.offset % Slots(es) = 0 /\ cols % Slots(es) = 0
      /\ CeilDiv(rows, Tile) <= MaxGroups /\ CeilDiv(cols, Tile) <= MaxGroups
ConvertLayout(r) ==
  LET m == MemoryOrder(Extents(r), PaddedView(r, r.input).strides, PaddedView(r, r.out).strides)
      es == Bytes(r.to)
      slots == Slots(es)
      whole == es < 4 /\ RowMajor(m.out, m.extents)
      alone == \A k \in Dims : m.extents[k] = 1 \/ m.out[k] % slots = 0
      tiled == ConvertTiled(r, m)
      lead == IF whole THEN r.out.offset % slots ELSE 0
  IN  [m |-> m, es |-> es, slots |-> slots, rows |-> m.extents[3], cols |-> m.extents[4], lead |-> lead,
       way |-> CASE tiled -> "tiled" [] whole /\ ~tiled -> "whole" [] es >= 4 /\ ~tiled -> "element"
                 [] es < 4 /\ ~whole /\ alone -> "exclusive" [] OTHER -> "atomic",
       n |-> Count(m.extents),
       units |-> IF whole /\ ~tiled THEN CeilDiv(lead + Count(m.extents), slots) ELSE Count(m.extents)]

ConvertRefusals(r) ==
  LET e == Extents(r)
      out == PaddedView(r, r.out)
      m == MemoryOrder(e, PaddedView(r, r.input).strides, out.strides)
      whole == Bytes(r.to) < 4 /\ RowMajor(m.out, m.extents)
  IN << <<~Converts(r.from, r.to), "FloatToInteger">>,
        <<BadRank(r), "NdimOutOfRange">>,
        <<0 \in {e[k] : k \in Dims}, "ZeroElements">>,
        <<Count(e) >= WordLimit, "AddressOverflow">>,
        <<~Fits(PaddedView(r, r.input), e, Bytes(r.from), r.storage["x"].capacity), "AddressOverflow">>,
        <<~Fits(out, e, Bytes(r.to), r.storage["out"].capacity), "AddressOverflow">>,
        <<~whole /\ ~AddressesAreDistinct(m.out, m.extents), "OutputSelfOverlap">>,
        <<r.storage["out"].identity = r.storage["x"].identity, "OutputOverlapsInput">> >>

\* What the shader's tile or unit u of a conversion touches.
ConvertTouches(r, g, u) ==
  LET InOf(l) == Address(View(r.input.offset, g.m.in), Coordinates(l, g.m.extents))
      OutOf(l) == Address(View(r.out.offset, g.m.out), Coordinates(l, g.m.extents))
      Reads(l) == ElementTouch("x", "read", InOf(l), Bytes(r.from))
      Filled == {l \in (u * g.slots - g.lead)..(u * g.slots - g.lead + g.slots - 1) : l \in 0..(g.n - 1)}
  IN  CASE g.way = "element" -> {Reads(u), ElementTouch("out", "write", OutOf(u), g.es)}
        [] g.way = "exclusive" -> {Reads(u), WordTouch("out", "write", OutOf(u) \div g.slots)}
        [] g.way = "atomic" -> {Reads(u),
             IF r.from = r.to /\ r.to = "I16" THEN ElementTouch("out", "write", OutOf(u), 2)
             ELSE WordTouch("out", "atomic", OutOf(u) \div g.slots)}
        [] g.way = "whole" -> {Reads(l) : l \in Filled} \cup {WordTouch("out", "write", r.out.offset \div g.slots + u)}
        [] g.way = "tiled" ->
             LET across == CeilDiv(g.cols, Tile)
                 Inside == {c \in (0..(g.rows - 1)) \X (0..(g.cols - 1)) :
                              c[1] \div Tile = u \div across /\ c[2] \div Tile = u % across}
             IN  UNION {{Reads(c[1] * g.cols + c[2]),
                         WordTouch("out", "write", (r.out.offset + c[1] * g.cols + c[2]) \div g.slots)} : c \in Inside}

ConvertPlan(r) ==
  LET why == FirstOf(ConvertRefusals(r)) IN
  IF why # "none" THEN Refused(why)
  ELSE LET g == ConvertLayout(r)
           across == CeilDiv(g.cols, Tile)
           down == CeilDiv(g.rows, Tile)
           units == IF g.way = "tiled" THEN across * down ELSE g.units
       IN  Planned(<<Pass(<<"convert", IF g.way = "tiled" THEN "tiled" ELSE "plain">>, units,
                          IF g.way = "tiled" THEN 1 ELSE PerGroup,
                          IF g.way = "tiled" THEN <<across, down, 1>> ELSE Folded(units, PerGroup),
                          [u \in 0..(units - 1) |-> ConvertTouches(r, g, u)])>>)
-----------------------------------------------------------------------------
(* Pointwise.  An operation matters for the operands it reads; the kinds   *)
(* stand for the 47 operations of PointwiseOp.                             *)
Operands == {"x", "y", "z", "out"}
Kinds == {"Fill", "Iota", "Triu", "Unary", "Binary", "Ternary"}
Reads(r, at) ==
  CASE at = "x" -> r.kind \notin {"Fill", "Iota"}
    [] at = "y" -> r.kind \in {"Binary", "Ternary"} /\ ~r.yScalar
    [] at = "z" -> r.kind = "Ternary"
    [] at = "out" -> TRUE

\* slot_dtype of each operand; two storage flags on one slot are "both".
Types(r) == <<r.type["x"], r.type["y"], r.type["z"], r.type["out"]>>
Wide == {"F32", "Bf16"}
BoolModules ==
  {<<a, b, a, "Bool">> : a \in Wide, b \in Wide} \cup {<<"Bool", "Bool", "Bool", c>> : c \in Wide \cup {"Bool"}}
    \cup {<<"Bool", b, c, d>> : b \in Wide, c \in Wide, d \in Wide}
F16Modules == {<<"F16", "F16", "F16", "F16">>, <<"F32", "F16", "F32", "F32">>, <<"F16", "F32", "F16", "F32">>}
F16BoolModules ==
  {<<"F16", "F16", "F16", "Bool">>, <<"F32", "F16", "F32", "Bool">>, <<"F16", "F32", "F16", "Bool">>,
   <<"Bool", "F16", "F16", "F16">>, <<"Bool", "F16", "F32", "F32">>, <<"Bool", "F32", "F16", "F32">>}
WideModules == Wide \X Wide \X Wide \X Wide
StorageModules == WideModules \cup BoolModules \cup F16Modules \cup F16BoolModules
VectorModules == WideModules \cup F16Modules

\* StridedView::canonical: a stride over one element is zero.
Canonical(r, at) ==
  LET v == PaddedView(r, r.view[at])
  IN  View(v.offset, [k \in Dims |-> IF Extents(r)[k] > 1 THEN v.strides[k] ELSE 0])

PointwiseRefusals(r) ==
  LET e == Extents(r)
      out == Canonical(r, "out")
      Elements(at) == r.storage[at].capacity \div Bytes(r.type[at])
      Reaches(at) == LET max == MaxElement(Canonical(r, at), e)
                     IN  max < U64 /\ max < WordLimit /\ max < Elements(at)
  IN << <<r.ndim > 4, "NdimOutOfRange">>,
        <<Types(r) \notin StorageModules, "StorageUnbuilt">>,
        <<r.kind = "Triu" /\ r.ndim < 2, "TriuNeedsTwoDimensions">>,
        <<0 \in {e[k] : k \in Dims}, "ZeroElements">>,
        <<\E at \in Operands : ~Reaches(at), "AddressOverflow">>,
        <<r.kind # "Fill" /\ ~AddressesAreDistinct(out.strides, e), "OutputSelfOverlap">>,
        <<\E at \in Operands \ {"out"} :
            /\ r.storage[at].identity = r.storage["out"].identity
            /\ Canonical(r, at) # out \/ r.type[at] # r.type["out"], "OutputOverlapsInput">>,
        <<Count(e) >= U32, "AddressOverflow">>,
        <<Count(e) # r.n, "ElementCountMismatch">> >>

\* dispatch_push_constants: neighbouring dimensions merge where every operand
\* the operation touches runs on from one to the other; Triu keeps its rows.
Joined(touched, dims, dim) ==
  IF dims # <<>> /\ \A at \in touched : Last(dims).stride[at] = dim.stride[at] * dim.extent
  THEN Append(Front(dims), [extent |-> Last(dims).extent * dim.extent, stride |-> dim.stride])
  ELSE Append(dims, dim)
Coalesced(r) ==
  LET e == Extents(r)
      touched == {at \in Operands : Reads(r, at)}
      Dim(k) == [extent |-> e[k], stride |-> [at \in Operands |-> Canonical(r, at).strides[k]]]
      real == [i \in 1..r.ndim |-> Dim(4 - r.ndim + i)]
  IN  IF r.kind = "Triu" \/ r.ndim <= 1 THEN real
      ELSE FoldLeft(LAMBDA dims, dim : Joined(touched, dims, dim), <<>>,
                    SelectSeq(real, LAMBDA dim : dim.extent > 1))

\* vector_eligible: four elements a unit, where the last dimension allows it
\* and it saves work.
VectorEligible(r) ==
  LET dims == Coalesced(r)
      touched == {at \in Operands : Reads(r, at)}
      Broadcast(at) == at # "out" /\ Last(dims).stride[at] = 0
  IN  /\ Types(r) \in VectorModules /\ dims # <<>>
      /\ Last(dims).extent % 4 = 0
      /\ \A at \in touched : Broadcast(at) \/
           /\ Last(dims).stride[at] = 1 /\ r.view[at].offset % 4 = 0
           /\ \A i \in 1..(Len(dims) - 1) : dims[i].stride[at] % 4 = 0
      /\ \E at \in touched : Broadcast(at) \/ r.type[at] \in {"Bf16", "F16"}

\* The shader works on nothing when the shape has more than 2^31 elements.
PointwisePlan(r) ==
  LET why == FirstOf(PointwiseRefusals(r))
      dims == Coalesced(r)
      merged == Padded([i \in DOMAIN dims |-> dims[i].extent], 1)
      At(at, l) == Address(View(r.view[at].offset, Padded([i \in DOMAIN dims |-> dims[i].stride[at]], 0)),
                           Coordinates(l, merged))
      four == r.vector /\ VectorEligible(r)
      wide == IF four THEN 4 ELSE 1
      How(at) == IF at # "out" THEN "read" ELSE IF r.kind = "Fill" THEN "fill" ELSE "write"
      Touched(u) == {ElementTouch(at, How(at), At(at, l), Bytes(r.type[at])) :
                       at \in {a \in Operands : Reads(r, a)}, l \in (u * wide)..(u * wide + wide - 1)}
  IN  IF why # "none" THEN Refused(why)
      ELSE Planned(<<Pass(IF four THEN <<"pointwise_vector", Types(r)>> ELSE <<"pointwise", Types(r)>>,
                          Count(Extents(r)) \div wide, PerGroup \div wide,
                          <<CeilDiv(Count(Extents(r)), PerGroup), 1, 1>>,
                          IF Count(Extents(r)) > WordLimit THEN <<>>
                          ELSE [u \in 0..(Count(Extents(r)) \div wide - 1) |-> Touched(u)])>>)
-----------------------------------------------------------------------------
(* The radix sort: keys, digit passes between the halves of one scratch,   *)
(* ranks.  A key is a sequence of digits, least significant first.         *)
LimitElements == (WordLimit - 1 - Digits) \div 7      \* MAX_ELEMENTS
Power[j \in Nat] == IF j = 0 THEN 1 ELSE Digits * Power[j - 1]
DigitCount(v) == CHOOSE d \in 0..v : Power[d] > v /\ \A c \in 0..(d - 1) : Power[c] <= v
\* Mutant: two rows are taken for one.
RowPassesShort(rows) == IF rows <= 2 THEN 0 ELSE DigitCount(rows - 1)

RowPasses(rows) == IF rows <= 1 THEN 0 ELSE DigitCount(rows - 1)
Digit(v, j) == (v \div Power[j]) % Digits

RadixPlan(n, row, keyBytes) ==
  [n |-> n, row |-> row, blocks |-> CeilDiv(n, Block), values |-> keyBytes, rows |-> RowPasses(n \div row)]
DigitPasses(s) == s.values + s.rows
ScratchWords(s) == 6 * s.n + Digits * s.blocks + Digits
KeyWord(s, half, i, word) == 2 * s.n * half + 2 * i + word
PositionWord(s, half, i) == 4 * s.n + s.n * half + i
HistogramWord(s, d, b) == 6 * s.n + d * s.blocks + b
TotalWord(s, d) == 6 * s.n + Digits * s.blocks + d

\* digit_of: the digit of pass j of element i, its key's or its row's.
DigitOf(s, keys, j, i) ==
  IF j < s.values THEN Digit(keys[i], j) ELSE Digit(i \div s.row, j - s.values)

\* Where one pass moves what stands at a position: behind every smaller digit
\* and every equal one before it.  `placed` holds the pairs of a position and
\* the element that stands there.
Target(s, keys, placed, j, c) ==
  LET D(q) == DigitOf(s, keys, j, q[2])
  IN  Cardinality({q \in placed : D(q) < D(c) \/ (D(q) = D(c) /\ q[1] < c[1])})
Moved(s, keys, placed, j) == {<<Target(s, keys, placed, j, c), c[2]>> : c \in placed}

\* One element of the pairs: two words of key, one of position.
PairTouches(s, how, half, i) ==
  {WordTouch("scratch", how, KeyWord(s, half, i, w)) : w \in {0, 1}}
    \cup {WordTouch("scratch", how, PositionWord(s, half, i))}
InBlock(s, b) == {i \in 0..(s.n - 1) : i \div Block = b}

\* The three dispatches of digit pass j: count each block's digits, turn the
\* counts into starts, move every element to its place.
DigitPass(s, keys, placed, j) ==
  LET Histogram(b) ==
        (UNION {PairTouches(s, "read", j % 2, i) : i \in InBlock(s, b)})
          \cup {WordTouch("scratch", "write", HistogramWord(s, d, b)) : d \in 0..(Digits - 1)}
      Scan(d) == {WordTouch("scratch", how, HistogramWord(s, d, b)) : b \in 0..(s.blocks - 1), how \in {"read", "write"}}
                   \cup {WordTouch("scratch", "write", TotalWord(s, d))}
      Scatter(b) ==
        {WordTouch("scratch", "read", TotalWord(s, d)) : d \in 0..(Digits - 1)}
          \cup {WordTouch("scratch", "read", HistogramWord(s, d, b)) : d \in 0..(Digits - 1)}
          \cup (UNION {PairTouches(s, "read", j % 2, i) : i \in InBlock(s, b)})
          \cup UNION {PairTouches(s, "write", (j + 1) % 2, Target(s, keys, placed, j, c)) :
                        c \in {q \in placed : q[1] \in InBlock(s, b)}}
  IN  <<Pass(<<"radix">>, s.blocks, 1, Folded(s.blocks, 1), [b \in 0..(s.blocks - 1) |-> Histogram(b)]),
        Pass(<<"radix">>, Digits, 1, Folded(Digits, 1), [d \in 0..(Digits - 1) |-> Scan(d)]),
        Pass(<<"radix">>, s.blocks, 1, Folded(s.blocks, 1), [b \in 0..(s.blocks - 1) |-> Scatter(b)])>>

\* What stands where before pass j, every element at its own place before the
\* first; the dispatches of all the passes, and the order they leave the
\* elements in.
Placed(s, keys) ==
  LET After[j \in Nat] ==
        IF j = 0 THEN {<<i, i>> : i \in 0..(s.n - 1)} ELSE Moved(s, keys, After[j - 1], j - 1)
  IN  After
RadixSort(s, keys) ==
  LET placed == Placed(s, keys)[DigitPasses(s)]
      Step(j) == DigitPass(s, keys, Placed(s, keys)[j], j)
  IN  [order |-> [p \in 1..s.n |-> (CHOOSE c \in placed : c[1] = p - 1)[2]],
       passes |-> [p \in 1..(3 * DigitPasses(s)) |-> Step((p - 1) \div 3)[((p - 1) % 3) + 1]]]
-----------------------------------------------------------------------------
(* Indexing: gather, scatter, scatter-add along one dimension.  r.pick[l]  *)
(* is the index element l holds, -1 for one out of range.                  *)
Axis(r) == 4 - r.ndim + r.dim + 1
With(e, k, v) == [e EXCEPT ![k] = v]
Fibers(r) == Count(With(Extents(r), Axis(r), 1))
Fiber(r, l) ==
  LET c == With(Coordinates(l, Extents(r)), Axis(r), 0)
  IN  Dot(c, Dense(With(Extents(r), Axis(r), 1)))
Slot(r, l) == Fiber(r, l) * r.bound + r.pick[l]

\* fibers_are_disjoint: the fibers' own strides step over a whole fiber.
FibersAreDisjoint(r, out, e) ==
  LET d == Axis(r)
      real == {k \in Dims \ {d} : e[k] > 1}
      Below(k) == {j \in real : Before(out, e, j, k)}
  IN  \A k \in real : out[k] >= Reach(out, e, Below(k)) + (r.bound - 1) * out[d]

IndexRefusals(r) ==
  LET e == Extents(r)
      d == Axis(r)
      indexed == With(e, d, r.bound)
      out == PaddedView(r, r.out)
      es == Bytes(r.type)
      St(at) == r.storage[at]
      reads == {"index"} \cup IF r.value THEN {} ELSE {"src"}
  IN << <<BadRank(r), "NdimOutOfRange">>, <<r.dim >= r.ndim, "DimOutOfRange">>,
        <<0 \in {e[k] : k \in Dims}, "ZeroElements">>,
        <<Count(e) >= WordLimit, "AddressOverflow">>,
        <<r.bound = 0 \/ r.bound >= WordLimit, "BoundOutOfRange">>,
        <<r.value /\ r.op # "Scatter", "ValueNeedsScatter">>,
        <<r.alpha /\ ~(r.op = "ScatterAdd" /\ r.type = "F32"), "AlphaNeedsF32ScatterAdd">>,
        <<r.statusSlot >= St("status").capacity \div 4, "StatusSlotOutOfRange">>,
        <<~Fits(PaddedView(r, r.index), e, IF r.i32 THEN 4 ELSE 8, St("index").capacity), "AddressOverflow">>,
        <<~r.value /\ ~Fits(PaddedView(r, r.src), IF r.op = "Gather" THEN indexed ELSE e, es, St("src").capacity),
          "AddressOverflow">>,
        <<~Fits(out, IF r.op = "Gather" THEN e ELSE indexed, es, St("out").capacity), "AddressOverflow">>,
        <<r.op = "Gather" /\ ~(RowMajor(out.strides, e) /\ r.out.offset % Slots(es) = 0), "GatherOutputNotContiguous">>,
        <<r.op # "Gather" /\ ~AddressesAreDistinct(out.strides, indexed), "OutputSelfOverlap">>,
        <<\E at \in reads : St(at).identity = St("out").identity, "OutputOverlapsInput">>,
        <<\E at \in reads \cup {"out"} : St(at).identity = St("status").identity, "StatusOverlapsOperand">> >>

\* How many neighbours one unit of a scatter takes, and whether fibers that
\* share words are written with atomics.
ScatterSharing(r) ==
  LET e == Extents(r)
      d == Axis(r)
      out == PaddedView(r, r.out).strides
      g == Slots(Bytes(r.type))
      inner == {k \in Dims \ {d} : e[k] > 1}
      k0 == CHOOSE k \in inner : \A j \in inner : j <= k
      grouped == /\ out[k0] = 1 /\ e[k0] % g = 0 /\ r.out.offset % g = 0
                 /\ \A k \in Dims \ {k0} : With(e, d, r.bound)[k] = 1 \/ out[k] % g = 0
      alone == /\ r.out.offset % g = 0 /\ FibersAreDisjoint(r, out, e)
               /\ \A k \in Dims \ {d} : e[k] = 1 \/ out[k] % g = 0
  IN  IF g = 1 \/ inner = {} THEN [group |-> 1, atomic |-> FALSE]
      ELSE IF grouped THEN [group |-> g, atomic |-> FALSE]
      ELSE [group |-> 1, atomic |-> ~alone]

IndexStrategy(r) ==
  LET along == Extents(r)[Axis(r)]
      slots == Fibers(r) * r.bound
  IN  CASE along < LongFiber -> "Fibers"
        [] along >= LongFiber /\ r.op = "ScatterAdd" /\ r.type \in {"I32", "I64"} -> "AtomicAdd"
        [] along >= LongFiber /\ r.op = "Scatter" /\ slots <= ElectScratchLimit -> "Elected"
        [] along >= LongFiber /\ r.op = "ScatterAdd" /\ r.type \notin {"I32", "I64"}
             /\ Count(Extents(r)) <= LimitElements /\ slots < WordLimit - 1 -> "Grouped"
        [] OTHER -> "Fibers"

\* The element an index reaches, and the ways the shader touches it.
Reached(r, l) == With(Coordinates(l, Extents(r)), Axis(r), r.pick[l])
StoreTouch(r, how, l) ==
  LET e == Address(PaddedView(r, r.out), Reached(r, l)) IN
  IF Bytes(r.type) >= 4 THEN ElementTouch("out", how, e, Bytes(r.type))
  ELSE WordTouch("out", how, e \div Slots(Bytes(r.type)))
IndexTouch(r, l) ==
  ElementTouch("index", "read", Address(PaddedView(r, r.index), Coordinates(l, Extents(r))), IF r.i32 THEN 4 ELSE 8)
StatusTouch(r, l) == IF r.pick[l] = -1 THEN {WordTouch("status", "atomic", r.statusSlot)} ELSE {}
SourceTouch(r, c) ==
  IF r.value THEN {} ELSE {ElementTouch("src", "read", Address(PaddedView(r, r.src), c), Bytes(r.type))}

GatherTouches(r, u) ==
  LET per == Slots(Bytes(r.type))
      n == Count(Extents(r))
      mine == {l \in (u * per)..(u * per + per - 1) : l < n}
  IN  (UNION {{IndexTouch(r, l)} \cup StatusTouch(r, l)
               \cup (IF r.pick[l] = -1 THEN {} ELSE SourceTouch(r, Reached(r, l))) : l \in mine})
        \cup {IF per = 1 THEN ElementTouch("out", "write", r.out.offset + u, Bytes(r.type))
              ELSE WordTouch("out", "write", r.out.offset \div per + u)}

\* The elements of unit v of a fiber walk: `group` neighbouring fibers.
WalkedBy(r, v) ==
  LET g == ScatterSharing(r).group
      e == With(Extents(r), Axis(r), 1)
      inner == {k \in Dims : e[k] > 1}
      k0 == IF g = 1 THEN 1 ELSE CHOOSE k \in inner : \A j \in inner : j <= k
      fewer == [e EXCEPT ![k0] = @ \div g]
      Group(l) == LET c == With(Coordinates(l, Extents(r)), Axis(r), 0)
                  IN  Dot([c EXCEPT ![k0] = @ \div g], Dense(fewer))
  IN  {l \in 0..(Count(Extents(r)) - 1) : Group(l) = v}
ScatterTouches(r, how, l) ==
  {IndexTouch(r, l)} \cup StatusTouch(r, l)
    \cup (IF r.pick[l] = -1 THEN {}
          ELSE SourceTouch(r, Coordinates(l, Extents(r))) \cup {StoreTouch(r, how, l)})

\* The elected scatter: clear a word a slot, raise it to the last writer's
\* place along the fiber, let the winners write.
Place(r, l) == Coordinates(l, Extents(r))[Axis(r)] + 1
Winner(r, l) == \A m \in DOMAIN r.pick :
  r.pick[m] # -1 /\ Slot(r, m) = Slot(r, l) => Place(r, m) <= Place(r, l)
ElectedPasses(r) ==
  LET n == Count(Extents(r))
      slots == Fibers(r) * r.bound
      Vote(l) == IF r.pick[l] = -1 THEN {} ELSE {WordTouch("scratch", "atomic", Slot(r, l))}
      Tally(l) == IF r.pick[l] = -1 THEN {} ELSE {WordTouch("scratch", "read", Slot(r, l))}
      Write(l) == IF r.pick[l] = -1 \/ ~Winner(r, l) THEN {}
                  ELSE SourceTouch(r, Coordinates(l, Extents(r)))
                         \cup {StoreTouch(r, IF Bytes(r.type) >= 4 THEN "write" ELSE "atomic", l)}
  IN <<Pass(<<"index">>, slots, Lanes, Folded(slots, Lanes), [s \in 0..(slots - 1) |-> {WordTouch("scratch", "write", s)}]),
       Pass(<<"index">>, n, Lanes, Folded(n, Lanes), [l \in 0..(n - 1) |-> {IndexTouch(r, l)} \cup StatusTouch(r, l) \cup Vote(l)]),
       Pass(<<"index">>, n, Lanes, Folded(n, Lanes), [l \in 0..(n - 1) |-> {IndexTouch(r, l)} \cup Tally(l) \cup Write(l)])>>

\* The grouped scatter-add: key each element with its slot, sort, and let the
\* first of each run of equal keys add the run.
GroupKeyBytes(slots) == IF slots < Digits THEN 1 ELSE IF slots < Digits * Digits THEN 2 ELSE 4
Sentinel(slots) == Power[GroupKeyBytes(slots)] - 1
GroupKeys(r) ==
  [l \in DOMAIN r.pick |-> IF r.pick[l] = -1 THEN Sentinel(Fibers(r) * r.bound) ELSE Slot(r, l)]
GroupedSort(r) ==
  LET n == Count(Extents(r)) IN RadixPlan(n, n, GroupKeyBytes(Fibers(r) * r.bound))
GroupedPasses(r) ==
  LET n == Count(Extents(r))
      keys == GroupKeys(r)
      s == GroupedSort(r)
      half == DigitPasses(s) % 2
      sort == RadixSort(s, keys)
      At(q) == sort.order[q + 1]
      Key(q) == keys[At(q)]
      Run(q) == {p \in q..(n - 1) : Key(p) = Key(q)}
      First(q) == Key(q) # Sentinel(Fibers(r) * r.bound) /\ (q = 0 \/ Key(q - 1) # Key(q))
      How == IF Bytes(r.type) >= 4 THEN "write" ELSE "atomic"
      KeyOf(q) == {IndexTouch(r, q)} \cup StatusTouch(r, q) \cup PairTouches(s, "write", 0, q)
      RunOf(q) == {WordTouch("scratch", "read", KeyWord(s, half, p, 0)) : p \in {Most(q - 1, 0), q}}
        \cup IF ~First(q) THEN {} ELSE UNION {
               {WordTouch("scratch", "read", KeyWord(s, half, p, 0)), WordTouch("scratch", "read", PositionWord(s, half, p)),
                StoreTouch(r, How, At(p))} \cup SourceTouch(r, Coordinates(At(p), Extents(r))) : p \in Run(q)}
  IN  <<Pass(<<"index">>, n, Lanes, Folded(n, Lanes), [q \in 0..(n - 1) |-> KeyOf(q)])>>
        \o sort.passes
        \o <<Pass(<<"index">>, n, Lanes, Folded(n, Lanes), [q \in 0..(n - 1) |-> RunOf(q)])>>

IndexScratchWords(r) ==
  CASE IndexStrategy(r) = "Elected" -> Fibers(r) * r.bound
    [] IndexStrategy(r) = "Grouped" -> ScratchWords(GroupedSort(r)) [] OTHER -> 0

IndexPlan(r) ==
  LET why == FirstOf(IndexRefusals(r))
      n == Count(Extents(r))
      One(units, touches) == Planned(<<Pass(<<"index">>, units, Lanes, Folded(units, Lanes), touches)>>)
      words == IF Bytes(r.type) = 8 THEN n ELSE CeilDiv(n * Bytes(r.type), 4)
      share == ScatterSharing(r)
      units == Fibers(r) \div share.group
      How == IF share.atomic THEN "atomic" ELSE "write"
  IN  CASE why # "none" -> Refused(why)
        [] why = "none" /\ r.op = "Gather" -> One(words, [u \in 0..(words - 1) |-> GatherTouches(r, u)])
        [] why = "none" /\ r.op # "Gather" /\ IndexStrategy(r) = "Fibers" ->
             One(units, [v \in 0..(units - 1) |-> UNION {ScatterTouches(r, How, l) : l \in WalkedBy(r, v)}])
        [] why = "none" /\ IndexStrategy(r) = "AtomicAdd" ->
             One(n, [l \in 0..(n - 1) |-> ScatterTouches(r, "atomic", l)])
        [] why = "none" /\ IndexStrategy(r) = "Elected" -> PlannedWith(ElectedPasses(r), IndexScratchWords(r))
        [] why = "none" /\ IndexStrategy(r) = "Grouped" -> PlannedWith(GroupedPasses(r), IndexScratchWords(r))
-----------------------------------------------------------------------------
(* Integer arithmetic, scans and ranks.  The kinds stand for the 29        *)
(* operations of IntOp, by what the plan asks of them: "Bits" for And, Or, *)
(* Xor, "Shift" for both, "Compare" for six, "Negate" for Neg and Abs,     *)
(* "Triangle" for two, "Division" for the four by a scalar, "Rank" for two *)
HasY(r) == r.kind \in {"Add", "Sub", "Mul", "Bits", "Shift", "Compare", "Division", "Div"}
IntReads(r, at) ==
  CASE at = "x" -> r.kind \notin {"Fill", "Arange"} [] at = "y" -> HasY(r) /\ ~r.yScalar
Binary64(kind) == kind \in {"Compare", "Add", "Sub", "Mul", "Div", "Reciprocal", "Negate", "Fill"}
RefusedOnBool(kind) == kind \in {"Division", "Sub", "Negate", "Shift", "Arange", "Scan"}

\* check_codes: binary64 arithmetic or integers throughout; a rank's input
\* may be a float.
CodeRefusals(r) ==
  LET used == {r.out_code, r.compute} \cup (IF r.kind = "Rank" THEN {} ELSE {r.type["x"]}) \cup {r.type["y"]}
  IN << <<r.compute = "F64" /\ ~Binary64(r.kind), "OpNotForCompute">>,
        <<r.compute = "F64" /\ r.out_code # (IF r.kind = "Compare" THEN "Bool" ELSE "F64"), "FloatOutput">>,
        <<r.compute # "F64" /\ ~(used \subseteq IntegerCodes), "CodeNotInteger">>,
        <<r.compute # "F64" /\ r.kind \in {"Div", "Reciprocal"}, "OpNotForCompute">>,
        <<r.compute = "Bool" /\ RefusedOnBool(r.kind), "BoolOperation">> >>

\* check_divisor: the divisor is a scalar, neither zero nor, where the
\* quotient could overflow, minus one; it is wrapped to the compute type.
Narrowed(code, v) ==
  LET w == CASE code \in {"U8", "I8"} -> 256 [] code = "I16" -> 65536 [] OTHER -> U32
  IN  CASE code = "Bool" -> IF v = 0 THEN 0 ELSE 1
        [] code \in {"U8", "I8", "I16", "I32"} ->
             IF code = "U8" \/ v % w < w \div 2 THEN v % w ELSE (v % w) - w
        [] OTHER -> v
DivisorRefusals(r) ==
  LET divisor == Narrowed(r.compute, r.scalar) IN
  << <<r.kind = "Division" /\ ~r.yScalar, "DivisorNotScalar">>,
     <<r.kind = "Division" /\ divisor = 0, "DivideByZero">>,
     <<r.kind = "Division" /\ divisor = -1 /\ r.compute \in {"I32", "I64"}, "DivideOverflow">>,
     <<r.compute = "F64" /\ r.kind \in {"Add", "Sub"} /\ r.alpha \notin {1, -1}, "FloatAlpha">> >>

\* A long row of ranks is sorted, where the radix module takes it.
Sorted(r) ==
  /\ r.kind = "Rank" /\ Extents(r)[4] > RadixMinRow /\ r.out_code = r.compute
  /\ r.out_code \in {"I64", "I32"} /\ Count(Extents(r)) \in 1..LimitElements
RankSort(r) == RadixPlan(Count(Extents(r)), Extents(r)[4], Bytes(r.type["x"]))

IntWhole(r) ==
  /\ r.kind # "Scan" /\ Bytes(r.out_code) < 4
  /\ RowMajor(PaddedView(r, r.view["out"]).strides, Extents(r))
  /\ r.view["out"].offset % Slots(Bytes(r.out_code)) = 0

IntwiseRefusals(r) ==
  LET e == Extents(r)
      V(at) == PaddedView(r, r.view[at])
      SameView(at) == /\ r.type[at] = r.out_code /\ V(at).offset = V("out").offset
                      /\ \A k \in Dims : e[k] = 1 \/ V(at).strides[k] = V("out").strides[k]
      InPlace(at) == r.storage[at].identity = r.storage["out"].identity
  IN  CodeRefusals(r) \o DivisorRefusals(r) \o
      << <<BadRank(r), "NdimOutOfRange">>, <<0 \in {e[k] : k \in Dims}, "ZeroElements">>,
         <<Count(e) >= WordLimit, "AddressOverflow">>,
         <<r.kind = "Scan" /\ e[4] > ScanLimit, "ScanTooLong">>,
         <<r.kind = "Rank" /\ ~Sorted(r) /\ (e[4] > RankRowLimit \/ Count(e) * e[4] > RankWorkLimit), "RankTooLong">>,
         <<\E at \in {"x", "y"} : IntReads(r, at)
             /\ ~Fits(V(at), e, Bytes(r.type[at]), r.storage[at].capacity), "AddressOverflow">>,
         <<~Fits(V("out"), e, Bytes(r.out_code), r.storage["out"].capacity), "AddressOverflow">>,
         <<~IntWhole(r) /\ ~AddressesAreDistinct(V("out").strides, e), "OutputSelfOverlap">>,
         <<IntReads(r, "x") /\ InPlace("x") /\ (r.kind = "Rank" \/ ~SameView("x")), "OutputOverlapsInput">>,
         <<IntReads(r, "y") /\ InPlace("y") /\ ~SameView("y"), "OutputOverlapsInput">> >>

\* The elements of unit u: a row of a scan, the slots of a word, or one; a
\* rank's element reads its whole row.
IntElements(r, u) ==
  LET e == Extents(r)
      per == Slots(Bytes(r.out_code))
  IN  CASE r.kind = "Scan" -> (u * e[4])..(u * e[4] + e[4] - 1)
        [] IntWhole(r) -> {l \in (u * per)..(u * per + per - 1) : l < Count(e)}
        [] OTHER -> {u}
IntReadBy(r, l) ==
  IF r.kind # "Rank" THEN {l}
  ELSE {m \in 0..(Count(Extents(r)) - 1) : m \div Extents(r)[4] = l \div Extents(r)[4]}
IntAddress(r, at, l) == Address(PaddedView(r, r.view[at]), Coordinates(l, Extents(r)))
IntOutTouch(r, l) ==
  LET es == Bytes(r.out_code) IN
  IF es >= 4 THEN ElementTouch("out", "write", IntAddress(r, "out", l), es)
  ELSE WordTouch("out", IF IntWhole(r) THEN "write" ELSE "atomic", IntAddress(r, "out", l) \div Slots(es))
IntwiseTouches(r, u) ==
  {ElementTouch(at, "read", IntAddress(r, at, m), Bytes(r.type[at])) :
     at \in {a \in {"x", "y"} : IntReads(r, a)}, m \in UNION {IntReadBy(r, l) : l \in IntElements(r, u)}}
    \cup {IntOutTouch(r, l) : l \in IntElements(r, u)}

RankPasses(r) ==
  LET s == RankSort(r)
      sort == RadixSort(s, r.keys)
      Key(i) == PairTouches(s, "write", 0, i) \cup {ElementTouch("x", "read", IntAddress(r, "x", i), Bytes(r.type["x"]))}
      Rank(q) == {WordTouch("scratch", "read", PositionWord(s, DigitPasses(s) % 2, q)), IntOutTouch(r, sort.order[q + 1])}
      Each(touches) == <<Pass(<<"radix">>, s.n, Lanes, Folded(CeilDiv(s.n, Lanes), 1), touches)>>
  IN  Each([i \in 0..(s.n - 1) |-> Key(i)]) \o sort.passes \o Each([q \in 0..(s.n - 1) |-> Rank(q)])

IntwisePlan(r) ==
  LET why == FirstOf(IntwiseRefusals(r))
      n == Count(Extents(r))
      units == CASE r.kind = "Scan" -> n \div Extents(r)[4]
                 [] IntWhole(r) -> CeilDiv(n, Slots(Bytes(r.out_code))) [] OTHER -> n
      per == IF r.kind = "Scan" THEN 1 ELSE Lanes
  IN  CASE why # "none" -> Refused(why)
        [] why = "none" /\ Sorted(r) -> PlannedWith(RankPasses(r), ScratchWords(RankSort(r)))
        [] why = "none" /\ ~Sorted(r) ->
             Planned(<<Pass(<<"intwise", r.compute = "F64">>, units, per, Folded(units, per),
                            [u \in 0..(units - 1) |-> IntwiseTouches(r, u)])>>)

\* What the sort writes: the element at each rank, row by row.
RankOrder(r) == RadixSort(RankSort(r), r.keys).order
-----------------------------------------------------------------------------
(* The entries of the C ABI that answer these: the code a refusal becomes, *)
(* the kernels built on first use, the scratch allocated, and the reads    *)
(* and writes declared to the recorded batch for each pass.  A declaration *)
(* names every operand a kernel is bound to, used or not.                  *)

\* A plan's refusal as the code the entry returns.
Coded(plan, sizes) ==
  IF Admitted(plan) THEN plan ELSE Refused(IF plan.why \in sizes THEN "SIZE" ELSE "SHAPE")

ConvertEntry(r) ==
  LET plan == Coded(ConvertPlan(r), {"AddressOverflow"})
  IN  Recorded(plan, {plan.passes[1].kernel}, LAMBDA i, pass : Declaring(pass, {"x"}, {"out"}))

\* ensure_pointwise_modules builds the storage module and, unless vectors
\* are off, its vector twin; the all-f32 module is open from the start.
OpenModule == <<"F32", "F32", "F32", "F32">>
PointwiseModules(r) ==
  {<<"pointwise", Types(r)>> : t \in {Types(r)} \ {OpenModule}}
    \cup {<<"pointwise_vector", t>> : t \in IF r.vector THEN {Types(r)} \cap VectorModules ELSE {}}
PointwiseEntry(r) ==
  LET plan == Coded(PointwisePlan(r), {"AddressOverflow"}) IN
  IF Types(r) \in StorageModules /\ "Bool" \in {Types(r)[i] : i \in 1..4} /\ ~r.bool8
  THEN Refused("UNSUPPORTED")
  ELSE Recorded(plan, PointwiseModules(r), LAMBDA i, pass : Declaring(pass, {"x", "y", "z"}, {"out"}))

\* may_plan_grouped: asked of the raw request, before there is a plan.
MayPlanGrouped(r) ==
  /\ r.op = "ScatterAdd" /\ r.type \notin {"I32", "I64"}
  /\ r.ndim \in 1..4 /\ r.dim < r.ndim /\ r.shape[r.dim + 1] >= LongFiber

\* Mutant: the winners are stored under the declarations of the election.
ElectionAccess(strategy, count, i, pass) ==
  IF strategy = "Elected" /\ i = 3 THEN Declaring(pass, {"src", "index"}, {"out", "status"})
  ELSE Declaring(pass, {"src", "index", "out"}, {"scratch", "status", "out"})

\* record_grouped, record_elected and the single dispatch of the others.  The
\* third pass of an election is bound to the scratch where the others have
\* the status.
IndexAccess(strategy, count, i, pass) ==
  CASE strategy = "Elected" /\ i = 1 -> Declaring(pass, {"src", "index", "status"}, {"scratch"})
    [] strategy = "Elected" /\ i = 2 -> Declaring(pass, {"src", "index"}, {"scratch", "status"})
    [] strategy = "Elected" /\ i = 3 -> Declaring(pass, {"src", "index", "scratch"}, {"out"})
    [] strategy = "Grouped" /\ i = 1 -> Declaring(pass, {"src", "index"}, {"scratch", "status"})
    [] strategy = "Grouped" /\ i \in 2..(count - 1) -> Declaring(pass, {"index", "out"}, {"scratch"})
    [] strategy = "Grouped" /\ i = count -> Declaring(pass, {"src", "scratch", "status"}, {"out"})
    [] strategy \notin {"Elected", "Grouped"} -> Declaring(pass, {"src", "index"}, {"out", "status"})

IndexEntry(r) ==
  LET plan == Coded(IndexPlan(r), {"AddressOverflow", "StatusSlotOutOfRange"})
      strategy == IF r.op = "Gather" THEN "Gather" ELSE IndexStrategy(r)
      built == {<<"index">>} \cup IF MayPlanGrouped(r) THEN {<<"radix">>} ELSE {}
  IN  Recorded(plan, built, LAMBDA i, pass : IndexAccess(strategy, Len(plan.passes), i, pass))

\* may_plan_radix, likewise.
MayPlanRadix(r) ==
  /\ r.kind = "Rank" /\ r.out_code = r.compute /\ r.out_code \in {"I64", "I32"}
  /\ r.ndim \in 1..4 /\ r.shape[r.ndim] > RadixMinRow

\* record_radix: only the pass that writes the ranks writes the output.
IntwiseEntry(r) ==
  LET plan == Coded(IntwisePlan(r), {"AddressOverflow"})
      built == {<<"intwise", r.compute = "F64">>}
                 \cup IF MayPlanRadix(r) THEN {<<"radix">>} ELSE {}
      Access(i, pass) ==
        IF ~Sorted(r) THEN Declaring(pass, {"x", "y"}, {"out"})
        ELSE IF i = Len(plan.passes) THEN Declaring(pass, {"x", "scratch"}, {"out"})
        ELSE Declaring(pass, {"x", "out"}, {"scratch"})
  IN  Recorded(plan, built, Access)

\* The elements of a request.
Every(r) == 0..(Count(Extents(r)) - 1)
=============================================================================
