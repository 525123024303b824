------------------------------ MODULE RowPlans ------------------------------
(***************************************************************************)
(* The operations a work group does a row of: reduction (reduce_ops),      *)
(* softmax and RMS norm (row_ops), cross entropy (loss_ops), embedding     *)
(* (embedding_ops) and the student's norms (student_norm_ops), each with   *)
(* the entry of the C ABI that answers it.  An entry refuses with the code *)
(* it returns.  The flags, the limits and the order of the tests are the   *)
(* code's; values, handles and null pointers are left out.                 *)
(***************************************************************************)
EXTENDS LaunchGeometry, SequencesExt

CONSTANTS
  Law,    \* the thresholds of the split law of reduce_ops
  Limit   \* the largest shapes each plan admits

LawFields ==
  {"lanes", "chunk", "keptMin", "groupsMin", "anyGrid", "tileMin", "tileMax", "rowMax", "chunkMin", "splitsMax",
   "perLane", "target", "splitRows", "v1SplitMin", "v1ChunkMin", "v2SplitRows", "v2SplitTile", "rank"}
LimitFields == {"rows", "cols", "elements", "tokens", "vocab", "dim", "width", "headWidth", "groupRows", "lanes"}

ASSUME RowAssumption ==
  /\ Law \in [LawFields -> Nat \ {0}]
  /\ Limit \in [LimitFields -> Nat \ {0}]
-----------------------------------------------------------------------------
(* Reduction.  A view has any rank; `mask` is the set of reduced dims.     *)
Extent(v, dims) == FoldFunctionOnSet(LAMBDA a, b : a * b, 1, v.shape, dims)
Stepped(v, dims, q) ==
  MapThenSumSet(LAMBDA d : ((q \div Extent(v, {e \in dims : e > d})) % v.shape[d]) * v.stride[d], dims)
LastAddress(v) == v.offset + MapThenSumSet(LAMBDA d : (v.shape[d] - 1) * v.stride[d], DOMAIN v.shape)
Kept(v, mask) == DOMAIN v.shape \ mask

\* The product is a plain u64 one; a release build wraps.
KeptCount(v, mask) == Extent(v, Kept(v, mask)) % U64
ReducedCount(v, mask) == Extent(v, mask \cap DOMAIN v.shape)

PowersTo(n) == {p \in 1..n : \E k \in 0..p : p = 2^k}
RoundUp(n) == CHOOSE p \in PowersTo(2 * n) : p >= n /\ \A q \in PowersTo(2 * n) : q >= n => p <= q
RoundDown(n) == CHOOSE p \in PowersTo(n) : \A q \in PowersTo(n) : q <= p
Largest(S) == CHOOSE n \in S : \A m \in S : m <= n
Smallest(S) == CHOOSE n \in S : \A m \in S : n <= m

\* select_v2: a kept dimension of unit stride lies along the lanes, a second
\* one may run on from it.
UnitDims(v, mask) == {d \in Kept(v, mask) : v.stride[d] = 1 /\ v.shape[d] > 1}
FlatDims(v, mask) ==
  LET cdim == Largest(UnitDims(v, mask))
      next == {d \in Kept(v, mask) \ {cdim} : v.shape[d] > 1 /\ v.stride[d] = v.shape[cdim]}
  IN  {cdim} \cup IF next = {} THEN {} ELSE {Largest(next)}

\* The tile: the narrower, the more groups, down to `least`.
V2Groups(wide, outer, splits, tile) == CeilDiv(wide, tile) * outer * splits
V2Tile(wide, outer, splits, chunk) ==
  LET tiles == PowersTo(RoundDown(Least(wide, Law.tileMax)))
      least == Least(RoundUp(Most(Law.lanes \div Most(chunk, 1), Law.tileMin)), Law.tileMax)
  IN  Largest({t \in tiles : t = Largest(tiles) \/ t >= least} \cap
              {t \in tiles : t <= least \/ V2Groups(wide, outer, splits, t) >= Law.groupsMin})

\* {} or one geometry.
V2Geometry(v, mask, splits, chunk) ==
  LET flat == FlatDims(v, mask)
      wide == Extent(v, flat)
      outer == Extent(v, Kept(v, mask) \ flat)
      tile == V2Tile(wide, outer, splits, chunk)
  IN  IF \/ \E d \in mask : v.stride[d] = 1 /\ v.shape[d] > 1
         \/ UnitDims(v, mask) = {}
      THEN {}
      ELSE IF \/ wide < Law.keptMin \/ outer > MaxGroups \/ splits > MaxGroups
              \/ V2Groups(wide, outer, splits, tile) < Law.groupsMin /\ wide < Law.anyGrid
              \/ CeilDiv(wide, tile) > WordLimit
      THEN {}
      ELSE {[cdim |-> Largest(UnitDims(v, mask)), flat |-> flat, wide |-> wide, outer |-> outer, tile |-> tile]}

\* select_v2_split: a one-split plan short of groups splits its rows.
V2Split(v, mask, reduced) ==
  LET one == V2Geometry(v, mask, 1, reduced)
      g == CHOOSE x \in one : TRUE
      Tiles(t) == CeilDiv(g.wide, t) * g.outer
      tile == Least(RoundDown(Least(g.wide, Law.tileMax)), Law.v2SplitTile)
      want == Most(Least(CeilDiv(Law.target, Tiles(tile)), reduced \div Law.splitRows), 1)
      chunk == CeilDiv(reduced, want)
      splits == CeilDiv(reduced, chunk)
  IN  IF one = {} \/ reduced >= U32 THEN {}
      ELSE IF \/ Tiles(g.tile) >= Law.target \/ reduced < Law.v2SplitRows \/ want < 2
              \/ Law.lanes \div tile > chunk \/ splits > MaxGroups \/ g.outer > MaxGroups
      THEN {}
      ELSE {[g |-> [g EXCEPT !.tile = tile], splits |-> splits, chunk |-> chunk]}

\* contiguous_reduced_span: the reduced dimensions are one run of elements.
Contiguous(v, mask) ==
  \A d \in mask : v.shape[d] > 1 => v.stride[d] = Extent(v, {e \in mask : e > d})

V3Lanes(row, rows) ==
  LET most == Least(RoundUp(row), Law.lanes)
      start == Least(RoundUp(Most(CeilDiv(row, Law.perLane), 1)), most)
  IN  Smallest({l \in PowersTo(most) :
                  l >= start /\ (l = most \/ CeilDiv(rows, Law.lanes \div l) >= Law.target)})

\* v3_split_law and v1_split_law.
V3Split(kept, reduced) ==
  LET groups == CeilDiv(kept, Law.lanes \div V3Lanes(reduced, kept))
      chunk == Most(Law.chunkMin, CeilDiv(reduced, Law.splitsMax))
  IN  IF reduced <= Law.rowMax \/ (reduced <= Law.chunk /\ groups >= Law.target)
      THEN [splits |-> 1, chunk |-> reduced]
      ELSE [splits |-> CeilDiv(reduced, chunk), chunk |-> chunk]
V1Split(kept, reduced, law) ==
  LET target == Most(Least(CeilDiv(Law.target, kept), reduced \div Law.v1ChunkMin), law.splits)
      chunk == CeilDiv(reduced, target)
  IN  IF kept * law.splits >= Law.target \/ reduced < Law.v1SplitMin THEN law
      ELSE IF target <= law.splits THEN law
      ELSE [splits |-> CeilDiv(reduced, chunk), chunk |-> chunk]

\* The split that is asked for: of too many elements, of a plan short of
\* groups (own, which is {} or one), or none.
AskedSplit(own, reduced) ==
  IF reduced > Law.chunk THEN [splits |-> CeilDiv(reduced, Law.chunk), chunk |-> Law.chunk]
  ELSE IF own = {} THEN [splits |-> 1, chunk |-> reduced]
  ELSE LET o == CHOOSE o \in own : TRUE IN [splits |-> o.splits, chunk |-> o.chunk]

\* The kernel of the first pass and how it splits the reduced elements.
ReduceSplit(r) ==
  LET kept == KeptCount(r.view, r.mask)
      reduced == ReducedCount(r.view, r.mask)
      beyond == ~r.v1Only /\ ~r.f64
      own == IF beyond THEN V2Split(r.view, r.mask, reduced) ELSE {}
      law == AskedSplit(own, reduced)
      v2 == IF reduced <= Law.chunk /\ own # {} THEN {o.g : o \in own}
            ELSE IF beyond THEN V2Geometry(r.view, r.mask, law.splits, law.chunk) ELSE {}
      By(kernel, wide, used, asked) ==
        [kernel |-> kernel, v2 |-> wide, splits |-> used.splits, chunk |-> used.chunk, law |-> asked]
  IN  CASE beyond /\ Contiguous(r.view, r.mask) -> By("v3", {}, V3Split(kept, reduced), V3Split(kept, reduced))
        [] beyond /\ ~Contiguous(r.view, r.mask) /\ v2 # {} -> By("v2", v2, law, law)
        [] beyond /\ ~Contiguous(r.view, r.mask) /\ v2 = {} -> By("v1", {}, V1Split(kept, reduced, law), law)
        [] ~beyond -> By("v1", {}, law, law)

\* The module of a pass: binary64, or the storage of its two ends.
ReduceModule(r, in, out) == IF r.f64 THEN "f64" ELSE <<in, out>>
ReduceBytes(r, half) == IF r.f64 THEN 8 ELSE IF half THEN 2 ELSE 4

\* ReduceView::new and the tests of ReducePlan before any count, then those
\* of the counts.
ReduceRefusals(r) ==
  LET v == r.view IN
  << <<Len(v.shape) \notin 1..Law.rank \/ ReducedCount(v, r.mask) >= U32, "SHAPE">>,
     <<0 \in {v.shape[d] : d \in DOMAIN v.shape}, "SHAPE">>,
     <<LastAddress(v) >= WordLimit, "SIZE">>,
     <<r.f64 /\ (r.in16 \/ r.out16 \/ r.kind # "Sum" \/ r.finish # "None"), "SHAPE">>,
     <<r.mask = {} \/ ~(r.mask \subseteq DOMAIN v.shape), "SHAPE">>,
     <<~r.finite, "SHAPE">>,
     <<LastAddress(v) >= r.storage["x"].capacity \div ReduceBytes(r, r.in16), "SIZE">> >>
SplitRefusals(r) ==
  LET kept == KeptCount(r.view, r.mask)
      splits == ReduceSplit(r).law.splits
  IN << <<kept >= U32 \/ splits >= U32 \/ kept * splits > WordLimit, "SHAPE">>,
        <<Same(r, "out", "x"), "SHAPE">>,
        <<~Room(r, "out", kept * ReduceBytes(r, r.out16)), "SIZE">>,
        <<r.partials /\ (Same(r, "partials", "x") \/ Same(r, "partials", "out")), "SHAPE">> >>

\* Mutant: a part takes the first element of the next.
PartAndNext(split, law, reduced) == (split * law.chunk)..Least(split * law.chunk + law.chunk, reduced - 1)

\* One pass: the part of the reduced elements that row q of `rows` combines,
\* read from `from`, written to `to`.
Part(split, law, reduced) == (split * law.chunk)..(Least(split * law.chunk + law.chunk, reduced) - 1)
ReducePass(r, kernel, module, v, mask, law, from, to, in, out) ==
  LET kept == Kept(v, mask)
      reduced == ReducedCount(v, mask)
      rows == KeptCount(v, mask) * law.splits
      lanes == V3Lanes(Least(law.chunk, reduced), rows)
      Strided(base, split) == {ElementTouch(from, "read", base + Stepped(v, mask, q), in) : q \in Part(split, law, reduced)}
      Row(q) ==
        LET base == v.offset + Stepped(v, kept, q \div law.splits)
            split == q % law.splits
        IN  {ElementTouch(to, "write", q, out)} \cup
            IF kernel = "v1" THEN Strided(base, split)
            ELSE {ElementTouch(from, "read", base + i, in) : i \in Part(split, law, reduced)}
      Grouped(g, u) ==
        LET tiles == CeilDiv(g.wide, g.tile)
            split == (u \div tiles) % law.splits
            outer == u \div (tiles * law.splits)
            written == [v EXCEPT !.stride = [d \in DOMAIN v.shape |-> Extent(v, {e \in kept : e > d})]]
            Column(w, c) ==
              Stepped(w, kept \ g.flat, outer) + (c % v.shape[g.cdim]) * w.stride[g.cdim]
                + MapThenSumSet(LAMBDA d : (c \div v.shape[g.cdim]) * w.stride[d], g.flat \ {g.cdim})
            first == (u % tiles) * g.tile
        IN  UNION {Strided(v.offset + Column(v, c), split)
                     \cup {ElementTouch(to, "write", Column(written, c) * law.splits + split, out)} :
                       c \in first..(Least(first + g.tile, g.wide) - 1)}
      Each(units, per, groups, Touched(_)) ==
        Launch(<<kernel, module>>, units, per, groups, [u \in 0..(units - 1) |-> Touched(u)], {from}, {to})
  IN  CASE kernel = "v1" -> Each(rows, 1, <<rows, 1, 1>>, Row)
        [] kernel = "v3" ->
             LET groups == CeilDiv(rows, Law.lanes \div lanes)
                 x == Least(groups, MaxGroups)
             IN  Each(rows, Law.lanes \div lanes, <<x, CeilDiv(groups, Most(x, 1)), 1>>, Row)
        [] kernel = "v2" ->
             LET g == CHOOSE x \in law.v2 : TRUE
                 tiles == CeilDiv(g.wide, g.tile)
             IN  Each(tiles * law.splits * g.outer, 1, <<tiles, law.splits, g.outer>>, LAMBDA u : Grouped(g, u))

\* ack_reduce.  Partials go to the caller's buffer if it is large enough,
\* otherwise to one the entry allocates and frees.
ReducePasses(r) ==
  LET law == ReduceSplit(r)
      kept == KeptCount(r.view, r.mask)
      two == law.splits > 1
      wide == IF r.f64 THEN 8 ELSE 4
      partials == IF r.partials /\ Room(r, "partials", kept * law.splits * wide) THEN "partials" ELSE "scratch"
      combined == [shape |-> <<kept, law.splits>>, stride |-> <<law.splits, 1>>, offset |-> 0]
      last == [splits |-> 1, chunk |-> law.splits]
      second == IF ~r.v1Only /\ ~r.f64 /\ law.splits <= Law.rowMax THEN "v3" ELSE "v1"
  IN  IF ~two
      THEN <<ReducePass(r, law.kernel, ReduceModule(r, r.in16, r.out16), r.view, r.mask, law, "x", "out",
                        ReduceBytes(r, r.in16), ReduceBytes(r, r.out16))>>
      ELSE <<ReducePass(r, law.kernel, ReduceModule(r, r.in16, FALSE), r.view, r.mask, law, "x", partials,
                        ReduceBytes(r, r.in16), wide),
             ReducePass(r, second, ReduceModule(r, FALSE, r.out16), combined, {2}, last, partials, "out",
                        wide, ReduceBytes(r, r.out16))>>

ReduceKernels(r) ==
  LET halves == {<<TRUE, FALSE>>, <<FALSE, TRUE>>, <<TRUE, TRUE>>} IN
  (IF r.v1Only THEN {} ELSE {<<"v3", <<FALSE, FALSE>>>>})
    \cup (IF r.f64 THEN {<<"v1", "f64">>} ELSE {})
    \cup (IF r.in16 \/ r.out16 THEN {"v1", "v2", "v3"} \X halves ELSE {})

ReduceEntry(r) ==
  LET why == Either(FirstOf(ReduceRefusals(r)), FirstOf(SplitRefusals(r)))
      split == ReduceSplit(r).splits
  IN  Entered(why, ReducePasses(r),
              IF split > 1 THEN KeptCount(r.view, r.mask) * split * (IF r.f64 THEN 2 ELSE 1) ELSE 0,
              ReduceKernels(r))

-----------------------------------------------------------------------------
(* Softmax, log softmax and RMS norm: a group a row, or a column where the *)
(* gradient of gamma is summed.                                            *)
RmsKinds == {"RmsNormForward", "RmsNormBackward", "RmsNormGammaReduction"}
RowReads(r) ==
  {"primary"} \cup (IF r.kind \in {"SoftmaxBackward", "RmsNormBackward", "LogSoftmaxBackward"} THEN {"upstream"} ELSE {})
              \cup (IF r.kind \in {"RmsNormForward", "RmsNormBackward"} THEN {"gamma"} ELSE {})
RowLength(r, at) ==
  LET elements == r.rows * r.cols IN
  CASE at = "primary" -> IF r.kind = "RmsNormGammaReduction" THEN 2 * elements ELSE elements
    [] at = "upstream" -> elements
    [] at = "gamma" -> r.cols
    [] at = "out" -> CASE r.kind = "RmsNormBackward" -> 2 * elements
                       [] r.kind = "RmsNormGammaReduction" -> r.cols
                       [] OTHER -> elements

\* What group g reads of a binding and what it writes.
RowTouches(r, g) ==
  LET elements == r.rows * r.cols
      Row(at, how, shift) == Span(at, how, shift + g * r.cols, r.cols, 4)
  IN  IF r.kind = "RmsNormGammaReduction"
      THEN {ElementTouch("primary", "read", elements + row * r.cols + g, 4) : row \in 0..(r.rows - 1)}
             \cup {ElementTouch("out", "write", g, 4)}
      ELSE {Row(at, "read", 0) : at \in RowReads(r) \ {"gamma"}}
             \cup (IF "gamma" \in RowReads(r) THEN {Span("gamma", "read", 0, r.cols, 4)} ELSE {})
             \cup {Row("out", "write", 0)}
             \cup (IF r.kind = "RmsNormBackward" THEN {Row("out", "write", elements)} ELSE {})

RowEntry(r) ==
  LET groups == IF r.kind = "RmsNormGammaReduction" THEN r.cols ELSE r.rows
      why == FirstOf(<< <<r.rows \notin 1..Limit.rows \/ r.cols \notin 1..Limit.cols, "SHAPE">>,
                        <<r.rows * r.cols > Limit.elements, "SIZE">>,
                        <<~r.finite, "SHAPE">>,
                        <<\E at \in RowReads(r) \cup {"out"} : ~Room(r, at, 4 * RowLength(r, at)), "SIZE">>,
                        <<\E at \in RowReads(r) : Same(r, at, "out"), "SHAPE">> >>)
  IN  Entered(why, <<Launch(<<"rowwise">>, groups, 1, <<groups, 1, 1>>, [g \in 0..(groups - 1) |-> RowTouches(r, g)],
                            {"primary", "upstream", "gamma"}, {"out"})>>, 0, {})

-----------------------------------------------------------------------------
(* Cross entropy.  The targets are validated, uploaded, and read back by   *)
(* the pass; `targets[i]` is a class, -1 for one that is ignored.          *)
LossKinds == {"Forward", "Backward", "Reduce", "NllForward", "NllBackward"}
LossReads(r) ==
  (IF r.kind = "NllBackward" THEN {} ELSE {"primary"})
    \cup (IF r.kind \in {"Backward", "NllBackward"} THEN {"upstream"} ELSE {})
PrimaryBytes(r) == IF r.primary16 THEN 2 ELSE 4
LossBytes(r) == IF r.out16 THEN 2 ELSE 4
LossLength(r, at) ==
  CASE at = "primary" -> IF r.kind = "Reduce" THEN r.rows ELSE r.rows * r.cols
    [] at = "upstream" -> IF r.reduction = "None" THEN r.rows ELSE 1
    [] at = "out" -> CASE r.kind \in {"Forward", "NllForward"} -> r.rows
                       [] r.kind \in {"Backward", "NllBackward"} -> r.rows * r.cols
                       [] r.kind = "Reduce" -> 1
LossPlanRefusals(r) ==
  << <<r.rows \notin 1..Limit.rows \/ r.cols \notin 1..Limit.cols, "SHAPE">>,
     <<r.rows * r.cols > Limit.elements, "SIZE">>,
     <<r.kind = "Reduce" /\ r.reduction = "None", "SHAPE">>,
     <<Len(r.targets) # r.rows, "SHAPE">>,
     <<\E i \in DOMAIN r.targets : r.targets[i] \notin -1..(r.cols - 1), "SHAPE">>,
     <<r.reduction = "Mean" /\ \A i \in DOMAIN r.targets : r.targets[i] = -1, "SHAPE">> >>

\* loss_entry, which ack_loss and ack_loss_bf16 call: the flags of the second
\* choose half-precision logits and output.
LossRefusals(r) ==
  LossPlanRefusals(r) \o
  << <<r.primary16 /\ r.kind \notin {"Forward", "Backward"}, "SHAPE">>,
     <<r.out16 /\ ~(r.kind = "Backward" /\ r.primary16), "SHAPE">>,
     <<r.out16 /\ r.cols % 2 # 0, "SHAPE">>,
     <<"primary" \in LossReads(r) /\ ~Room(r, "primary", LossLength(r, "primary") * PrimaryBytes(r)), "SIZE">>,
     <<r.storage["targets"].capacity # 4 * Len(r.targets), "SIZE">>,
     <<"upstream" \in LossReads(r) /\ ~Room(r, "upstream", 4 * LossLength(r, "upstream")), "SIZE">>,
     <<~Room(r, "out", LossLength(r, "out") * LossBytes(r)), "SIZE">>,
     <<\E at \in LossReads(r) \cup {"targets"} : Same(r, at, "out"), "SHAPE">> >>

LossTouches(r, row) ==
  LET target == r.targets[row + 1]
      first == row * r.cols
      dy == ElementTouch("upstream", "read", IF r.reduction = "None" THEN row ELSE 0, 4)
      logits == Span("primary", "read", first, r.cols, PrimaryBytes(r))
      wide == Span("out", "write", first, r.cols, LossBytes(r))
  IN  {ElementTouch("targets", "read", row, 4)} \cup
      CASE r.kind \in {"Forward", "NllForward"} ->
             {ElementTouch("out", "write", row, 4)} \cup
             (IF target = -1 THEN {} ELSE IF r.kind = "Forward" THEN {logits}
              ELSE {ElementTouch("primary", "read", first + target, 4)})
        [] r.kind = "Backward" -> {wide} \cup IF target = -1 THEN {} ELSE {logits, dy}
        [] r.kind = "NllBackward" -> {wide} \cup IF target = -1 THEN {} ELSE {dy}
ReduceLoss(r) ==
  {Span("targets", "read", 0, r.rows, 4), ElementTouch("out", "write", 0, 4)}
    \cup {ElementTouch("primary", "read", i - 1, 4) : i \in {j \in DOMAIN r.targets : r.targets[j] # -1}}

LossEntry(r) ==
  LET rows == IF r.kind = "Reduce" THEN 1 ELSE r.rows
      half == r.primary16 \/ r.out16
      kernel == IF half THEN <<"loss_bf16", r.out16>> ELSE <<"loss">>
      touches == IF r.kind = "Reduce" THEN [u \in {0} |-> ReduceLoss(r)] ELSE [u \in 0..(rows - 1) |-> LossTouches(r, u)]
  IN  Entered(FirstOf(LossRefusals(r)),
              <<Upload("targets", 4 * r.rows),
                Launch(kernel, rows, 1, <<rows, 1, 1>>, touches, {"primary", "targets", "upstream"}, {"out"})>>,
              0, IF half THEN {"loss_bf16"} \X BOOLEAN ELSE {})
-----------------------------------------------------------------------------
(* Embedding: rows of a table by id, and its gradient, for which the plan  *)
(* lists the positions of each id.  `ids[i]` is the id at position i - 1.  *)
TokenElements(r) == r.n * r.dim
TableElements(r) == r.vocab * r.dim
PrimaryElements(r) == IF r.kind = "Gather" THEN TableElements(r) ELSE TokenElements(r)
OutElements(r) == IF r.kind = "Gather" THEN TokenElements(r) ELSE TableElements(r)

\* offsets[id] positions come before those of id; a position goes where its
\* id's cursor stands.
Offset(r, id) == Cardinality({i \in DOMAIN r.ids : r.ids[i] < id})
Positions(r) == FlattenSeq([id \in 1..r.vocab |->
                  SelectSeq([i \in DOMAIN r.ids |-> i], LAMBDA i : r.ids[i] = id - 1)])

IndexImage(r) == 4 * r.n
OffsetImage(r) == IF r.kind = "Gather" THEN 4 ELSE 4 * (r.vocab + 1)

\* EmbeddingPlan::new and what ack_embedding tests after it.
EmbeddingRefusals(r) ==
  << <<r.n \notin 1..Limit.tokens \/ r.vocab \notin 1..Limit.vocab \/ r.dim \notin 1..Limit.dim, "SHAPE">>,
     <<TokenElements(r) > Limit.elements \/ TableElements(r) > Limit.elements, "SIZE">>,
     <<Len(r.ids) # r.n, "SHAPE">>,
     <<\E i \in DOMAIN r.ids : r.ids[i] \notin 0..(r.vocab - 1), "SHAPE">>,
     <<r.storage["indices"].capacity # IndexImage(r) \/ r.storage["offsets"].capacity # OffsetImage(r), "SIZE">>,
     <<~Room(r, "primary", 4 * PrimaryElements(r)) \/ ~Room(r, "out", 4 * OutElements(r)), "SIZE">>,
     <<\E at \in {"primary", "indices", "offsets"} : Same(r, at, "out"), "SHAPE">> >>

EmbeddingTouches(r, i) ==
  LET row == i \div r.dim
      feature == i % r.dim
      Index(j) == ElementTouch("indices", "read", j, 4)
      Primary(j) == ElementTouch("primary", "read", j * r.dim + feature, 4)
      runs == Offset(r, row)..(Offset(r, row + 1) - 1)
  IN  {ElementTouch("out", "write", i, 4)} \cup
      IF r.kind = "Gather" THEN {Index(row), Primary(r.ids[row + 1])}
      ELSE {Span("offsets", "read", row, 2, 4)}
             \cup UNION {{Index(j), Primary(Positions(r)[j + 1] - 1)} : j \in runs}

EmbeddingEntry(r) ==
  LET units == OutElements(r) IN
  Entered(FirstOf(EmbeddingRefusals(r)),
          <<Upload("indices", IndexImage(r)), Upload("offsets", OffsetImage(r)),
            Launch(<<"embedding">>, units, Limit.lanes, <<CeilDiv(units, Limit.lanes), 1, 1>>,
                   [i \in 0..(units - 1) |-> EmbeddingTouches(r, i)], {"primary", "indices", "offsets"}, {"out"})>>,
          0, {})
-----------------------------------------------------------------------------
(* The student's norms: eight roles, of which each operation and its flags *)
(* use some.  Backward groups take several rows and leave one row of the   *)
(* weight's partial sums.                                                  *)
Roles == {"x", "aux", "w", "tab", "out0", "out1", "dy", "io2"}
NormFlags(kind) ==
  CASE kind = "Norm" -> {"X16", "Aux16", "Add", "Y32", "Y16"} [] kind = "NormBackward" -> {"Dy16", "Dh", "DyAbsent"}
    [] OTHER -> {"SameLayout"}
QkKinds == {"QkNormRope", "QkNormRopeBackward"}
Backward(r) == r.kind \in {"NormBackward", "QkNormRopeBackward"}
NormGroups(r) == IF Backward(r) THEN CeilDiv(r.rows, r.perGroup) ELSE r.rows
NormRefusals(r) ==
  LET qk == r.kind \in QkKinds IN
  << <<r.rows = 0 \/ r.d = 0, "SHAPE">>, <<r.d % 2 # 0, "SHAPE">>,
     <<r.d > (IF qk THEN Limit.headWidth ELSE Limit.width), "SHAPE">>,
     <<~r.finite, "SHAPE">>,
     <<~(r.flags \subseteq NormFlags(r.kind)) \/ (r.kind = "Norm" /\ r.flags \cap {"Y32", "Y16"} = {})
         \/ ("DyAbsent" \in r.flags /\ "Dy16" \notin r.flags), "SHAPE">>,
     <<qk /\ (r.t = 0 \/ r.h = 0), "SHAPE">>,
     <<qk /\ (r.t * r.h) % U32 = 0, "ABORT">>,   \* a wrapped product of zero divides
     <<qk /\ r.rows % Most((r.t * r.h) % U32, 1) # 0, "SHAPE">>,
     <<Backward(r) /\ r.perGroup \notin 1..Limit.groupRows, "SHAPE">>,
     <<r.rows * r.d > Limit.elements, "SIZE">> >>

\* role_bytes and writes.
RoleBytes(r, at) ==
  LET n == r.rows * r.d
      Has(flag, bytes) == IF flag \in r.flags THEN bytes ELSE 0
      If(kinds, bytes) == IF r.kind \in kinds THEN bytes ELSE 0
  IN  CASE at = "x" -> n * IF r.kind \in QkKinds \/ "X16" \in r.flags THEN 2 ELSE 4
        [] at = "aux" -> If({"Norm"}, Has("Add", n * IF "Aux16" \in r.flags THEN 2 ELSE 4))
                           + If({"NormBackward"}, Has("Dy16", n * 2)) + If({"QkNormRopeBackward"}, n * 2)
        [] at = "w" -> 4 * r.d
        [] at = "tab" -> If(QkKinds, 8 * r.t * r.d)
        [] at = "out0" -> If({"Norm"}, Has("Y32", n * 4)) + If({"NormBackward"}, n * 4) + If(QkKinds, n * 2)
        [] at = "out1" -> If({"Norm"}, Has("Y16", n * 2))
                            + If({"NormBackward", "QkNormRopeBackward"}, NormGroups(r) * 4 * r.d)
        [] at = "dy" -> If({"NormBackward"}, n * 4 - Has("DyAbsent", n * 4))
        [] at = "io2" -> If({"Norm"}, Has("Add", n * 4)) + If({"NormBackward"}, Has("Dh", n * 4))
Written(r) ==
  CASE r.kind = "Norm" -> {at \in {"out0", "out1", "io2"} : RoleBytes(r, at) > 0}
    [] r.kind = "QkNormRope" -> {"out0"}
    [] Backward(r) -> {"out0", "out1"}

\* ack_student_norm_f16: what each role holds must fit, and what is written
\* be nobody else's.
StudentRefusals(r) ==
  << <<\E at \in Roles : ~Room(r, at, RoleBytes(r, at)), "SIZE">>,
     <<\E at \in Written(r), other \in Roles :
         at # other /\ Same(r, at, other) /\ (RoleBytes(r, other) > 0 \/ other \in Written(r)), "SHAPE">> >>

\* out_row: heads before positions, unless the layout is kept.
OutRow(r, row) ==
  IF "SameLayout" \in r.flags THEN row
  ELSE LET b == row \div (r.h * r.t) IN  (b * r.h + (row % r.h)) * r.t + ((row \div r.h) % r.t)

\* Row `row` of a role, if the operation touches it.
RoleRow(r, at, how, row, bytes) ==
  IF RoleBytes(r, at) = 0 THEN {} ELSE {Span(at, how, row * r.d, r.d, bytes)}
NormRowTouches(r, row) ==
  LET half == r.kind \in QkKinds
      position == (row \div r.h) % r.t
      moved == OutRow(r, row)
  IN  {Span("w", "read", 0, r.d, 4)}
        \cup RoleRow(r, "x", "read", row, IF half \/ "X16" \in r.flags THEN 2 ELSE 4)
        \cup (CASE r.kind = "Norm" ->
                     RoleRow(r, "aux", "read", row, IF "Aux16" \in r.flags THEN 2 ELSE 4)
                       \cup RoleRow(r, "io2", "write", row, 4) \cup RoleRow(r, "out0", "write", row, 4)
                       \cup RoleRow(r, "out1", "write", row, 2)
                [] r.kind = "NormBackward" ->
                     RoleRow(r, "aux", "read", row, 2) \cup RoleRow(r, "dy", "read", row, 4)
                       \cup RoleRow(r, "io2", "read", row, 4) \cup RoleRow(r, "out0", "write", row, 4)
                [] half ->
                     {Span("tab", "read", position * r.d, r.d, 4), Span("tab", "read", (r.t + position) * r.d, r.d, 4)}
                       \cup (IF r.kind = "QkNormRope" THEN RoleRow(r, "out0", "write", moved, 2)
                             ELSE RoleRow(r, "aux", "read", moved, 2) \cup RoleRow(r, "out0", "write", row, 2)))
NormTouches(r, g) ==
  IF ~Backward(r) THEN NormRowTouches(r, g)
  ELSE {Span("out1", "write", g * r.d, r.d, 4)} \cup
       UNION {NormRowTouches(r, row) : row \in {x \in 0..(r.rows - 1) : x \div r.perGroup = g}}

NormEntry(r) ==
  LET groups == NormGroups(r)
      x == Least(groups, MaxGroups)
      plan == Either(FirstOf(NormRefusals(r)), IF CeilDiv(groups, x) > MaxGroups THEN "SIZE" ELSE "none")
  IN  Entered(Either(plan, FirstOf(StudentRefusals(r))),
              <<Launch(<<"student_norm">>, groups, 1, <<x, CeilDiv(groups, x), 1>>,
                       [g \in 0..(groups - 1) |-> NormTouches(r, g)], Roles \ Written(r), Written(r))>>,
              0, {<<"student_norm">>})

=============================================================================
