-------------------------- MODULE OperatorResults ---------------------------
(***************************************************************************)
(* What the operators compute: every element of an output, from the        *)
(* elements of the operands at the addresses the request gives, and the    *)
(* property that the passes of a plan write all of it from what it is      *)
(* computed from.                                                          *)
(***************************************************************************)
EXTENDS OperatorPlans

\* A result: bytes of an output, and the bytes it is computed from.
Result(at, first, bytes, from) == [at |-> at, first |-> first, last |-> first + bytes - 1, from |-> from]
From(at, element, count, bytes) == <<at, element * bytes, element * bytes + count * bytes - 1>>
-----------------------------------------------------------------------------
(* The strided operations.                                                 *)
OperandFrom(r, at, view, l, bytes) == From(at, Address(PaddedView(r, view), Coordinates(l, Extents(r))), 1, bytes)
ElementResult(at, element, bytes, from) == Result(at, element * bytes, bytes, from)

ConvertResults(r) ==
  {ElementResult("out", Address(PaddedView(r, r.out), Coordinates(l, Extents(r))), Bytes(r.to),
                 {OperandFrom(r, "x", r.input, l, Bytes(r.from))}) : l \in Every(r)}

PointwiseResults(r) ==
  {ElementResult("out", Address(Canonical(r, "out"), Coordinates(l, Extents(r))), Bytes(r.type["out"]),
     {From(at, Address(Canonical(r, at), Coordinates(l, Extents(r))), 1, Bytes(r.type[at])) :
        at \in {a \in Operands \ {"out"} : Reads(r, a)}}) : l \in Every(r)}

\* Of the elements with one target, the last along the fiber wins a scatter
\* and all of them are added by a scatter-add.
IndexResults(r) ==
  LET valid == {l \in DOMAIN r.pick : r.pick[l] # -1}
      Source(c) == IF r.value THEN {} ELSE {From("src", Address(PaddedView(r, r.src), c), 1, Bytes(r.type))}
      Mine(l) == Source(Coordinates(l, Extents(r)))
      Added(l) == UNION {Mine(m) : m \in {k \in valid : Slot(r, k) = Slot(r, l)}}
      Home(l) == Address(PaddedView(r, r.out), Reached(r, l))
  IN  CASE r.op = "Gather" ->
             {ElementResult("out", r.out.offset + l, Bytes(r.type),
                {OperandFrom(r, "index", r.index, l, IF r.i32 THEN 4 ELSE 8)}
                  \cup IF l \in valid THEN Source(Reached(r, l)) ELSE {}) : l \in Every(r)}
        [] r.op = "Scatter" ->
             {ElementResult("out", Home(l), Bytes(r.type), Mine(l)) : l \in {k \in valid : Winner(r, k)}}
        [] r.op = "ScatterAdd" -> {ElementResult("out", Home(l), Bytes(r.type), Added(l)) : l \in valid}

\* A rank that is sorted reads its row two passes back and more.
IntwiseResults(r) ==
  {ElementResult("out", IntAddress(r, "out", l), Bytes(r.out_code),
     IF Sorted(r) THEN {}
     ELSE {From(at, IntAddress(r, at, m), 1, Bytes(r.type[at])) :
             at \in {a \in {"x", "y"} : IntReads(r, a)},
             m \in IF r.kind = "Scan" THEN (l - (l % Extents(r)[4]))..l ELSE IntReadBy(r, l)}) : l \in Every(r)}
-----------------------------------------------------------------------------
(* The row operations.                                                     *)

\* The reference: each kept element combines all the reduced ones.
ReduceResults(r) ==
  LET v == r.view
      in == ReduceBytes(r, r.in16)
      out == ReduceBytes(r, r.out16)
      kept == Kept(v, r.mask)
  IN  {Result("out", k * out, out,
              {From("x", v.offset + Stepped(v, kept, k) + Stepped(v, r.mask, q), 1, in) :
                 q \in 0..(ReducedCount(v, r.mask) - 1)}) : k \in 0..(Extent(v, kept) - 1)}

\* A backward pass leaves two results a row: the gradient and gamma's terms.
RowResults(r) ==
  LET elements == r.rows * r.cols
      Whole(at, row) == From(at, row * r.cols, r.cols, 4)
      Row(shift) == {Result("out", 4 * (shift + row * r.cols), 4 * r.cols,
                            {Whole(at, IF at = "gamma" THEN 0 ELSE row) : at \in RowReads(r)}) : row \in 0..(r.rows - 1)}
  IN  CASE r.kind = "RmsNormGammaReduction" ->
             {Result("out", 4 * c, 4, {From("primary", elements + row * r.cols + c, 1, 4) : row \in 0..(r.rows - 1)}) :
                c \in 0..(r.cols - 1)}
        [] r.kind = "RmsNormBackward" -> Row(0) \cup Row(elements)
        [] OTHER -> Row(0)

LossResults(r) ==
  LET Hit(row) == r.targets[row + 1] # -1
      Logits(row) == From("primary", row * r.cols, r.cols, PrimaryBytes(r))
      Dy(row) == From("upstream", IF r.reduction = "None" THEN row ELSE 0, 1, 4)
      Class(row) == From("targets", row, 1, 4)
      Each(first, bytes, used) ==
        {Result("out", first * row, bytes, {Class(row)} \cup IF Hit(row) THEN used[row] ELSE {}) : row \in 0..(r.rows - 1)}
      rows == 0..(r.rows - 1)
  IN  CASE r.kind = "Forward" -> Each(4, 4, [row \in rows |-> {Logits(row)}])
        [] r.kind = "NllForward" ->
             Each(4, 4, [row \in rows |-> {From("primary", row * r.cols + r.targets[row + 1], 1, 4)}])
        [] r.kind = "Backward" ->
             Each(r.cols * LossBytes(r), r.cols * LossBytes(r), [row \in rows |-> {Logits(row), Dy(row)}])
        [] r.kind = "NllBackward" -> Each(r.cols * 4, r.cols * 4, [row \in rows |-> {Dy(row)}])
        [] r.kind = "Reduce" ->
             {Result("out", 0, 4, {Class(row) : row \in rows} \cup {From("primary", row, 1, 4) : row \in {x \in rows : Hit(x)}})}

EmbeddingResults(r) ==
  {Result("out", 4 * i, 4,
     LET feature == i % r.dim IN
     IF r.kind = "Gather" THEN {From("primary", r.ids[i \div r.dim + 1] * r.dim + feature, 1, 4)}
     ELSE {From("primary", (j - 1) * r.dim + feature, 1, 4) : j \in {k \in DOMAIN r.ids : r.ids[k] = i \div r.dim}}) :
     i \in 0..(OutElements(r) - 1)}

\* Every row the operation defines, from its own row of x and, backward, of
\* the gradient; a head's row moves with its head.
NormResults(r) ==
  LET out == IF r.kind \in QkKinds THEN 2 ELSE 4
      in == IF r.kind \in QkKinds \/ "X16" \in r.flags THEN 2 ELSE 4
      Row(at, row, bytes) == From(at, row * r.d, r.d, bytes)
      gradient == CASE r.kind = "QkNormRopeBackward" -> [row \in 0..(r.rows - 1) |-> {Row("aux", OutRow(r, row), 2)}]
                    [] r.kind = "NormBackward" /\ "Dy16" \in r.flags -> [row \in 0..(r.rows - 1) |-> {Row("aux", row, 2)}]
                    [] OTHER -> [row \in 0..(r.rows - 1) |-> {}]
      place == [row \in 0..(r.rows - 1) |-> IF r.kind = "QkNormRope" THEN OutRow(r, row) ELSE row]
  IN  {Result("out0", place[row] * r.d * out, r.d * out, {Row("x", row, in)} \cup gradient[row]) :
         row \in {x \in 0..(r.rows - 1) : RoleBytes(r, "out0") > 0}}
      \cup (IF ~Backward(r) THEN {} ELSE
            {Result("out1", (row \div r.perGroup) * r.d * 4, r.d * 4, {Row("x", row, in)} \cup gradient[row]) :
               row \in 0..(r.rows - 1)})
-----------------------------------------------------------------------------
(* The fused kernels.                                                      *)

\* Backward turns the other way: the sines of the transposed rotation are
\* those of the other half.
RotaryResults(r) ==
  LET half == r.cols \div 2
      Angle(row) == ((row \div r.posDiv) % r.positions) * r.cols
      Sine(c) == IF r.kind = "Forward" THEN c ELSE (c + half) % r.cols
      Of(row, c) == {From("x", row * r.cols + c, 1, 4), From("x", row * r.cols + ((c + half) % r.cols), 1, 4),
                     From("cos", Angle(row) + c, 1, 4), From("sin", Angle(row) + Sine(c), 1, 4)}
  IN  {Result("out", 4 * (row * r.cols + c), 4, Of(row, c)) : row \in 0..(r.rows - 1), c \in 0..(r.cols - 1)}

SwigluResults(r) ==
  LET bytes == StoredBytes(r.type)
      Halves(row, c) == {From("packed", 2 * row * r.cols + c + k, 1, bytes) : k \in {0, r.cols}}
      Grad(row, c) == {From("upstream", row * r.cols + c, 1, bytes)}
  IN  IF r.kind = "Forward"
      THEN {Result("out", (row * r.cols + c) * bytes, bytes, Halves(row, c)) : row \in 0..(r.rows - 1), c \in 0..(r.cols - 1)}
      ELSE {Result("out", (2 * row * r.cols + c + k) * bytes, bytes, Halves(row, c) \cup Grad(row, c)) :
              row \in 0..(r.rows - 1), c \in 0..(r.cols - 1), k \in {0, r.cols}}

ScaledResults(r) ==
  LET bytes == StoredBytes(r.type)
      Used(id) == {From(at, id, 1, bytes) : at \in ScaledIns(r) \ {"scale"}}
                    \cup {From("scale", (id \div (r.cols * r.width)) * r.cols + (id % r.cols), 1, bytes)}
  IN  {Result(at, id * bytes, bytes, Used(id)) : at \in ScaledOuts(r), id \in 0..(r.rows * r.cols - 1)}

\* The reference: a bag is its pairs' rows, weighted; a row of the table's
\* gradient is every pair that names it.
BagResults(r) ==
  LET Pair(row) == (row * r.k)..(row * r.k + r.k - 1)
      Used(p, c) == {From("w", p, 1, 4), From("up", (p \div r.k) * r.d + c, 1, 4)}
  IN  CASE r.kind = "Forward" ->
             {Result("out", 4 * (row * r.d + c), 4,
                UNION {{From("w", p, 1, 4), From("table", BagRow(r, p) * r.d + c, 1, 4)} : p \in Pair(row)}) :
                row \in 0..(r.rows - 1), c \in 0..(r.d - 1)}
        [] r.kind = "GradWeights" ->
             {Result("out", 4 * p, 4, {From("up", (p \div r.k) * r.d, r.d, 4), From("table", BagRow(r, p) * r.d, r.d, 4)}) :
                p \in 0..(BagPairs(r) - 1)}
        [] r.kind = "GradTable" ->
             {Result("out", 4 * (v * r.d + c), 4, UNION {Used(p, c) : p \in Bagged(r, v)}) :
                v \in 0..(r.vocab - 1), c \in 0..(r.d - 1)}

LseResults(r) ==
  {Result("out", 4 * (half * r.rows + row), 4,
     {From("yp", row * r.cols, r.cols, 2), From("h", 0, r.cols, 4), From("top", row * r.k, r.k, 8)}) :
     half \in {0, 1}, row \in 0..(r.rows - 1)}

GradResults(r) ==
  LET Pair(row, c) == {From("yp", row * r.cols + c, 2, 2), From("h", c, 2, 4), From("targets", row, 1, 8),
                       From("top", row * r.k, r.k, 8), From("row_values", row, 1, 4),
                       From("row_values", 3 * r.rows, 1, 4)}
      even == {c \in 0..(r.cols - 1) : c % 2 = 0}
  IN  {Result("grad", 2 * (row * r.cols + c), 4, Pair(row, c)) : row \in 0..(r.rows - 1), c \in even}
        \cup {Result("partial", 4 * (group * r.cols + c), 8,
                UNION {Pair(row, c) : row \in {x \in 0..(r.rows - 1) : x \div r.perGroup = group}}) :
                group \in 0..(CeilDiv(r.rows, r.perGroup) - 1), c \in even}

\* An entry from its sign and its scales; the gradient of a scale from the
\* row or the column it scales.
FactorResults(r) ==
  LET routed == {q \in 0..(r.p - 1) : Routed(r, q)}
      rows == 0..(r.m - 1)
      columns == 0..(r.r - 1)
      Words(W) == {From(w[1], w[2], 1, 4) : w \in W}
      Grad(q, m, c) == {<<"factor", FactorWord(r, q, m, c)>>} \cup Signed(r, q, m, c)
  IN  CASE Forward(r) ->
             {Result("factor", 2 * ((q * r.m + m) * r.ld + r.off + c), 2,
                Words(Signed(r, q, m, c) \cup RowScale(r, q, m) \cup ColScale(r, q, c))) : q \in routed, m \in rows, c \in columns}
        [] r.kind = "LatentBackward" ->
             {Result("out_a", 4 * ((Expert(r, q) * r.m + m) * r.r + c), 4,
                Words(Grad(q, m, c) \cup RowScale(r, q, m) \cup ColScale(r, q, c))) : q \in routed, m \in rows, c \in columns}
        [] r.kind = "PackedBackwardRow" ->
             {Result("out_a", 4 * (q * r.m + m), 4, UNION {Words(Grad(q, m, c) \cup ColScale(r, q, c)) : c \in columns}) :
                q \in routed, m \in rows}
        [] r.kind = "PackedBackwardCol" ->
             {Result("out_a", 4 * (q * r.r + c), 4, UNION {Words(Grad(q, m, c) \cup RowScale(r, q, m)) : m \in rows}) :
                q \in routed, c \in columns}

\* Every element is scaled, and every one is looked at for `found`.
UnscaleResults(r) ==
  LET elements == r.offset..(r.offset + r.count - 1) IN
  {Result("data", 4 * i, 4, {From("data", i, 1, 4), From("scale", r.scaleAt, 1, 4)}) : i \in elements}
    \cup (IF r.count = 0 THEN {} ELSE {Result("found", 4 * r.foundAt, 4, {From("data", i, 1, 4) : i \in elements})})

UpdateResults(r) ==
  {Result(o[1], 4 * o[2], 4, {From("found", r.foundAt, 1, 4), From("tracker", r.trackerAt, 1, 4)}) :
     o \in {<<"scale", r.scaleAt>>, <<"tracker", r.trackerAt>>}}

\* A code from its vector; a value, a weight or a product from the words that
\* hold its codes.
VqResults(r) ==
  LET Codes(at, base, logical) == From(at, base + (logical \div r.group) \div Sizes.perWord, 1, 4)
  IN  CASE r.kind = "Encode" ->
             {Result("out", 4 * w, 4, {From("b0", j, 1, 4) : j \in {x \in 0..(r.m - 1) : (x \div r.group) \div Sizes.perWord = w}}) :
                w \in 0..(VqItems(r) - 1)}
        [] r.kind = "Decode" -> {Result("out", 4 * i, 4, {Codes("b0", 0, i)}) : i \in 0..(r.m - 1)}
        [] r.kind = "AdamW" ->
             {Result("out", 4 * (state * r.m + i), 4, {Codes("b0", s * VqWords(r.m, r.group), i) : s \in 0..3}) :
                state \in 0..2, i \in 0..(r.m - 1)}
        [] r.kind = "Matmul" ->
             {Result("out", 4 * (row * r.n + col), 4,
                {Codes("b0", 0, IF "A" \in r.flags THEN x * r.m + row ELSE row * r.k + x) : x \in 0..(r.k - 1)}
                  \cup {Codes("b2", 0, IF "B" \in r.flags THEN col * r.k + x ELSE x * r.n + col) : x \in 0..(r.k - 1)}) :
                row \in 0..(r.m - 1), col \in 0..(r.n - 1)}
-----------------------------------------------------------------------------
(* Casts, products and attention.                                          *)

CastResults(r) ==
  {Result("dst", i * CastWidth(r, "dst"), CastWidth(r, "dst"), {From("src", i, 1, CastWidth(r, "src"))}) : i \in 0..(r.n - 1)}

ProductResults(r) ==
  {Result("c", 4 * Cell(r, "c", b, i, j), 4,
     {From("a", Cell(r, "a", b, i, k), 1, 4) : k \in 0..(r.k - 1)} \cup {From("b", Cell(r, "b", b, k, j), 1, 4) : k \in 0..(r.k - 1)}) :
     b \in 0..(r.batch - 1), i \in 0..(r.m - 1), j \in 0..(r.n - 1)}

HalfResults(r) ==
  LET Base(z, name) == IF r.zmode = 1 THEN 0 ELSE z * r.stride[name]
      Operand(z, name, row, col) == From(name, Base(z, name) + row * Pitch(r, name) + col, 1, 2)
      width == IF ToHalf(r) THEN 2 ELSE 4
  IN  {Result("c", (z * r.stride["c"] + i * r.n + j) * width, width,
         {IF r.aT THEN Operand(z, "a", k, i) ELSE Operand(z, "a", i, k) : k \in Owned(r, z)}
           \cup {IF r.bT THEN Operand(z, "b", j, k) ELSE Operand(z, "b", k, j) : k \in Owned(r, z)}) :
         z \in 0..(r.z - 1), i \in 0..(r.m - 1), j \in 0..(r.n - 1)}

DecodeResults(r) ==
  LET Word(v) == From("packed", (r.base + SourceValue(r, v)) \div Mats.perWord, 1, 4)
      First(v) == v - (v % Mats.perWord)
      Held4(v) == WordHeld(r, First(v), Least(Mats.perWord, r.n - First(v)))
  IN  {Result("out", v * DecodeWidth(r), DecodeWidth(r), IF Held4(v) THEN {Word(v)} ELSE {}) : v \in 0..(r.n - 1)}

\* Every element of a served group's rows, from its row and its weights.
GroupedResults(r) ==
  LET width == IF ~Gemv(r) /\ r.half THEN 2 ELSE 4
      Weights(g, j) == {From("packed", (r.base + g[3] + WeightAt(r, j, k)) \div Mats.perWord, 1, 4) : k \in 0..(r.k - 1)}
      Row(row) == {From("a", row * RowPitch(r) + k, 1, 2) : k \in 0..(r.k - 1)}
  IN  (UNION {LET g == r.table[z + 1] IN
             {Result("c", ((g[1] + i) * r.n + j) * width, width, Row(g[1] + i) \cup Weights(g, j)) :
                i \in 0..(g[2] - 1), j \in 0..(r.n - 1)} : z \in {x \in 0..(Len(r.table) - 1) : GroupServed(r, x)}})

\* A query's row from every key its mask admits, a key's gradients from every
\* query that sees it.
AttentionResults(r) ==
  LET Sees(t, s) == Causal(r) => s <= t
      RowFrom(at, b, h, t) == From(at, RowAt(r, at, b, h, t), r.dim, 2)
      LseFrom(b, h, t) == From("lse", (b * r.heads + h) * r.seq + t, 1, 4)
      Query(b, h, t) ==
        IF r.backward THEN {RowFrom(at, b, h, t) : at \in {"q", "o", "g"}} \cup {LseFrom(b, h, t)} ELSE {RowFrom("q", b, h, t)}
      Keys(b, hk, S) == {RowFrom(at, b, hk, s) : at \in {"k", "v"}, s \in S}
      RowMade(at, b, h, t, from) == Result(at, 2 * RowAt(r, at, b, h, t), 2 * r.dim, from)
      Batches == 0..(r.batch - 1)
      Rows == 0..(r.seq - 1)
      ByQuery(b, h, t) ==
        LET from == Query(b, h, t) \cup Keys(b, h \div HeadGroup(r), {s \in Rows : Sees(t, s)}) IN
        IF r.backward THEN {RowMade("dq", b, h, t, from)}
        ELSE {RowMade("o", b, h, t, from), Result("lse", 4 * ((b * r.heads + h) * r.seq + t), 4, from)}
      ByKey(b, hk, s) ==
        LET from == Keys(b, hk, {s}) \cup UNION {Query(b, h, t) :
                      h \in {i \in 0..(r.heads - 1) : i \div HeadGroup(r) = hk}, t \in {i \in Rows : Sees(i, s)}}
        IN  {RowMade(at, b, hk, s, from) : at \in {"dk", "dv"}}
  IN  (UNION {ByQuery(b, h, t) : b \in Batches, h \in 0..(r.heads - 1), t \in Rows})
        \cup IF r.backward THEN UNION {ByKey(b, hk, s) : b \in Batches, hk \in 0..(r.kvHeads - 1), s \in Rows} ELSE {}
-----------------------------------------------------------------------------
(* Every request.                                                          *)

\* What the operation asked for computes, and from what.
Results ==
  CASE request.op = "convert" -> ConvertResults(request)
    [] request.op = "pointwise" -> PointwiseResults(request)
    [] request.op \in {"Gather", "Scatter", "ScatterAdd"} -> IndexResults(request)
    [] request.op = "intwise" -> IntwiseResults(request)
    [] request.op = "reduce" -> ReduceResults(request)
    [] request.op = "rowwise" -> RowResults(request)
    [] request.op = "loss" -> LossResults(request)
    [] request.op = "embedding" -> EmbeddingResults(request)
    [] request.op = "student_norm" -> NormResults(request)
    [] request.op = "rotary" -> RotaryResults(request)
    [] request.op = "swiglu" -> SwigluResults(request)
    [] request.op = "swiglu_scaled" -> ScaledResults(request)
    [] request.op = "weighted_bag" -> BagResults(request)
    [] request.op = "head_lse" -> LseResults(request)
    [] request.op = "head_grad" -> GradResults(request)
    [] request.op = "expert_factor" -> FactorResults(request)
    [] request.op = "amp_unscale" -> UnscaleResults(request)
    [] request.op = "amp_update" -> UpdateResults(request)
    [] request.op = "vq" -> VqResults(request)
    [] request.op = "cast" -> CastResults(request)
    [] request.op = "matmul_f32" -> ProductResults(request)
    [] request.op = "matmul_16" -> HalfResults(request)
    [] request.op = "nf4_decode" -> DecodeResults(request)
    [] request.op = "nf4_matmul" -> GroupedResults(request)
    [] request.op = "attention" -> AttentionResults(request)

\* A result is written by some unit, all of it, and the units that write it
\* read what it is computed from, themselves or through partial results of
\* the pass before.
Computed(result) ==
  \E i \in DOMAIN Passes :
    LET units == Writers(i, result.at, result.first, result.last)
        own == ReadBy(i, units)
        partial == {t \in own : t.at \in Private}
        behind == IF i = 1 THEN {}
                  ELSE UNION {ReadBy(i - 1, Writers(i - 1, t.at, t.first, t.last)) : t \in partial}
    IN  /\ \E u \in units : \E t \in Passes[i].touches[u] :
             t.at = result.at /\ t.how # "read" /\ t.first <= result.first /\ result.last <= t.last
        /\ \A b \in result.from : \E t \in own \cup behind :
             t.at = b[1] /\ t.first <= b[2] /\ b[3] <= t.last

\* Every element the operation defines is written, by units that read all it
\* is computed from.
ResultsAreComputed == Admitted(plan) => \A result \in Results : Computed(result)
=============================================================================
