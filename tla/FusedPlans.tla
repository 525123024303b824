----------------------------- MODULE FusedPlans -----------------------------
(***************************************************************************)
(* The operations fused into one kernel each: rotary embedding             *)
(* (rotary_ops), SwiGLU (swiglu_ops), weighted bags (weighted_bag_ops) and *)
(* the head's loss (head_loss_ops), with the entries of the C ABI that     *)
(* answer them.  A binding an operation has no use for is bound to another *)
(* of its buffers and declared as that one.                                *)
(***************************************************************************)
EXTENDS LaunchGeometry

CONSTANT Bounds  \* the largest shapes each plan admits, and its group sizes

BoundFields ==
  {"elements", "lanes", "pairs", "vocab", "dim", "bagLanes", "cols", "topK", "top", "groupRows", "block"}
ASSUME FusedAssumption == Bounds \in [BoundFields -> Nat \ {0}]

\* An entry tests the sizes of its buffers, then that none it writes is
\* another's.  `needs` gives each binding the bytes it must hold.
Lacks(r, needs) == \E at \in DOMAIN needs : ~Room(r, at, needs[at])
Shared(r, outs, ins) ==
  \/ \E o \in outs, i \in ins : Same(r, o, i)
  \/ \E o, p \in outs : o # p /\ Same(r, o, p)
-----------------------------------------------------------------------------
(* Rotary: each unit turns a pair half a row apart by its position's angle.*)
RotaryRefusals(r) ==
  LET elements == r.rows * r.cols
      table == r.positions * r.cols
      needs == [x |-> 4 * elements, cos |-> 4 * table, sin |-> 4 * table, out |-> 4 * elements]
  IN  << <<0 \in {r.rows, r.cols, r.posDiv, r.positions}, "SHAPE">>,
         <<r.cols % 2 # 0, "SHAPE">>,
         <<elements > Bounds.elements \/ table > Bounds.elements, "SIZE">>,
         <<Lacks(r, needs), "SIZE">>,
         <<Shared(r, {"out"}, {"x", "cos", "sin"}), "SHAPE">> >>

\* The elements of a pair, and of its angle: low and high half.
Turned(r, id) ==
  LET half == r.cols \div 2
      row == id \div half
      angle == ((row \div r.posDiv) % r.positions) * r.cols + (id % half)
  IN  [lo |-> row * r.cols + (id % half), hi |-> row * r.cols + (id % half) + half, tlo |-> angle, thi |-> angle + half]
RotaryTouches(r, id) ==
  LET t == Turned(r, id) IN
  {ElementTouch("x", "read", e, 4) : e \in {t.lo, t.hi}} \cup {ElementTouch("out", "write", e, 4) : e \in {t.lo, t.hi}}
    \cup {ElementTouch(at, "read", e, 4) : at \in {"cos", "sin"}, e \in {t.tlo, t.thi}}

RotaryEntry(r) ==
  LET pairs == (r.rows * r.cols) \div 2 IN
  Entered(FirstOf(RotaryRefusals(r)),
          <<Launch(<<"rotary">>, pairs, Bounds.lanes, Folded(pairs, Bounds.lanes),
                   [id \in 0..(pairs - 1) |-> RotaryTouches(r, id)], {"x", "cos", "sin"}, {"out"})>>,
          0, {<<"rotary">>})

-----------------------------------------------------------------------------
(* SwiGLU over a packed pair of halves, and over separate gate and up with *)
(* rows that share a scale.                                                *)
StoredBytes(type) == IF type = "F32" THEN 4 ELSE 2
BackwardOnly(r, names) == IF r.kind = "Backward" THEN names ELSE {}

SwigluRefusals(r) ==
  LET n == r.rows * r.cols * StoredBytes(r.type)
      needs == [at \in {"packed", "out"} \cup BackwardOnly(r, {"upstream"}) |->
                  IF at = "upstream" \/ (at = "out" /\ r.kind = "Forward") THEN n ELSE 2 * n]
  IN  << <<r.rows = 0 \/ r.cols = 0, "SHAPE">>,
         <<2 * r.rows * r.cols > Bounds.elements, "SIZE">>,
         <<Lacks(r, needs), "SIZE">>,
         <<Shared(r, {"out"}, {"packed"} \cup BackwardOnly(r, {"upstream"})), "SHAPE">> >>

SwigluTouches(r, id) ==
  LET up == (id \div r.cols) * 2 * r.cols + (id % r.cols)
      halves == {up, up + r.cols}
      El(at, how, e) == ElementTouch(at, how, e, StoredBytes(r.type))
  IN  {El("packed", "read", e) : e \in halves}
        \cup (IF r.kind = "Forward" THEN {El("out", "write", id)}
              ELSE {El("upstream", "read", id)} \cup {El("out", "write", e) : e \in halves})
SwigluEntry(r) ==
  LET n == r.rows * r.cols IN
  Entered(FirstOf(SwigluRefusals(r)),
          <<Launch(<<"swiglu", r.type>>, n, Bounds.lanes, Folded(n, Bounds.lanes),
                   [id \in 0..(n - 1) |-> SwigluTouches(r, id)], {"packed"} \cup BackwardOnly(r, {"upstream"}), {"out"})>>,
          0, {<<"swiglu", r.type>>})

ScaledIns(r) == {"gate", "up", "scale"} \cup BackwardOnly(r, {"upstream"})
ScaledOuts(r) == {"out"} \cup BackwardOnly(r, {"out_up", "out_t"})
ScaledRefusals(r) ==
  LET n == r.rows * r.cols
      Elements(at) == IF at = "scale" THEN (r.rows \div Most(r.width, 1)) * r.cols ELSE n
  IN  << <<0 \in {r.rows, r.cols, r.width}, "SHAPE">>,
         <<r.rows % Most(r.width, 1) # 0, "SHAPE">>,
         <<n > Bounds.elements, "SIZE">>,
         <<Lacks(r, [at \in ScaledIns(r) \cup ScaledOuts(r) |-> Elements(at) * StoredBytes(r.type)]), "SIZE">>,
         <<Shared(r, ScaledOuts(r), ScaledIns(r)), "SHAPE">> >>

ScaledTouches(r, id) ==
  LET scaleAt == ((id \div r.cols) \div r.width) * r.cols + (id % r.cols) IN
  {ElementTouch(at, "read", IF at = "scale" THEN scaleAt ELSE id, StoredBytes(r.type)) : at \in ScaledIns(r)}
    \cup {ElementTouch(at, "write", id, StoredBytes(r.type)) : at \in ScaledOuts(r)}
ScaledEntry(r) ==
  LET n == r.rows * r.cols IN
  Entered(FirstOf(ScaledRefusals(r)),
          <<Launch(<<"swiglu_scaled", r.type>>, n, Bounds.lanes, Folded(n, Bounds.lanes),
                   [id \in 0..(n - 1) |-> ScaledTouches(r, id)], ScaledIns(r), ScaledOuts(r))>>,
          0, {<<"swiglu_scaled", r.type>>})
-----------------------------------------------------------------------------
(* Weighted bags: rows of a table summed with weights.  The gradient of    *)
(* the table counts the pairs of each row, places them by the prefix sums, *)
(* sorts each row's list and sums along it; the caller lends the scratch.  *)
(* `ids[p + 1]` is the row pair p names; one out of range counts as row 0. *)
BagPairs(r) == r.rows * r.k
BagOutput(r) ==
  CASE r.kind = "Forward" -> r.rows * r.d
    [] r.kind = "GradWeights" -> BagPairs(r)
    [] r.kind = "GradTable" -> r.vocab * r.d
ScratchWanted(r) == 3 * (r.vocab + 1) + BagPairs(r)
BagIns(r) ==
  {"idx", "w"} \cup (IF r.kind # "GradTable" THEN {"table"} ELSE {})
    \cup (IF r.kind # "Forward" THEN {"up"} ELSE {})
BagScratch(r) == IF r.kind = "GradTable" THEN {"scratch"} ELSE {}
BagWords(r, at) ==
  CASE at \in {"idx", "w"} -> BagPairs(r)
    [] at = "table" -> r.vocab * r.d
    [] at = "up" -> r.rows * r.d
    [] at = "out" -> BagOutput(r)
    [] at = "scratch" -> ScratchWanted(r)
BagRefusals(r) ==
  << <<0 \in {r.rows, r.k, r.vocab, r.d}, "SHAPE">>,
     <<\/ BagPairs(r) > Bounds.pairs \/ r.vocab > Bounds.vocab \/ r.d > Bounds.dim
       \/ r.rows * r.d > Bounds.elements \/ r.vocab * r.d > Bounds.elements, "SIZE">>,
     <<Lacks(r, [at \in BagIns(r) \cup {"out"} \cup BagScratch(r) |-> 4 * BagWords(r, at)]), "SIZE">>,
     <<Shared(r, {"out"} \cup BagScratch(r), BagIns(r)), "SHAPE">> >>

BagRow(r, pair) == IF r.ids[pair + 1] < r.vocab THEN r.ids[pair + 1] ELSE 0
\* counts | offsets | cursor | list
OffsetsAt(r) == r.vocab + 1
CursorAt(r) == 2 * (r.vocab + 1)
ListAt(r) == 3 * (r.vocab + 1)
Bagged(r, v) == {pair \in 0..(BagPairs(r) - 1) : BagRow(r, pair) = v}
RowOffset(r, v) == Cardinality({pair \in 0..(BagPairs(r) - 1) : BagRow(r, pair) < v})
\* Where a pair is placed: atomics hand the places of a row out in any order,
\* and the sort that follows brings them to this one.
ListSlot(r, pair) == RowOffset(r, BagRow(r, pair)) + Cardinality({q \in Bagged(r, BagRow(r, pair)) : q < pair})

Scratched(how, words) == {WordTouch("scratch", how, word) : word \in words}
RowEnds(r, v) == Scratched("read", {OffsetsAt(r) + v, OffsetsAt(r) + v + 1})
RowList(r, v) == {ListAt(r) + slot : slot \in RowOffset(r, v)..(RowOffset(r, v + 1) - 1)}

\* The shader's operations 0 to 7.
BagTouches(r, op, u) ==
  LET n == BagPairs(r)
      row == u \div r.d
      Word(at, how, e) == {ElementTouch(at, how, e, 4)}
  IN  CASE op = 0 -> Word("out", "write", u) \cup
             UNION {Word("w", "read", p) \cup Word("idx", "read", p) \cup Word("table", "read", BagRow(r, p) * r.d + (u % r.d)) :
                      p \in (row * r.k)..(row * r.k + r.k - 1)}
        [] op = 1 -> Word("out", "write", u) \cup Word("idx", "read", u)
             \cup {Span("up", "read", (u \div r.k) * r.d, r.d, 4), Span("table", "read", BagRow(r, u) * r.d, r.d, 4)}
        [] op = 2 -> Scratched("write", {u})
        [] op = 3 -> Word("idx", "read", u) \cup Scratched("atomic", {BagRow(r, u)})
        [] op = 4 -> Scratched("read", 0..r.vocab)
             \cup Scratched("write", {base + v : base \in {OffsetsAt(r), CursorAt(r)}, v \in 0..r.vocab})
        [] op = 5 -> Word("idx", "read", u) \cup Scratched("atomic", {CursorAt(r) + BagRow(r, u)})
             \cup Scratched("write", {ListAt(r) + ListSlot(r, u)})
        [] op = 6 -> RowEnds(r, u) \cup
             IF Cardinality(RowList(r, u)) < 2 THEN {} ELSE Scratched("read", RowList(r, u)) \cup Scratched("write", RowList(r, u))
        [] op = 7 -> Word("out", "write", u) \cup RowEnds(r, row) \cup Scratched("read", RowList(r, row))
             \cup UNION {Word("w", "read", p) \cup Word("up", "read", (p \div r.k) * r.d + (u % r.d)) : p \in Bagged(r, row)}
BagRun(r, op, units, per) ==
  LET writes == IF op \in {0, 1, 7} THEN {"out"} ELSE {"scratch"} IN
  Launch(<<"weighted_bag">>, units, per, Folded(units, per), [u \in 0..(units - 1) |-> BagTouches(r, op, u)],
         (BagIns(r) \cup BagScratch(r) \cup {"out"}) \ writes, writes)
\* Mutant: the counts of the last call are not cleared.
BagUncleared(r) ==
  LET lanes == Bounds.bagLanes IN
  CASE r.kind = "Forward" -> <<BagRun(r, 0, BagOutput(r), lanes)>>
    [] r.kind = "GradWeights" -> <<BagRun(r, 1, BagPairs(r), 1)>>
    [] r.kind = "GradTable" ->
         <<BagRun(r, 3, BagPairs(r), lanes), BagRun(r, 4, 1, 1), BagRun(r, 5, BagPairs(r), lanes),
           BagRun(r, 6, r.vocab, lanes), BagRun(r, 7, BagOutput(r), lanes)>>

BagPasses(r) ==
  LET lanes == Bounds.bagLanes IN
  CASE r.kind = "Forward" -> <<BagRun(r, 0, BagOutput(r), lanes)>>
    [] r.kind = "GradWeights" -> <<BagRun(r, 1, BagPairs(r), 1)>>
    [] r.kind = "GradTable" ->
         <<BagRun(r, 2, r.vocab + 1, lanes), BagRun(r, 3, BagPairs(r), lanes), BagRun(r, 4, 1, 1),
           BagRun(r, 5, BagPairs(r), lanes), BagRun(r, 6, r.vocab, lanes), BagRun(r, 7, BagOutput(r), lanes)>>
BagEntry(r) == Entered(FirstOf(BagRefusals(r)), BagPasses(r), 0, {<<"weighted_bag">>})

-----------------------------------------------------------------------------
(* The head's loss: a row's two log-sums, then the gradient by blocks of   *)
(* columns and groups of rows, each leaving a row of the scale's terms.    *)
HeadShape(r) ==
  << <<0 \in {r.rows, r.cols, r.k}, "SHAPE">>, <<r.cols % 2 # 0, "SHAPE">>,
     <<r.cols > Bounds.cols \/ r.k > Bounds.topK, "SHAPE">>,
     <<r.rows * r.cols > Bounds.elements \/ r.rows * r.k > Bounds.top, "SIZE">> >>
HeadBytes(r, at) ==
  CASE at \in {"yp", "grad"} -> r.rows * r.cols * 2 [] at = "h" -> r.cols * 4 [] at = "top" -> r.rows * r.k * 8
    [] at = "targets" -> r.rows * 8 [] at = "row_values" -> (3 * r.rows + 1) * 4 [] at = "gkp" -> r.rows * r.k * 4
    [] at = "partial" -> CeilDiv(r.rows, Most(r.perGroup, 1)) * r.cols * 4 [] at = "out" -> 2 * r.rows * 4
LseIns == {"yp", "h", "top"}
GradIns == LseIns \cup {"targets", "row_values", "gkp"}
GradOuts == {"grad", "partial"}

LseRefusals(r) ==
  HeadShape(r) \o
  << <<CeilDiv(r.rows, Most(Least(r.rows, MaxGroups), 1)) > MaxGroups, "SIZE">>,
     <<Lacks(r, [at \in LseIns \cup {"out"} |-> HeadBytes(r, at)]), "SIZE">>,
     <<Shared(r, {"out"}, LseIns), "SHAPE">> >>
LseTouches(r, row) ==
  {Span("yp", "read", row * r.cols, r.cols, 2), Span("h", "read", 0, r.cols, 4), Span("top", "read", row * r.k, r.k, 8),
   ElementTouch("out", "write", row, 4), ElementTouch("out", "write", r.rows + row, 4)}
LseEntry(r) ==
  LET x == Least(r.rows, MaxGroups) IN
  Entered(FirstOf(LseRefusals(r)),
          <<Launch(<<"head_lse">>, r.rows, 1, <<x, CeilDiv(r.rows, x), 1>>, [row \in 0..(r.rows - 1) |-> LseTouches(r, row)],
                   LseIns, {"out"})>>,
          0, {<<"head_lse">>})

GradRefusals(r) ==
  LET groups == CeilDiv(r.rows, Most(r.perGroup, 1)) IN
  HeadShape(r) \o
  << <<r.perGroup \notin 1..Bounds.groupRows, "SHAPE">>,
     <<groups > MaxGroups \/ CeilDiv(r.cols, Bounds.block) > MaxGroups, "SIZE">>,
     <<groups * r.cols > Bounds.elements, "SIZE">>,
     <<Lacks(r, [at \in GradIns \cup GradOuts |-> HeadBytes(r, at)]), "SIZE">>,
     <<Shared(r, GradOuts, GradIns), "SHAPE">> >>

\* One block of columns over one group of rows.
GradTouches(r, u) ==
  LET blocks == CeilDiv(r.cols, Bounds.block)
      group == u \div blocks
      first == (u % blocks) * Bounds.block
      wide == Least(Bounds.block, r.cols - first)
      rows == {row \in 0..(r.rows - 1) : row \div r.perGroup = group}
  IN  {Span("h", "read", first, wide, 4), Span("partial", "write", group * r.cols + first, wide, 4),
       ElementTouch("row_values", "read", 3 * r.rows, 4)}
        \cup UNION {{Span("yp", "read", row * r.cols + first, wide, 2), Span("grad", "write", row * r.cols + first, wide, 2),
                     Span("top", "read", row * r.k, r.k, 8), Span("gkp", "read", row * r.k, r.k, 4),
                     ElementTouch("targets", "read", row, 8)}
                      \cup {ElementTouch("row_values", "read", part * r.rows + row, 4) : part \in 0..2} : row \in rows}
GradEntry(r) ==
  LET groups == CeilDiv(r.rows, r.perGroup)
      blocks == CeilDiv(r.cols, Bounds.block)
  IN  Entered(FirstOf(GradRefusals(r)),
              <<Launch(<<"head_grad">>, groups * blocks, 1, <<blocks, groups, 1>>,
                       [u \in 0..(groups * blocks - 1) |-> GradTouches(r, u)], GradIns, GradOuts)>>,
              0, {<<"head_grad">>})

=============================================================================
