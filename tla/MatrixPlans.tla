---------------------------- MODULE MatrixPlans -----------------------------
(***************************************************************************)
(* Matrix products: f32 over strided views (matmul_ops), 16-bit over       *)
(* cooperative matrices, and over weights stored in NF4 (nf4_ops), with    *)
(* the casts between f32 and bf16 and the entries of the C ABI.  A unit is *)
(* a work group and its tile of the product.                               *)
(***************************************************************************)
EXTENDS FactorPlans

CONSTANT Mats  \* tile sizes and limits: TILE, K_MULTIPLE, MAX_DIM and so on

MatFields ==
  {"castLanes", "batch", "side", "inner", "addressed", "plainTile", "viewTile",
   "tile", "depth", "vector", "band", "bandCols", "gridX",
   "block", "nested", "perWord", "entries", "decodeLanes", "fewRows", "someRows", "gemvRows"}
ASSUME MatAssumption == Mats \in [MatFields -> Nat \ {0}]

\* The work group of a unit, and the indices of a tile.
GroupAt(groups, u) ==
  <<u % groups[1], (u \div groups[1]) % groups[2], u \div (groups[1] * groups[2])>>
GroupCount(groups) == groups[1] * groups[2] * groups[3]
TileRange(i, tile, end) == (i * tile)..(Least(end, (i + 1) * tile) - 1)

\* The dispatch refuses a grid beyond the device's.
GridRefusals(groups) ==
  << <<groups[1] > Mats.gridX \/ groups[2] > MaxGroups \/ groups[3] > MaxGroups, "UNSUPPORTED">> >>
Products(kernel, groups, Touches(_)) ==
  Launch(kernel, GroupCount(groups), 1, groups, [u \in 0..(GroupCount(groups) - 1) |-> Touches(u)], {"a", "b"}, {"c"})
-----------------------------------------------------------------------------
(* Casts: mode 0 is f32 to bf16, four elements an invocation.              *)
CastWidth(r, at) == IF (r.mode = 0) = (at = "src") THEN 4 ELSE 2
CastRefusals(r) ==
  << <<r.n \notin 1..(U32 - 1) \/ r.mode \notin {0, 1}, "SHAPE">>,
     <<\E at \in {"src", "dst"} : ~Room(r, at, r.n * CastWidth(r, at)), "SIZE">> >>
CastEntry(r) ==
  LET units == CeilDiv(r.n, 4)
      Lane(u) == {Span(at, IF at = "src" THEN "read" ELSE "write", 4 * u, Least(4, r.n - 4 * u), CastWidth(r, at)) :
                    at \in {"src", "dst"}}
  IN  Entered(FirstOf(CastRefusals(r)),
              <<Launch(<<"cast", r.mode>>, units, Mats.castLanes, <<CeilDiv(units, Mats.castLanes), 1, 1>>,
                       [u \in 0..(units - 1) |-> Lane(u)], {"src"}, {"dst"})>>,
              0, {})
-----------------------------------------------------------------------------
(* f32 products over views of a batch: offset, then batch, row and column  *)
(* strides.                                                                *)
Plain(r) == r.kind \in {"MmPlain", "BmmPlain"}
Batched(r) == r.kind \in {"Bmm", "BmmPlain"}
Sides(r, at) == CASE at = "a" -> <<r.m, r.k>> [] at = "b" -> <<r.k, r.n>> [] at = "c" -> <<r.m, r.n>>
Cell(r, at, batch, row, col) ==
  r.view[at].offset + batch * r.view[at].batch + row * r.view[at].row + col * r.view[at].col

MatrixViewRefusals(r, at) ==
  LET rows == Sides(r, at)[1]
      cols == Sides(r, at)[2]
      needed == Cell(r, at, r.batch - 1, rows - 1, cols - 1) + 1
  IN  << <<r.batch \notin 1..Mats.batch \/ ~({rows, cols} \subseteq 1..Mats.side), "SHAPE">>,
         <<0 \in {r.view[at].batch, r.view[at].row, r.view[at].col}, "SHAPE">>,
         <<r.batch * rows * cols > Mats.addressed \/ needed > Mats.addressed, "SHAPE">>,
         <<Held(r, at) < needed, "SIZE">> >>
\* is_non_overlapping_output: dense rows or dense columns, and whole batches.
OutputApart(r) ==
  LET c == r.view["c"] IN
  /\ \/ c.col = 1 /\ c.row >= r.n
     \/ c.row = 1 /\ c.col >= r.m
  /\ r.batch = 1 \/ c.batch >= (r.m - 1) * c.row + (r.n - 1) * c.col + 1
ProductRefusals(r) ==
  << <<~Batched(r) /\ r.batch # 1, "SHAPE">>,
     <<r.k > Mats.inner, "SHAPE">>,
     <<~OutputApart(r), "SHAPE">> >>

ProductTile(r) == IF Plain(r) THEN Mats.plainTile ELSE Mats.viewTile
ProductGroups(r) == <<CeilDiv(r.n, ProductTile(r)), CeilDiv(r.m, ProductTile(r)), r.batch>>
ProductTouches(r, u) ==
  LET at == GroupAt(ProductGroups(r), u)
      rows == TileRange(at[2], ProductTile(r), r.m)
      cols == TileRange(at[1], ProductTile(r), r.n)
      inner == 0..(r.k - 1)
  IN  {WordTouch("a", "read", Cell(r, "a", at[3], i, k)) : i \in rows, k \in inner}
        \cup {WordTouch("b", "read", Cell(r, "b", at[3], k, j)) : k \in inner, j \in cols}
        \cup {WordTouch("c", "write", Cell(r, "c", at[3], i, j)) : i \in rows, j \in cols}
ProductEntry(r) ==
  LET shared == << <<Shared(r, {"c"}, {"a", "b"}), "SHAPE">> >>
      views == MatrixViewRefusals(r, "a") \o MatrixViewRefusals(r, "b") \o MatrixViewRefusals(r, "c")
      Unit(u) == ProductTouches(r, u)
  IN  Entered(FirstOf(shared \o views \o ProductRefusals(r) \o GridRefusals(ProductGroups(r))),
              <<Products(<<"matmul_f32", IF Plain(r) THEN "v2" ELSE "v1">>, ProductGroups(r), Unit)>>, 0, {})
-----------------------------------------------------------------------------
(* 16-bit products.  `entry` is "dense" (ack_matmul_bf16, ack_matmul_f16), *)
(* "z" (their z grids), "half" (16-bit C) or "halfz"; z indexes a batch    *)
(* (zmode 0) or the splits of k (zmode 1).                                 *)
ToHalf(r) == r.entry \in {"half", "halfz"}
Layered(r) == r.entry \in {"z", "halfz"}
Stored(r, at) ==
  IF at = "a" THEN IF r.aT THEN <<r.k, r.m>> ELSE <<r.m, r.k>>
  ELSE IF r.bT THEN <<r.n, r.k>> ELSE <<r.k, r.n>>
Pitch(r, at) == IF r.pitch[at] = 0 THEN Stored(r, at)[2] ELSE r.pitch[at]

\* The bytes an operand spans, the last of z included.
OperandSpan(r, at) ==
  LET last == (r.z - 1) * r.stride[at]
      span == (Stored(r, at)[1] - 1) * Pitch(r, at) + Stored(r, at)[2]
  IN  IF at = "c" THEN (last + r.m * r.n) * IF ToHalf(r) THEN 2 ELSE 4
      ELSE 2 * (span + IF r.zmode = 1 THEN 0 ELSE last)
SpanRefusal(r) == <<\E at \in {"a", "b", "c"} : ~Room(r, at, OperandSpan(r, at)), "SIZE">>
AliasRefusal(r) == <<Shared(r, {"c"}, {"a", "b"}), "SHAPE">>

\* What the device must report, by element and output.
Capable(r) ==
  (CASE r.elem = "bf16" -> {"bf16"} [] r.elem = "f16" /\ ~ToHalf(r) -> {"f16"} [] OTHER -> {"f16", "rounding"}) \subseteq r.device
NarrowStrides(r) ==
  r.z > 1 /\ (r.stride["a"] < Stored(r, "a")[2] \/ r.stride["b"] < Stored(r, "b")[2] \/ r.stride["c"] < r.m * r.n)
SplitRefused(r) ==
  \/ r.stride["a"] # 0 \/ r.stride["b"] # 0
  \/ r.kz = 0 \/ r.kz * r.z < r.k
  \/ r.stride["c"] < r.m * r.n

HalfRefusals(r) ==
  LET zero == <<0 \in {r.m, r.n, r.k}, "SHAPE">>
      depth == <<r.z \notin 1..MaxGroups, "SHAPE">>
      narrow == <<\E at \in {"a", "b"} : Pitch(r, at) < Stored(r, at)[2], "SHAPE">>
      odd == <<r.n % 2 # 0 \/ (r.entry = "halfz" /\ r.stride["c"] % 2 # 0), "SHAPE">>
      absent == <<~Capable(r), "UNSUPPORTED">>
      lacks == <<r.elem = "f16" /\ ~Capable(r), "UNSUPPORTED">>
  IN  CASE r.entry = "dense" -> <<zero, lacks, SpanRefusal(r), absent>>
        [] r.entry = "z" ->
             <<zero, depth, <<r.zmode > 1, "SHAPE">>, narrow,
               <<IF r.zmode = 1 THEN SplitRefused(r) ELSE NarrowStrides(r), "SHAPE">>,
               lacks, AliasRefusal(r), SpanRefusal(r), absent>>
        [] r.entry = "half" -> <<zero, odd, absent, SpanRefusal(r), AliasRefusal(r)>>
        [] r.entry = "halfz" ->
             <<zero, depth, <<r.zmode # 0 \/ r.kz # 0, "SHAPE">>, odd, narrow, <<NarrowStrides(r), "SHAPE">>,
               absent, AliasRefusal(r), SpanRefusal(r)>>

\* Aligned modules read vectors of eight and never look at an edge.
Aligned(r) ==
  /\ r.m % Mats.tile = 0 /\ r.n % Mats.tile = 0 /\ r.k % Mats.depth = 0
  /\ Layered(r) => /\ \A at \in {"a", "b"} : Pitch(r, at) % Mats.vector = 0
                   /\ r.zmode = 0 => \A at \in {"a", "b"} : r.stride[at] % Mats.vector = 0
                   /\ r.zmode = 1 => r.kz % Mats.depth = 0

\* A set holds four modules of one kind, four of the other and, on some
\* devices, four that take the grid in bands of rows.
SetLength(r) == IF "bands" \in r.device THEN 12 ELSE 8
Layout(r) == (IF r.aT THEN 2 ELSE 0) + IF r.bT THEN 1 ELSE 0
BandIndex(r) ==
  IF Aligned(r) /\ SetLength(r) >= 12 /\ CeilDiv(r.n, Mats.tile) >= Mats.bandCols THEN {8 + Layout(r)} ELSE {}
ModuleIndex(r) ==
  IF BandIndex(r) # {} THEN CHOOSE i \in BandIndex(r) : TRUE
  ELSE Layout(r) + IF Aligned(r) = ToHalf(r) THEN 4 ELSE 0
ModuleSet(r) == {<<r.elem, ToHalf(r), i>> : i \in 0..(SetLength(r) - 1)}
ModuleAligned(r, index) == index >= 8 \/ (index >= 4) = ToHalf(r)

\* The tile of a work group: bands walk down their rows before the columns.
Banded(groups, x, y) ==
  LET linear == y * groups[1] + x
      size == Mats.band * groups[1]
      first == (linear \div size) * Mats.band
      rows == Least(groups[2] - first, Mats.band)
      within == linear % size
  IN  <<first + (within % rows), within \div rows>>

\* The k a work group sums over, in the shader's 32 bits.
SplitStart(r, z) == IF r.zmode = 1 THEN (z * r.kz) % U32 ELSE 0
SplitEnd(r, z) == IF r.zmode = 1 THEN Least(r.k, (SplitStart(r, z) + r.kz) % U32) ELSE r.k

\* Where an element is: an aligned module divides base and pitch by eight.
HalfElement(aligned, base, pitch, row, col) ==
  LET v == Mats.vector IN
  IF aligned THEN v * (base \div v + row * (pitch \div v) + col \div v) + (col % v) ELSE base + row * pitch + col
\* Element (row, col) of what an operand of product z holds, and the word or
\* half word of the output for row i and column j.
HalfBase(r, z, name) == IF r.zmode = 1 THEN 0 ELSE z * r.stride[name]
HalfRead(r, index, z, name, row, col) ==
  ElementTouch(name, "read",
               HalfElement(ModuleAligned(r, index), HalfBase(r, z, name), Pitch(r, name), row, col), 2)
HalfWritten(r, z, i, j) ==
  LET e == z * r.stride["c"] + i * r.n + j IN WordTouch("c", "write", IF ToHalf(r) THEN e \div 2 ELSE e)
LeftRead(r, index, z, rows, terms) ==
  {IF (index % 4) >= 2 THEN HalfRead(r, index, z, "a", k, i) ELSE HalfRead(r, index, z, "a", i, k) : i \in rows, k \in terms}
RightRead(r, index, z, cols, terms) ==
  {IF index % 2 = 1 THEN HalfRead(r, index, z, "b", j, k) ELSE HalfRead(r, index, z, "b", k, j) : j \in cols, k \in terms}
ProductWritten(r, z, written) == {HalfWritten(r, z, w[1], w[2]) : w \in written}
HalfTouches(r, groups, index, u) ==
  LET at == GroupAt(groups, u)
      aligned == ModuleAligned(r, index)
      tile == IF index >= 8 THEN Banded(groups, at[1], at[2]) ELSE <<at[2], at[1]>>
      Whole(i, end) == TileRange(i, Mats.tile, IF aligned THEN (i + 1) * Mats.tile ELSE end)
      from == SplitStart(r, at[3])
      end == SplitEnd(r, at[3])
      terms == from..(IF aligned THEN from + CeilDiv(Most(end - from, 0), Mats.depth) * Mats.depth - 1 ELSE end - 1)
      written == IF ToHalf(r) THEN TileRange(tile[1], Mats.tile, r.m) \X TileRange(tile[2], Mats.tile, r.n)
                 ELSE Whole(tile[1], r.m) \X Whole(tile[2], r.n)
  IN  LeftRead(r, index, at[3], Whole(tile[1], r.m), terms)
        \cup RightRead(r, index, at[3], Whole(tile[2], r.n), terms)
        \cup ProductWritten(r, at[3], written)
HalfGroups(r) == <<CeilDiv(r.n, Mats.tile), CeilDiv(r.m, Mats.tile), r.z>>
HalfEntry(r) ==
  LET index == ModuleIndex(r)
      Unit(u) == HalfTouches(r, HalfGroups(r), index, u)
  IN  Entered(FirstOf(HalfRefusals(r) \o GridRefusals(HalfGroups(r))),
              <<Products(<<r.elem, ToHalf(r), index>>, HalfGroups(r), Unit)>>,
              0, IF r.elem = "bf16" /\ ~ToHalf(r) THEN {} ELSE ModuleSet(r))

\* The s-th split owns k in s*kz .. min(k, (s+1)*kz) - 1.
Owned(r, z) == IF r.zmode = 1 THEN (z * r.kz)..(Least(r.k, (z + 1) * r.kz) - 1) ELSE 0..(r.k - 1)
=============================================================================
