------------------------------ MODULE Nf4Plans ------------------------------
(***************************************************************************)
(* Weights stored in NF4 with double quantisation (nf4_ops): their decode, *)
(* the grouped product that reads them as they are stored, and the same    *)
(* product at a few rows a group, with the entries of the C ABI.           *)
(* `starts[m + 1]` is the first value of member m; a row of `table` is a   *)
(* group: its first row, its rows and its weight's first value.            *)
(***************************************************************************)
EXTENDS MatrixPlans

SourceNames == {"packed", "absmax_q", "absmax2", "tables", "starts", "offsets"}
Nested == Mats.block * Mats.nested

\* values_covered: what the three stored buffers hold from their fronts.
Covered(r) ==
  LET Words(at) == r.storage[at].capacity \div 4 IN
  Least(Mats.perWord * Words("packed"), Least(4 * Words("absmax_q") * Mats.block, Words("absmax2") * Nested))
BadBase(r) == r.base % Nested # 0 \/ r.base >= Covered(r)
Members(r) == Len(r.starts)
TableBytes(r) == [tables |-> 4 * Mats.entries, starts |-> 8 * Members(r), offsets |-> 4 * Members(r)]

\* member_of: the last member that starts at or before a value.
MemberOf(r, v) == Most(Cardinality({m \in 1..Members(r) : r.starts[m] <= v}) - 1, 0)

\* What decoding the word of values from v on, past the base, reads.
Decoded(r, member, v) ==
  LET s == (r.base + v) % U32
      block == s \div Mats.block
  IN  {WordTouch("packed", "read", s \div Mats.perWord), WordTouch("absmax_q", "read", block \div 4),
       WordTouch("absmax2", "read", block \div Mats.nested), WordTouch("offsets", "read", member)}
        \cup {WordTouch("tables", "read", e) : e \in 0..(Mats.entries - 1)}
Searched(r) == {WordTouch("starts", "read", 2 * m) : m \in 1..(Members(r) - 1)}
-----------------------------------------------------------------------------
(* Decoding: the whole source (`ids` empty) or members of one size.        *)
Selected(r) == Len(r.ids)
DecodeWidth(r) == IF r.width = 0 THEN 4 ELSE 2
DecodeRefusals(r) ==
  LET size == r.memberValues IN
  << <<r.width \notin 0..2, "SHAPE">>,
     <<r.n = 0, "SHAPE">>,
     <<r.n > U32 \div 2, "SIZE">>,
     <<Members(r) = 0, "SHAPE">>,
     <<Selected(r) # 0 /\ (size = 0 \/ size % Mats.block # 0 \/ Selected(r) * size # r.n), "SHAPE">>,
     <<BadBase(r), "SHAPE">>,
     <<Selected(r) = 0 /\ r.n > Least(Covered(r) - r.base, U32 - 1), "SIZE">> >>
DecodeRoles(r) ==
  << <<Lacks(r, TableBytes(r)) \/ Lacks(r, [ids |-> 8 * Selected(r), out |-> r.n * DecodeWidth(r)]), "SIZE">>,
     <<Shared(r, {"out"}, SourceNames \cup IF Selected(r) = 0 THEN {} ELSE {"ids"}), "SHAPE">> >>

\* The member the value v of the output is of, -1 for none, and its place in
\* the source.
IdOf(r, v) == r.ids[v \div r.memberValues + 1]
SourceMember(r, v) ==
  IF Selected(r) = 0 THEN MemberOf(r, v) ELSE IF IdOf(r, v) \in 0..(Members(r) - 1) THEN IdOf(r, v) ELSE -1
SourceValue(r, v) ==
  IF Selected(r) = 0 THEN v
  ELSE (IF SourceMember(r, v) < 0 THEN 0 ELSE r.starts[SourceMember(r, v) + 1]) + (v % r.memberValues)
\* A word past the source, or of no member, decodes to NaNs.
WordHeld(r, v, count) ==
  SourceMember(r, v) >= 0 /\ SourceValue(r, v) + count <= Least(Covered(r) - r.base, U32 - 1)

DecodeTouches(r, w) ==
  LET v == w * Mats.perWord
      count == Least(Mats.perWord, r.n - v)
      named == IF Selected(r) = 0 THEN Searched(r)
               ELSE {ElementTouch("ids", "read", v \div r.memberValues, 8)}
                      \cup IF SourceMember(r, v) < 0 THEN {} ELSE {WordTouch("starts", "read", 2 * SourceMember(r, v))}
  IN  named \cup {Span("out", "write", v, count, DecodeWidth(r))}
        \cup IF WordHeld(r, v, count) THEN Decoded(r, SourceMember(r, v), SourceValue(r, v)) ELSE {}
DecodeEntry(r) ==
  LET words == CeilDiv(r.n, Mats.perWord) IN
  Entered(Either(FirstOf(DecodeRefusals(r)), FirstOf(DecodeRoles(r))),
          <<Launch(<<"nf4_decode", r.width>>, words, Mats.decodeLanes, Folded(words, Mats.decodeLanes),
                   [w \in 0..(words - 1) |-> DecodeTouches(r, w)],
                   SourceNames \cup (IF Selected(r) = 0 THEN {} ELSE {"ids"}), {"out"})>>,
          0, {<<"nf4_decode", r.width>>})
-----------------------------------------------------------------------------
(* Grouped products: "product" over cooperative matrices, "gemv" one work  *)
(* group a column.  The table is device data the entry does not read.      *)
Gemv(r) == r.entry = "gemv"
RowPitch(r) == IF r.lda = 0 THEN r.k ELSE r.lda
GroupedRefusals(r) ==
  LET row == IF Gemv(r) \/ r.bT THEN r.k ELSE r.n
      span == (r.rows - 1) * RowPitch(r) + r.k
      grid == Most(CeilDiv(r.n, Mats.tile), CeilDiv(r.maxRows, Mats.tile))
  IN  << <<r.elem \notin {"bf16", "f16"}, "SHAPE">>,
         <<~Gemv(r) /\ r.half /\ r.n % 2 # 0, "SHAPE">>,
         <<~Gemv(r) /\ ~({r.elem} \cup (IF r.half /\ r.elem = "f16" THEN {"rounding"} ELSE {}) \subseteq r.device), "UNSUPPORTED">>,
         <<0 \in {r.rows, r.maxRows, r.n, r.k}, "SHAPE">>,
         <<Len(r.table) \notin 1..MaxGroups, "SHAPE">>,
         <<r.maxRows > r.rows, "SHAPE">>,
         <<Gemv(r) /\ r.maxRows > Mats.gemvRows, "SHAPE">>,
         <<row % Mats.perWord # 0, "SHAPE">>,
         <<RowPitch(r) < r.k, "SHAPE">>,
         <<Gemv(r) /\ RowPitch(r) % Mats.perWord # 0, "SHAPE">>,
         <<Members(r) = 0, "SHAPE">>,
         <<BadBase(r), "SHAPE">>,
         <<r.n * r.k > Covered(r) - r.base, "SIZE">>,
         <<\E n \in {span, r.rows * r.n, r.n * r.k} : n >= U32, "SIZE">>,
         <<~Gemv(r) /\ grid > MaxGroups, "SIZE">> >>
GroupedRoles(r) ==
  LET out == r.rows * r.n * IF ~Gemv(r) /\ r.half THEN 2 ELSE 4
      span == (r.rows - 1) * RowPitch(r) + r.k
  IN  << <<Lacks(r, TableBytes(r)) \/ Lacks(r, [a |-> 2 * span, groups |-> 12 * Len(r.table), c |-> out]), "SIZE">>,
         <<Shared(r, {"c"}, SourceNames \cup {"a", "groups"}), "SHAPE">> >>

\* What the kernel checks of a group before it touches anything.
SourceLimit(r) == Least(Covered(r) - r.base, U32 - 1 - r.base)
GroupServed(r, z) ==
  LET g == r.table[z + 1] IN
  /\ g[2] # 0
  /\ g[2] <= IF Gemv(r) THEN (IF r.maxRows <= Mats.fewRows THEN Mats.fewRows
                              ELSE IF r.maxRows <= Mats.someRows THEN Mats.someRows ELSE Mats.gemvRows)
             ELSE r.maxRows
  /\ (g[1] + g[2]) % U32 >= g[1]
  /\ (g[1] + g[2]) % U32 <= r.rows
  /\ g[3] % Mats.perWord = 0
  /\ g[3] <= SourceLimit(r) /\ r.n * r.k <= SourceLimit(r) - g[3]

\* The weight (j, k), counted from the group's first value.
WeightAt(r, j, k) == IF Gemv(r) \/ r.bT THEN j * r.k + k ELSE k * r.n + j
OutPlace(r, row, j) ==
  LET e == row * r.n + j IN IF ~Gemv(r) /\ r.half THEN e \div 2 ELSE e
WeightRead(r, g, j, k) ==
  LET v == g[3] + WeightAt(r, j, k) IN Decoded(r, MemberOf(r, v), v)
RowsRead(r, g, rows) == {ElementTouch("a", "read", (g[1] + i) * RowPitch(r) + k, 2) : i \in rows, k \in 0..(r.k - 1)}
WeightsRead(r, g, cols) == UNION {WeightRead(r, g, j, k) : j \in cols, k \in 0..(r.k - 1)}
TileWritten(r, g, rows, cols) == {WordTouch("c", "write", OutPlace(r, g[1] + i, j)) : i \in rows, j \in cols}
TilesTouched(r, g, rows, cols) ==
  Searched(r) \cup RowsRead(r, g, rows) \cup WeightsRead(r, g, cols) \cup TileWritten(r, g, rows, cols)
GroupedGrid(r) ==
  LET columns == Most(Least(r.n, MaxGroups), 1) IN
  IF Gemv(r) THEN <<columns, CeilDiv(r.n, columns), Len(r.table)>>
  ELSE <<CeilDiv(r.n, Mats.tile), CeilDiv(r.maxRows, Mats.tile), Len(r.table)>>
GroupedTouches(r, u) ==
  LET at == GroupAt(GroupedGrid(r), u)
      z == at[3]
      count == r.table[z + 1][2]
      column == at[2] * GroupedGrid(r)[1] + at[1]
      rows == IF Gemv(r) THEN 0..(count - 1) ELSE TileRange(at[2], Mats.tile, count)
      cols == IF Gemv(r) THEN {column} ELSE TileRange(at[1], Mats.tile, r.n)
      busy == GroupServed(r, z) /\ rows # {} /\ (Gemv(r) => column < r.n)
  IN  {WordTouch("groups", "read", (3 * z) + i) : i \in 0..2} \cup IF busy THEN TilesTouched(r, r.table[z + 1], rows, cols) ELSE {}
GroupedKernel(r) ==
  IF Gemv(r) THEN <<"nf4_gemv", r.elem, IF r.maxRows <= Mats.fewRows THEN 0 ELSE IF r.maxRows <= Mats.someRows THEN 1 ELSE 2>>
  ELSE <<"nf4_matmul", r.elem, r.half, r.bT>>
GroupedBuilt(r) ==
  IF Gemv(r) THEN {GroupedKernel(r)} ELSE {<<"nf4_matmul", r.elem, r.half, bT>> : bT \in BOOLEAN}
GroupedEntry(r) ==
  Entered(Either(FirstOf(GroupedRefusals(r)), FirstOf(GroupedRoles(r))),
          <<Launch(GroupedKernel(r), GroupCount(GroupedGrid(r)), 1, GroupedGrid(r),
                   [u \in 0..(GroupCount(GroupedGrid(r)) - 1) |-> GroupedTouches(r, u)],
                   SourceNames \cup {"a", "groups"}, {"c"})>>,
          0, GroupedBuilt(r))
=============================================================================
