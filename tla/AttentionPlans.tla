--------------------------- MODULE AttentionPlans ---------------------------
(***************************************************************************)
(* Fused attention (attention_fused): the forward pass, and the two passes *)
(* of the backward, with the entries of the C ABI that answer them.  A     *)
(* unit is a work group: a block of queries of one head, or a block of     *)
(* keys of one key head, of one batch.  Strides are <<batch, head, row>>   *)
(* in elements, and a row's elements are contiguous.                       *)
(***************************************************************************)
EXTENDS Nf4Plans

CONSTANTS
  Attn,     \* BLOCK_ROWS, the staged blocks BC and BQ, and the 16-byte load
  HeadDims  \* HEAD_DIMS

ASSUME AttentionAssumption ==
  /\ Attn \in [{"blockRows", "stagedKeys", "stagedQueries", "vector"} -> Nat \ {0}]
  /\ HeadDims \subseteq Nat \ {0}
  /\ \A d \in HeadDims : d % Attn.vector = 0

QueryRoles == {"q", "o", "g", "dq"}
ForwardRoles == {"q", "k", "v", "o"}
AttentionRoles == {"q", "k", "v", "o", "g", "lse", "dq", "dk", "dv"}
RowRoles(r) == IF r.backward THEN AttentionRoles \ {"lse"} ELSE ForwardRoles
AttentionWrites(r) == IF r.backward THEN {"dq", "dk", "dv"} ELSE {"o", "lse"}
AttentionReads(r) == IF r.backward THEN {"q", "k", "v", "o", "g", "lse"} ELSE {"q", "k", "v"}
HeadsOf(r, at) == IF at \in QueryRoles THEN r.heads ELSE r.kvHeads
QueryBlocks(r) == CeilDiv(r.seq, Attn.blockRows)

RowAt(r, at, b, h, t) == b * r.stride[at][1] + h * r.stride[at][2] + t * r.stride[at][3]
LastElement(r, at) == RowAt(r, at, r.batch - 1, HeadsOf(r, at) - 1, r.seq - 1) + r.dim - 1

RowRefused(r, at) ==
  \/ \E i \in 1..3 : r.stride[at][i] % 2 # 0 \/ r.stride[at][i] >= U32
  \/ LastElement(r, at) >= Least(U32, r.storage[at].capacity \div 2)

\* In the entry's order; the product of the three extents is not checked, but
\* a grid that wraps it is refused after it.
AttentionRefusals(r) ==
  LET rows == (r.batch * r.heads * r.seq) % U64 IN
  << <<r.reserved # 0 \/ r.causal > 1, "SHAPE">>,
     <<r.dim \notin HeadDims, "SHAPE">>,
     <<r.device \cap {32, 64} = {}, "UNSUPPORTED">>,
     <<Shared(r, AttentionWrites(r), AttentionReads(r)), "SHAPE">>,
     <<0 \in {r.batch, r.heads, r.kvHeads, r.seq}, "SHAPE">>,
     <<r.kvHeads # 0 /\ r.heads % r.kvHeads # 0, "SHAPE">>,
     <<~r.finite, "SHAPE">>,
     <<\E at \in ForwardRoles : RowRefused(r, at), "SHAPE">>,
     <<rows >= U32 \/ ~Room(r, "lse", 4 * rows), "SHAPE">>,
     <<QueryBlocks(r) > MaxGroups \/ r.heads > MaxGroups \/ r.batch > MaxGroups, "SHAPE">>,
     <<\E at \in RowRoles(r) \ ForwardRoles : RowRefused(r, at), "SHAPE">> >>

\* A row is loaded 16 bytes at a time when every stride is a multiple of
\* them, else (and stored always) a pair of elements at a time.
Loads(r, roles) ==
  IF \A at \in roles, i \in 1..3 : r.stride[at][i] % Attn.vector = 0 THEN Attn.vector ELSE 2
RowTouch(r, at, how, width, b, h, t) ==
  Span(at, how, width * (RowAt(r, at, b, h, t) \div width), r.dim, 2)

\* What the work group of a block reads of its queries, and of its keys.
QueryReads(r, roles, b, h, rows) ==
  {RowTouch(r, at, "read", IF at = "o" THEN 2 ELSE Loads(r, {at}), b, h, t) : at \in roles, t \in rows}
LseReads(r, b, h, rows) == {WordTouch("lse", "read", (b * r.heads + h) * r.seq + t) : t \in rows}
KeyReads(r, b, hk, rows) ==
  {RowTouch(r, at, "read", Loads(r, {"k", "v"}), b, hk, t) : at \in {"k", "v"}, t \in rows}
RowWrites(r, roles, b, h, rows) == {RowTouch(r, at, "write", 2, b, h, t) : at \in roles, t \in rows}

\* The key head of a query head, and the queries and keys a block sees: a
\* causal mask stops at the staged block that holds the last query, and
\* starts at the one that holds the first key.
Causal(r) == r.causal = 1
HeadGroup(r) == r.heads \div r.kvHeads
KeysSeen(r, block) ==
  LET staged == CeilDiv(r.seq, Attn.stagedKeys)
      last == IF Causal(r) THEN Least(staged, CeilDiv((block + 1) * Attn.blockRows, Attn.stagedKeys)) ELSE staged
  IN  0..(Least(r.seq, last * Attn.stagedKeys) - 1)
QueriesSeen(r, block) ==
  LET first == IF Causal(r) THEN (block * Attn.blockRows) \div Attn.stagedQueries ELSE 0
  IN  (first * Attn.stagedQueries)..(r.seq - 1)

\* A causal pass starts with the last block, which has the most keys.
QueryTouches(r, backward, x, h, b) ==
  LET block == IF Causal(r) THEN QueryBlocks(r) - 1 - x ELSE x
      rows == TileRange(block, Attn.blockRows, r.seq)
      saved == IF backward THEN QueryReads(r, {"o", "g"}, b, h, rows) \cup LseReads(r, b, h, rows) ELSE {}
      lse == {WordTouch("lse", "write", (b * r.heads + h) * r.seq + t) : t \in rows}
  IN  QueryReads(r, {"q"}, b, h, rows) \cup saved
        \cup KeyReads(r, b, h \div HeadGroup(r), KeysSeen(r, block))
        \cup IF backward THEN RowWrites(r, {"dq"}, b, h, rows) ELSE RowWrites(r, {"o"}, b, h, rows) \cup lse

\* A block of keys sums over the query heads that share its key head.
KeyTouches(r, block, hk, b) ==
  LET rows == TileRange(block, Attn.blockRows, r.seq)
      queries == QueriesSeen(r, block)
  IN  KeyReads(r, b, hk, rows) \cup RowWrites(r, {"dk", "dv"}, b, hk, rows)
        \cup UNION {QueryReads(r, {"q", "o", "g"}, b, h, queries) \cup LseReads(r, b, h, queries) :
                      h \in TileRange(hk, HeadGroup(r), r.heads)}

AttentionKernel(r, half) == <<"attention", r.elem, r.dim, half>>
QueryGroups(r) == <<QueryBlocks(r), r.heads, r.batch>>
KeyGroups(r) == <<QueryBlocks(r), r.kvHeads, r.batch>>
QueryPass(r, half, writes) ==
  LET groups == QueryGroups(r)
      At(u) == GroupAt(groups, u)
  IN  Launch(AttentionKernel(r, half), GroupCount(groups), 1, groups,
             [u \in 0..(GroupCount(groups) - 1) |-> QueryTouches(r, half = "dq", At(u)[1], At(u)[2], At(u)[3])],
             AttentionReads(r), writes)
KeyPass(r) ==
  LET groups == KeyGroups(r)
      At(u) == GroupAt(groups, u)
  IN  Launch(AttentionKernel(r, "dkdv"), GroupCount(groups), 1, groups,
             [u \in 0..(GroupCount(groups) - 1) |-> KeyTouches(r, At(u)[1], At(u)[2], At(u)[3])],
             AttentionReads(r), {"dk", "dv"})
AttentionEntry(r) ==
  Entered(FirstOf(AttentionRefusals(r)),
          IF r.backward THEN <<QueryPass(r, "dq", {"dq"}), KeyPass(r)>> ELSE <<QueryPass(r, "fwd", {"o", "lse"})>>,
          0, {AttentionKernel(r, half) : half \in {"fwd", "dq", "dkdv"}})

\* The rows of an output are apart: the plan does not ask it of its caller.
RowsApart(r) ==
  \A at \in AttentionWrites(r) \ {"lse"} :
    AddressesAreDistinct(r.stride[at] \o <<1>>, <<r.batch, HeadsOf(r, at), r.seq, r.dim>>)

=============================================================================
