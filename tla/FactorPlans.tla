---------------------------- MODULE FactorPlans -----------------------------
(***************************************************************************)
(* The expert factors of the sub-bit student (expert_factor_ops), the      *)
(* gradient scaler's check and update (amp_ops) and vector-quantised       *)
(* arrays (vq4_ops), with the entries of the C ABI that answer them.       *)
(***************************************************************************)
EXTENDS FusedPlans

CONSTANTS
  Sizes,    \* the largest shapes these plans admit, and their group sizes
  VqGroups  \* the lengths of a quantised vector

SizeFields ==
  {"factors", "rank", "factorLanes", "count", "ampLanes", "values", "side", "macs", "entries", "perWord", "vqLanes"}
ASSUME FactorAssumption ==
  /\ Sizes \in [SizeFields -> Nat \ {0}]
  /\ VqGroups \subseteq Nat \ {0}
-----------------------------------------------------------------------------
(* Expert factors.  `ids[q + 1]` is the expert routed to q; one out of     *)
(* range leaves NaNs.  Halves of a factor's row are written two at a time. *)
Latent(r) == r.kind \in {"LatentForward", "LatentBackward"}
Forward(r) == r.kind \in {"LatentForward", "PackedForward"}
Packs(r) == CeilDiv(r.r, 8)

FactorRefusals(r) ==
  LET units == IF r.kind = "PackedBackwardCol" THEN r.p * r.r ELSE r.p * r.m
      groups == CeilDiv(units, Sizes.factorLanes)
      sizes == {r.p * r.m * r.ld, r.experts * r.m * r.r, r.experts * r.m * Packs(r), r.p * r.m * r.r}
  IN  << <<0 \in {r.experts, r.p, r.m, r.r}, "SHAPE">>,
         <<~(r.flags \subseteq {"Row", "Col", "Int8"}), "SHAPE">>,
         <<"Int8" \in r.flags /\ Latent(r), "SHAPE">>,
         <<r.r > Sizes.rank, "SHAPE">>,
         <<r.r8 % 8 # 0 \/ r.r8 \notin r.r..(r.r + 7), "SHAPE">>,
         <<r.ld % 2 # 0 \/ r.off % 2 # 0 \/ r.off + r.r8 > r.ld, "SHAPE">>,
         <<"Row" \notin r.flags /\ ("Col" \in r.flags \/ r.kind = "PackedBackwardCol"), "SHAPE">>,
         <<\E n \in sizes : n > Sizes.factors, "SIZE">>,
         <<CeilDiv(groups, Most(Least(groups, MaxGroups), 1)) > MaxGroups, "SIZE">> >>

FactorBytes(r, at) ==
  LET rows == r.experts * r.m
      If(flag, bytes) == IF flag \in r.flags THEN bytes ELSE 0
  IN  CASE at = "src" -> rows * (CASE Latent(r) -> 4 * r.r [] ~Latent(r) /\ "Int8" \in r.flags -> r.r [] OTHER -> Packs(r))
        [] at = "ids" -> 8 * r.p
        [] at = "row" -> If("Row", 4 * r.p * r.m)
        [] at = "col" -> If("Col", 4 * r.p * r.r)
        [] at = "factor" -> 2 * r.p * r.m * r.ld
        [] at = "out_a" -> CASE r.kind = "LatentBackward" -> 4 * rows * r.r
                             [] r.kind = "PackedBackwardRow" -> 4 * r.p * r.m
                             [] r.kind = "PackedBackwardCol" -> 4 * r.p * r.r
                             [] OTHER -> 0
        [] at = "out_b" -> IF r.kind = "LatentBackward"
                           THEN If("Row", 4 * r.p * r.m * IF "Col" \in r.flags THEN r.r ELSE 1) ELSE 0
FactorRoles == {"src", "ids", "row", "col", "factor", "out_a", "out_b"}
FactorWrites(r) == IF Forward(r) THEN {"factor"} ELSE {"out_a", "out_b"}
FactorShares(r) ==
  << <<Lacks(r, [at \in FactorRoles |-> FactorBytes(r, at)]), "SIZE">>,
     <<Shared(r, FactorWrites(r), {"src", "ids", "row", "col"} \cup IF Forward(r) THEN {} ELSE {"factor"}), "SHAPE">> >>

\* The word a sign is in, and the one a gradient is in.
SignWord(r, e, m, c) ==
  CASE Latent(r) -> (e * r.m + m) * r.r + c
    [] ~Latent(r) /\ "Int8" \in r.flags -> ((e * r.m + m) * r.r + c) \div 4
    [] OTHER -> ((e * r.m + m) * Packs(r) + c \div 8) \div 4
FactorWord(r, q, m, c) == ((q * r.m + m) * r.ld + r.off + c) \div 2
Expert(r, q) == r.ids[q + 1]
Routed(r, q) == Expert(r, q) \in 0..(r.experts - 1)

\* The scales of an entry.
RowScale(r, q, m) == IF "Row" \in r.flags THEN {<<"row", q * r.m + m>>} ELSE {}
ColScale(r, q, c) == IF "Col" \in r.flags THEN {<<"col", q * r.r + c>>} ELSE {}
Signed(r, q, m, c) == {<<"src", SignWord(r, Expert(r, q), m, c)>>}

\* The words unit (q, m) reads besides its id: forward the signs and scales,
\* backward the gradients too.  A sum over columns takes no row scale.
EntryWords(r, q, m) ==
  UNION {Signed(r, q, m, c) \cup ColScale(r, q, c)
           \cup (IF r.kind = "PackedBackwardRow" THEN {} ELSE RowScale(r, q, m))
           \cup (IF Forward(r) THEN {} ELSE {<<"factor", FactorWord(r, q, m, c)>>}) : c \in 0..(r.r - 1)}
ColumnWords(r, q, c) ==
  UNION {Signed(r, q, m, c) \cup RowScale(r, q, m) \cup {<<"factor", FactorWord(r, q, m, c)>>} : m \in 0..(r.m - 1)}

\* What unit (q, m) writes.
EntryWrites(r, q, m) ==
  LET own == q * r.m + m
      both == {"Row", "Col"} \subseteq r.flags
      latent == {<<"out_a", (Expert(r, q) * r.m + m) * r.r + c>> : c \in 0..(r.r - 1)}
      scales == IF both THEN {<<"out_b", own * r.r + c>> : c \in 0..(r.r - 1)}
                ELSE IF "Row" \in r.flags THEN {<<"out_b", own>>} ELSE {}
  IN  CASE Forward(r) -> {<<"factor", FactorWord(r, q, m, c)>> : c \in 0..(r.r8 - 1)}
        [] r.kind = "PackedBackwardRow" -> {<<"out_a", own>>}
        [] r.kind = "LatentBackward" -> scales \cup IF Routed(r, q) THEN latent ELSE {}

FactorTouches(r, u) ==
  LET column == r.kind = "PackedBackwardCol"
      q == u \div (IF column THEN r.r ELSE r.m)
      i == u % (IF column THEN r.r ELSE r.m)
      used == IF ~Routed(r, q) THEN {} ELSE IF column THEN ColumnWords(r, q, i) ELSE EntryWords(r, q, i)
      made == IF column THEN {<<"out_a", u>>} ELSE EntryWrites(r, q, i)
  IN  {ElementTouch("ids", "read", q, 8)} \cup {WordTouch(w[1], "read", w[2]) : w \in used}
        \cup {WordTouch(w[1], "write", w[2]) : w \in made}
FactorEntry(r) ==
  LET units == IF r.kind = "PackedBackwardCol" THEN r.p * r.r ELSE r.p * r.m IN
  Entered(Either(FirstOf(FactorRefusals(r)), FirstOf(FactorShares(r))),
          <<Launch(<<"expert_factor">>, units, Sizes.factorLanes, Folded(units, Sizes.factorLanes),
                   [u \in 0..(units - 1) |-> FactorTouches(r, u)], FactorRoles \ FactorWrites(r), FactorWrites(r))>>,
          0, {<<"expert_factor">>})

-----------------------------------------------------------------------------
(* The gradient scaler.  The check strides its grid over the elements; the *)
(* update is one invocation.  Offsets and counts are in elements.          *)
Held(r, at) == r.storage[at].capacity \div 4
Aliases(r, names) == \E a, b \in names : a # b /\ Same(r, a, b)

UnscaleRefusals(r) ==
  << <<Aliases(r, {"data", "scale", "found"}), "SHAPE">>,
     <<r.count > Sizes.count, "SIZE">>,
     <<\E n \in {r.offset + r.count, r.scaleAt, r.foundAt} : n >= U32, "SIZE">>,
     <<r.offset + r.count > Held(r, "data"), "SIZE">>,
     <<r.scaleAt >= Held(r, "scale") \/ r.foundAt >= Held(r, "found"), "SIZE">> >>
UnscaleTouches(r, u, step) ==
  {WordTouch("scale", "read", r.scaleAt), WordTouch("found", "atomic", r.foundAt)} \cup
  UNION {{WordTouch("data", how, r.offset + i) : how \in {"read", "write"}} : i \in {x \in 0..(r.count - 1) : x % step = u}}
UnscaleEntry(r) ==
  LET groups == Most(Least(CeilDiv(r.count, Sizes.ampLanes), MaxGroups), 1)
      started == groups * Sizes.ampLanes
      pass == Launch(<<"amp_unscale">>, Least(started, r.count), Sizes.ampLanes, <<groups, 1, 1>>,
                     [u \in 0..(Least(started, r.count) - 1) |-> UnscaleTouches(r, u, started)], {"scale"}, {"data", "found"})
  IN  Entered(FirstOf(UnscaleRefusals(r)), IF r.count = 0 THEN <<>> ELSE <<pass>>, 0, {<<"amp_unscale">>})

UpdateRefusals(r) ==
  << <<Aliases(r, {"scale", "tracker", "found"}), "SHAPE">>,
     <<~r.exact \/ r.interval >= U32 \div 2, "SIZE">>,
     <<\E n \in {r.scaleAt, r.trackerAt, r.foundAt} : n >= U32, "SIZE">>,
     <<r.scaleAt >= Held(r, "scale") \/ r.trackerAt >= Held(r, "tracker") \/ r.foundAt >= Held(r, "found"), "SIZE">> >>
UpdateEntry(r) ==
  LET word == [scale |-> r.scaleAt, tracker |-> r.trackerAt, found |-> r.foundAt]
      touches == {WordTouch(at, "read", word[at]) : at \in DOMAIN word}
                   \cup {WordTouch(at, "write", word[at]) : at \in {"scale", "tracker"}}
  IN  Entered(FirstOf(UpdateRefusals(r)),
              <<Launch(<<"amp_update">>, 1, 1, <<1, 1, 1>>, [u \in {0} |-> touches], {"found"}, {"scale", "tracker"})>>,
              0, {<<"amp_update">>})
-----------------------------------------------------------------------------
(* Vector-quantised arrays: codes into a book of vectors.  `code[b][v]` is *)
(* the code of vector v of binding b, any of the book's entries.           *)
VqWords(values, group) == CeilDiv(CeilDiv(values, group), Sizes.perWord)
VqProducts(r) == {r.m * r.k, r.k * r.n, r.m * r.n}
VqRefusals(r) ==
  LET flat == r.kind # "Matmul" IN
  << <<r.group \notin VqGroups \/ r.entries # Sizes.entries, "SHAPE">>,
     <<~(r.flags \subseteq IF flat THEN {} ELSE {"A", "B"}), "SHAPE">>,
     <<0 \in {r.m, r.n, r.k} \/ (flat /\ (r.n # 1 \/ r.k # 1)), "SHAPE">>,
     <<~flat /\ \E n \in {r.m, r.n, r.k} : n > Sizes.side, "SHAPE">>,
     <<flat /\ (IF r.kind = "AdamW" THEN 3 * r.m ELSE r.m) > Sizes.values, "SIZE">>,
     <<~flat /\ (r.m * r.n * r.k > Sizes.macs \/ \E n \in VqProducts(r) : n > Sizes.values), "SIZE">> >>

VqSlots == <<"b0", "b1", "b2", "b3", "out", "status">>
VqBytes(r) ==
  LET packed == 4 * VqWords(r.m, r.group)
      book == 4 * Sizes.entries * r.group
      dense == 4 * r.m
  IN  CASE r.kind = "Encode" -> <<dense, book, 0, 0, packed, 4>>
        [] r.kind = "Decode" -> <<packed, book, 0, 0, dense, 4>>
        [] r.kind = "AdamW" -> <<4 * packed, 4 * book, 28, 0, 3 * dense, 4>>
        [] r.kind = "Matmul" ->
             <<4 * VqWords(r.m * r.k, r.group), book, 4 * VqWords(r.k * r.n, r.group), book, 4 * r.m * r.n, 4>>
VqItems(r) ==
  CASE r.kind = "Encode" -> VqWords(r.m, r.group) [] r.kind = "Matmul" -> r.m * r.n [] OTHER -> r.m

\* validate_buffers and validate_dispatch: the device's own limit of groups.
VqShares(r) ==
  LET inputs == {"b0", "b1", "b2", "b3"}
      groups == Folded(VqItems(r), Sizes.vqLanes)
  IN  << <<\E i \in DOMAIN VqSlots : ~Room(r, VqSlots[i], VqBytes(r)[i]), "SIZE">>,
         <<Shared(r, {"out"}, inputs), "SHAPE">>,
         <<Shared(r, {"status"}, inputs \cup {"out"}), "SHAPE">>,
         <<\E axis \in 1..3 : groups[axis] \notin 1..r.deviceGroups, "SHAPE">> >>

\* A value of a packed array: the word of its vector's code, then the element
\* of the book's entry, for any entry the code may name.
Unpacked(r, codes, book, base, bookBase, logical) ==
  {WordTouch(codes, "read", base + (logical \div r.group) \div Sizes.perWord)}
    \cup {WordTouch(book, "read", bookBase + code * r.group + (logical % r.group)) : code \in 0..(Sizes.entries - 1)}
\* The check of the books, strided over every invocation launched.
BookCheck(r, u) ==
  LET launched == Folded(VqItems(r), Sizes.vqLanes)[1] * Folded(VqItems(r), Sizes.vqLanes)[2] * Sizes.vqLanes
      values == (IF r.kind = "AdamW" THEN 4 ELSE 1) * Sizes.entries * r.group
      books == {"b1"} \cup IF r.kind = "Matmul" THEN {"b3"} ELSE {}
  IN  {WordTouch(book, "read", j) : book \in books, j \in {x \in 0..(values - 1) : x % launched = u}}

VqTouches(r, i) ==
  LET Out(word) == WordTouch("out", "write", word)
      row == i \div r.n
      col == i % r.n
      A(inner) == IF "A" \in r.flags THEN inner * r.m + row ELSE row * r.k + inner
      B(inner) == IF "B" \in r.flags THEN col * r.k + inner ELSE inner * r.n + col
      vectors == {v \in 0..(CeilDiv(r.m, r.group) - 1) : v \div Sizes.perWord = i}
  IN  {WordTouch("status", "atomic", 0)} \cup BookCheck(r, i) \cup
      CASE r.kind = "Encode" ->
             {Out(i)} \cup {WordTouch("b1", "read", j) : j \in 0..(Sizes.entries * r.group - 1)}
               \cup UNION {{WordTouch("b0", "read", j) : j \in (v * r.group)..(Least(r.m, (v + 1) * r.group) - 1)} : v \in vectors}
        [] r.kind = "Decode" -> {Out(i)} \cup Unpacked(r, "b0", "b1", 0, 0, i)
        [] r.kind = "AdamW" ->
             {Out(i), Out(r.m + i), Out(2 * r.m + i)} \cup {WordTouch("b2", "read", j) : j \in 0..6}
               \cup UNION {Unpacked(r, "b0", "b1", state * VqWords(r.m, r.group), state * Sizes.entries * r.group, i) : state \in 0..3}
        [] r.kind = "Matmul" ->
             {Out(i)} \cup UNION {Unpacked(r, "b0", "b1", 0, 0, A(inner)) \cup Unpacked(r, "b2", "b3", 0, 0, B(inner)) : inner \in 0..(r.k - 1)}
VqEntry(r) ==
  LET items == VqItems(r) IN
  Entered(Either(FirstOf(VqRefusals(r)), FirstOf(VqShares(r))),
          <<Launch(<<"vq">>, items, Sizes.vqLanes, Folded(items, Sizes.vqLanes), [i \in 0..(items - 1) |-> VqTouches(r, i)],
                   {"b0", "b1", "b2", "b3"}, {"out", "status"})>>,
          0, {<<"vq">>})

=============================================================================
