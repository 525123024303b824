-------------------------- MODULE MCOperatorPlans ---------------------------
(***************************************************************************)
(* Instances of the planner: small shapes and strides, offsets off a word  *)
(* boundary, strides far beyond the widths, storage that is too small or   *)
(* shared.                                                                 *)
(***************************************************************************)
EXTENDS OperatorResults

Store(identity, capacity) == [identity |-> identity, capacity |-> capacity]
V(offset, strides) == [offset |-> offset, strides |-> strides]

\* Conversions: two dimensions, every overlap of the output's.
ConvertRequests(types) ==
  {[op |-> "convert", from |-> t[1], to |-> t[2], ndim |-> 2, shape |-> shape,
    input |-> V(0, in), out |-> V(at, out),
    storage |-> ("x" :> Store("x", 48) @@ "out" :> Store("out", 240))] :
     t \in types, shape \in {<<1, 3>>, <<2, 3>>, <<4, 4>>},
     in \in {<<4, 1>>, <<1, 4>>}, at \in {0, 3},
     out \in {<<0, 1>>, <<3, 1>>, <<4, 1>>, <<1, 2>>, <<1, 4>>, <<2, 2>>, <<4, 2>>, <<40, 1>>, <<8192, 8192>>}}
ConvertOdd(ranks) ==
  {[op |-> "convert", from |-> "U8", to |-> "U8", ndim |-> d, shape |-> <<2, last, 2, 2>>,
    input |-> V(1, <<4, 9, 2, 1>>), out |-> V(2, <<b, c, 2, 1>>),
    storage |-> ("x" :> Store("x", 17) @@ "out" :> Store(s[1], s[2]))] :
     d \in ranks, last \in {0, 1}, b \in {4, 6, 8}, c \in {0, 3}, s \in {<<"out", 12>>, <<"out", 24>>, <<"x", 24>>}}

\* Pointwise: in place, broadcast, padded and overlapping outputs; fills of
\* one element as many times as a u32 counts.
PointType(t) == "x" :> t[1] @@ "y" :> t[2] @@ "z" :> t[3] @@ "out" :> t[4]
PointRequests(kinds) ==
  {[op |-> "pointwise", kind |-> kind, ndim |-> Len(g[1]), shape |-> g[1], yScalar |-> scalar,
    view |-> ("x" :> V(0, g[2]) @@ "y" :> V(at, g[3]) @@ "z" :> V(0, g[2]) @@ "out" :> V(at, g[4])),
    type |-> PointType(t), n |-> g[5], vector |-> vector, bool8 |-> TRUE,
    storage |-> [a \in Operands |-> IF a = "out" THEN Store(s, 96) ELSE Store(a, 96)]] :
     kind \in kinds, scalar \in {TRUE, FALSE}, at \in {0, 1, 4}, vector \in {TRUE, FALSE}, s \in {"out", "x"},
     t \in {<<"F16", "F16", "F16", "F16">>, <<"F32", "Bf16", "F32", "F32">>, <<"F16", "Bf16", "F32", "F32">>},
     g \in {<< <<2, 4>>, <<4, 1>>, <<0, 1>>, <<4, 1>>, 8>>, << <<2, 4>>, <<4, 1>>, <<4, 1>>, <<8, 1>>, 8>>,
            << <<2, 3>>, <<3, 1>>, <<1, 2>>, <<1, 1>>, 6>>, << <<2, 2>>, <<2, 1>>, <<2, 1>>, <<0, 1>>, 4>>}}
PointOdd(kinds) ==
  {[op |-> "pointwise", kind |-> kind, ndim |-> Least(5, d), shape |-> [k \in 1..d |-> n], yScalar |-> TRUE,
    view |-> [at \in Operands |-> V(0, [k \in 1..d |-> 0])], type |-> PointType(t),
    n |-> counted, vector |-> FALSE, bool8 |-> counted = 1, storage |-> [at \in Operands |-> Store(at, c)]] :
     kind \in kinds, d \in {0, 1, 5}, n \in {1, 63, 64, 128}, counted \in {1, 63, 64}, c \in {0, 4},
     t \in {<<"F32", "F32", "F32", "F32">>, <<"Bool", "F16", "F32", "F32">>}}

\* Indexing: every choice of indices, out of range (-1) included.
IndexStorage(s) ==
  "src" :> Store("src", 64) @@ "index" :> Store("index", 64) @@ "out" :> Store(s[1], 64) @@ "status" :> Store(s[2], 8)
IndexRequest(op, type, dim, shape, views, i32, value, s, pick) ==
  [op |-> op, type |-> type, ndim |-> Len(shape), dim |-> dim, shape |-> shape,
   index |-> V(0, views[1]), src |-> V(1, views[2]), out |-> V(views[4], views[3]), i32 |-> i32, value |-> value,
   alpha |-> FALSE, bound |-> 2, statusSlot |-> 0, pick |-> pick, storage |-> IndexStorage(s)]
IndexLong(ops) ==
  {IndexRequest(op, type, 0, <<3>>, <<<<1>>, <<1>>, <<stride>>, at>>, TRUE, value, <<"out", "status">>, pick) :
     op \in ops, type \in {"F32", "I64", "F16"}, stride \in {1, 2},
     at \in {0, 2}, value \in {TRUE, FALSE}, pick \in [0..2 -> -1..1]}
IndexSquare(ops) ==
  {IndexRequest(op, type, dim, g[1], <<<<g[1][2], 1>>, <<g[1][2], 1>>, g[2], at>>, FALSE, FALSE, <<"out", "status">>, pick) :
     op \in ops, type \in {"U8", "F16"}, dim \in {0, 1}, at \in {0, 2}, pick \in [0..3 -> {-1, 1}],
     g \in {<< <<2, 2>>, <<2, 1>> >>, << <<2, 2>>, <<4, 2>> >>, << <<1, 4>>, <<4, 1>> >>, << <<1, 4>>, <<1, 2>> >>,
            << <<1, 4>>, <<2, 8>> >>, << <<4, 1>>, <<1, 1>> >>}}
IndexOdd(ops) ==
  {[IndexRequest(op, type, dim, <<2, 2>>, <<<<2, 1>>, <<2, 1>>, <<2, 1>>, 0>>, FALSE, value, s, [l \in 0..3 |-> l % 2])
    EXCEPT !.alpha = alpha, !.statusSlot = slot, !.bound = bound] :
     op \in ops, type \in {"F32", "F16"}, dim \in {1, 2}, value \in {TRUE, FALSE},
     s \in {<<"out", "status">>, <<"src", "status">>, <<"out", "index">>}, alpha \in {TRUE, FALSE},
     slot \in {1, 2}, bound \in {0, 2, 64}}

\* Integers: every kind, in place and not; rows of keys to rank.
IntRequest(kind, code, compute, in, scalar, shape, at, out, s, keys) ==
  [op |-> "intwise", kind |-> kind, ndim |-> 2, shape |-> shape,
   view |-> ("x" :> V(0, <<shape[2], 1>>) @@ "y" :> V(0, <<shape[2], 1>>) @@ "out" :> V(at, out)),
   type |-> ("x" :> in @@ "y" :> in), out_code |-> code, compute |-> compute, yScalar |-> scalar # 0, scalar |-> scalar,
   alpha |-> 1, keys |-> keys, storage |-> ("x" :> Store("x", 64) @@ "y" :> Store("y", 64) @@ "out" :> Store(s, 64))]
IntRequests(kinds) ==
  {IntRequest(kind, c[1], c[2], c[3], scalar, <<2, 3>>, at, out, s, [i \in 0..5 |-> i % 2]) :
     kind \in kinds, c \in {<<"I32", "I32", "I32">>, <<"I16", "I32", "U8">>, <<"Bool", "U8", "U8">>,
                            <<"F64", "F64", "F64">>, <<"Bool", "F64", "F64">>},
     scalar \in {0, 256}, at \in {0, 1}, out \in {<<3, 1>>, <<6, 2>>, <<1, 1>>}, s \in {"out", "x"}}
IntOdd(kinds) ==
  {IntRequest(kind, c[1], c[2], c[2], scalar, shape, 0, <<shape[2], 1>>, "out", [i \in 0..3 |-> 3 - i]) :
     kind \in kinds, c \in {<<"I32", "I32">>, <<"Bool", "Bool">>, <<"F32", "F64">>},
     scalar \in {-1, 2}, shape \in {<<1, 4>>, <<0, 1>>}}
RankRequests(kinds) ==
  {IntRequest(kind, "I32", "I32", "U8", 0, shape, 0, <<shape[2], 1>>, "out", keys) :
     kind \in kinds, shape \in {<<1, 4>>, <<2, 3>>}, keys \in [0..5 -> 0..1] \cup [0..5 -> 1..2]}

\* Reductions: every mask of small shapes, dense, transposed, broadcast.
MCLaw == [lanes |-> 4, chunk |-> 6, keptMin |-> 2, groupsMin |-> 3, anyGrid |-> 8, tileMin |-> 1, tileMax |-> 4,
          rowMax |-> 3, chunkMin |-> 2, splitsMax |-> 4, perLane |-> 2, target |-> 3, splitRows |-> 2,
          v1SplitMin |-> 4, v1ChunkMin |-> 2, v2SplitRows |-> 4, v2SplitTile |-> 2, rank |-> 4]
MCLimit == [rows |-> 4, cols |-> 4, elements |-> 12, tokens |-> 3, vocab |-> 3, dim |-> 3,
            width |-> 4, headWidth |-> 2, groupRows |-> 2, lanes |-> 4]
ReduceViews ==
  {V(0, g[2]) @@ ("shape" :> g[1]) : g \in {
     << <<2, 3>>, <<3, 1>> >>, << <<2, 3>>, <<1, 2>> >>, << <<2, 8>>, <<8, 1>> >>, << <<12, 2>>, <<2, 1>> >>,
     << <<8>>, <<1>> >>, << <<3, 2, 2>>, <<4, 2, 1>> >>, << <<2, 3, 2>>, <<1, 2, 6>> >>, << <<3, 9>>, <<1, 3>> >>,
     << <<4, 3, 2>>, <<6, 0, 1>> >>, << <<2, 2, 2, 2>>, <<8, 4, 2, 1>> >>, << <<6, 4>>, <<8, 2>> >>}}
ReduceRequests(partial) ==
  {[op |-> "reduce", kind |-> "Sum", finish |-> "None", mask |-> mask, finite |-> TRUE, in16 |-> t[1], out16 |-> t[2],
    f64 |-> t[3], v1Only |-> v1, partials |-> p > 0,
    view |-> [shape |-> v.shape, stride |-> v.strides, offset |-> v.offset],
    storage |-> ("x" :> Store("x", 256) @@ "out" :> Store("out", 96) @@ "partials" :> Store("partials", p))] :
     v \in ReduceViews, mask \in SUBSET (1..3) \ {{}}, p \in partial, v1 \in BOOLEAN,
     t \in {<<FALSE, FALSE, FALSE>>, <<TRUE, TRUE, FALSE>>, <<FALSE, FALSE, TRUE>>}}
ReduceOdd ==
  {[op |-> "reduce", kind |-> kind, finish |-> "None", mask |-> {2}, finite |-> finite, in16 |-> half, out16 |-> FALSE,
    f64 |-> f64, v1Only |-> FALSE, partials |-> s[1], view |-> [shape |-> shape, stride |-> <<8, 1>>, offset |-> at],
    storage |-> ("x" :> Store("x", 64) @@ "out" :> Store(s[2], s[4]) @@ "partials" :> Store(s[3], 64))] :
     kind \in {"Sum", "Max"}, finite \in BOOLEAN, half \in BOOLEAN, f64 \in BOOLEAN, at \in {0, 8, 60},
     shape \in {<<2, 8>>, <<2, 0>>, <<1>>},
     s \in {<<FALSE, "out", "partials", 8>>, <<FALSE, "out", "partials", 4>>, <<TRUE, "x", "partials", 8>>,
            <<TRUE, "out", "out", 8>>, <<TRUE, "out", "x", 8>>}}

\* Rows: every operation on small matrices, storage too small or shared.
RowOps == RmsKinds \cup {"SoftmaxForward", "SoftmaxBackward", "LogSoftmaxForward", "LogSoftmaxBackward"}
RowRequests ==
  {[op |-> "rowwise", kind |-> kind, rows |-> rows, cols |-> cols, finite |-> finite,
    storage |-> [at \in {"primary", "upstream", "gamma", "out"} |-> IF at = "out" THEN Store(s[1], s[2]) ELSE Store(at, 64)]] :
     kind \in RowOps, rows \in 0..4, cols \in 1..5, finite \in BOOLEAN,
     s \in {<<"out", 64>>, <<"out", 16>>, <<"primary", 64>>, <<"gamma", 64>>}}
LossRequests ==
  {[op |-> "loss", kind |-> kind, reduction |-> reduction, rows |-> rows, cols |-> cols, targets |-> targets,
    primary16 |-> half[1], out16 |-> half[2],
    storage |-> [at \in {"primary", "targets", "upstream", "out"} |->
                   IF at = "out" THEN Store(s[1], s[2]) ELSE Store(at, IF at = "targets" THEN 4 * rows ELSE 32)]] :
     kind \in LossKinds, reduction \in {"None", "Mean"}, rows \in 1..2, cols \in 1..3,
     targets \in {<<-1>>, <<1>>, <<0, -1>>, <<2, 1>>}, half \in {<<FALSE, FALSE>>, <<TRUE, FALSE>>, <<TRUE, TRUE>>},
     s \in {<<"out", 32>>, <<"out", 4>>, <<"upstream", 32>>}}
EmbeddingRequests ==
  {[op |-> "embedding", kind |-> kind, n |-> n, vocab |-> vocab, dim |-> dim, ids |-> ids,
    storage |-> ("primary" :> Store("primary", 48) @@ "indices" :> Store("indices", 4 * n) @@ "out" :> Store(s[1], s[2])
                   @@ "offsets" :> Store("offsets", IF kind = "Gather" THEN 4 ELSE 4 * (vocab + 1)))] :
     kind \in {"Gather", "Backward"}, n \in 1..3, vocab \in 1..4, dim \in {1, 3},
     ids \in {<<0>>, <<3>>, <<1, 0>>, <<2, 0, 2>>, <<1, 1, 1>>},
     s \in {<<"out", 48>>, <<"out", 4>>, <<"primary", 48>>, <<"indices", 12>>}}
NormRequest(kind, flags, rows, d, t, h, per, s) ==
  [op |-> "student_norm", kind |-> kind, flags |-> flags, rows |-> rows, d |-> d, t |-> t, h |-> h,
   perGroup |-> per, finite |-> TRUE,
   storage |-> [at \in Roles |-> IF at = s[1] THEN Store(s[2], 64) ELSE Store(at, s[3])]]
NormStores == {<<"x", "x", 64>>, <<"out0", "x", 64>>, <<"out1", "io2", 64>>, <<"x", "x", 8>>, <<"dy", "out0", 64>>}
NormRequests ==
  {NormRequest(kind, flags, rows, d, 1, 1, per, s) :
     kind \in {"Norm", "NormBackward"}, rows \in {1, 3}, d \in {2, 3, 4, 6}, per \in {1, 2, 3}, s \in NormStores,
     flags \in {{"Y32"}, {"X16", "Y16"}, {"Add", "Y32", "Y16"}, {"Add", "Aux16", "Y16"}, {"Add"},
                {}, {"Dy16"}, {"Dy16", "DyAbsent"}, {"Dh"}, {"DyAbsent"}}}
  \cup {NormRequest(kind, flags, rows, 2, t, h, 2, s) :
     kind \in QkKinds, flags \in {{}, {"SameLayout"}}, rows \in {4, 6}, t \in {0, 1, 2, 3}, h \in {1, 2, 43, 64},
     s \in NormStores \cup {<<"tab", "tab", 32>>}}

\* Fused kernels: small matrices, rooms and sharings of every binding.
MCBounds == [elements |-> 24, lanes |-> 4, pairs |-> 6, vocab |-> 4, dim |-> 3, bagLanes |-> 3, cols |-> 8,
             topK |-> 2, top |-> 6, groupRows |-> 2, block |-> 4]
MCSizes == [factors |-> 24, rank |-> 10, factorLanes |-> 4, count |-> 20, ampLanes |-> 4, values |-> 12, side |-> 3,
            macs |-> 12, entries |-> 2, perWord |-> 2, vqLanes |-> 3]
\* Every binding a buffer of its own, but `at`, which is s[1]'s and holds s[2].
Stores(names, s) == [at \in names |-> IF at = s[1] THEN Store(s[2], s[3]) ELSE Store(at, 128)]
RotaryRequests ==
  {[op |-> "rotary", kind |-> kind, rows |-> rows, cols |-> cols, posDiv |-> div, positions |-> positions,
    storage |-> Stores({"x", "cos", "sin", "out"}, s)] :
     kind \in {"Forward", "Backward"}, rows \in {0, 1, 3}, cols \in {1, 2, 4, 8}, div \in {1, 2}, positions \in {1, 2, 4},
     s \in {<<"out", "out", 96>>, <<"out", "x", 96>>, <<"cos", "cos", 16>>}}
SwigluRequests ==
  {[op |-> "swiglu", kind |-> kind, rows |-> rows, cols |-> cols, type |-> type,
    storage |-> Stores({"packed", "upstream", "out"}, s)] :
     kind \in {"Forward", "Backward"}, rows \in {0, 1, 3}, cols \in {1, 2, 3, 5}, type \in {"F32", "Bf16"},
     s \in {<<"out", "out", 96>>, <<"out", "upstream", 96>>, <<"out", "out", 16>>, <<"upstream", "packed", 96>>}}
ScaledRequests ==
  {[op |-> "swiglu_scaled", kind |-> kind, rows |-> rows, cols |-> cols, width |-> width, type |-> type,
    storage |-> Stores({"gate", "up", "scale", "upstream", "out", "out_up", "out_t"}, s)] :
     kind \in {"Forward", "Backward"}, rows \in {0, 2, 4}, cols \in {1, 3, 8}, width \in {0, 1, 2, 3},
     type \in {"F32", "Bf16", "F16"},
     s \in {<<"out", "out", 96>>, <<"out", "out_up", 96>>, <<"out_t", "gate", 96>>, <<"scale", "scale", 6>>}}
BagRequests ==
  {[op |-> "weighted_bag", kind |-> kind, rows |-> rows, k |-> k, vocab |-> vocab, d |-> d, ids |-> ids,
    storage |-> Stores({"table", "idx", "w", "up", "out", "scratch"}, s)] :
     kind \in {"Forward", "GradWeights", "GradTable"}, rows \in {1, 2, 3}, k \in {1, 2, 3}, vocab \in {1, 2, 3, 5}, d \in {1, 2, 4},
     ids \in {<<0, 1, 0, 1, 1, 2>>, <<2, 2, 0, 7, 1, 2>>},
     s \in {<<"scratch", "scratch", 96>>, <<"scratch", "scratch", 24>>, <<"out", "w", 96>>, <<"out", "up", 96>>}}
HeadNames == {"yp", "h", "top", "targets", "row_values", "gkp", "grad", "partial", "out"}
HeadRequests(op, stores) ==
  {[op |-> op, rows |-> rows, cols |-> cols, k |-> k, perGroup |-> per, storage |-> Stores(HeadNames, s)] :
     rows \in {0, 1, 2, 3, 10}, cols \in {2, 3, 6, 8}, k \in {1, 2, 3}, per \in 0..3, s \in stores}
FactorRequest(kind, flags, g, ld, off, s) ==
  [op |-> "expert_factor", kind |-> kind, flags |-> flags, experts |-> g[1], p |-> g[2], m |-> g[3], r |-> g[4], r8 |-> g[5],
   ld |-> ld, off |-> off, ids |-> g[6], storage |-> Stores(FactorRoles, s)]
FactorRequests ==
  {FactorRequest(kind, flags, g, ld, off, s) :
     kind \in {"LatentForward", "PackedForward", "LatentBackward", "PackedBackwardRow", "PackedBackwardCol"},
     flags \in SUBSET {"Row", "Col", "Int8"}, ld \in {8, 9, 10}, off \in {0, 2},
     g \in {<<2, 1, 2, 3, 8, <<1>>>>, <<1, 2, 1, 8, 8, <<0, 1>>>>, <<3, 2, 1, 1, 8, <<2, 0>>>>, <<1, 1, 1, 9, 16, <<0>>>>,
            <<1, 1, 1, 11, 16, <<0>>>>, <<0, 1, 1, 1, 8, <<0>>>>, <<1, 1, 3, 1, 8, <<0>>>>},
     s \in {<<"factor", "factor", 40>>, <<"factor", "src", 64>>, <<"out_a", "factor", 64>>}}
UnscaleRequests ==
  {[op |-> "amp_unscale", offset |-> offset, count |-> count, scaleAt |-> at[1], foundAt |-> at[2],
    storage |-> Stores({"data", "scale", "found"}, s)] :
     offset \in {0, 3, 120}, count \in {0, 1, 5, 16, 20, 21}, at \in {<<0, 0>>, <<1, 2>>, <<130, 1>>},
     s \in {<<"data", "data", 100>>, <<"found", "found", 8>>, <<"found", "scale", 64>>}}
UpdateRequests ==
  {[op |-> "amp_update", exact |-> exact, interval |-> interval, scaleAt |-> 1, trackerAt |-> tracker, foundAt |-> found,
    storage |-> Stores({"scale", "tracker", "found"}, s)] :
     exact \in BOOLEAN, interval \in {1, 63, 64}, tracker \in {0, 1, 128}, found \in {0, 1, 32},
     s \in {<<"scale", "scale", 8>>, <<"scale", "scale", 7>>, <<"tracker", "scale", 8>>}}
VqRequests ==
  {[op |-> "vq", kind |-> kind, group |-> group, entries |-> entries, flags |-> flags, m |-> g[1], n |-> g[2], k |-> g[3],
    deviceGroups |-> groups, storage |-> Stores({"b0", "b1", "b2", "b3", "out", "status"}, s)] :
     kind \in {"Encode", "Decode", "AdamW", "Matmul"}, group \in {1, 2, 3}, entries \in {2, 3}, flags \in SUBSET {"A", "B"},
     g \in {<<1, 1, 1>>, <<4, 1, 1>>, <<7, 1, 1>>, <<2, 3, 2>>, <<3, 2, 2>>, <<3, 3, 2>>, <<0, 1, 1>>, <<1, 4, 1>>, <<13, 1, 1>>},
     groups \in {1, 3}, s \in {<<"out", "out", 128>>, <<"out", "b3", 128>>, <<"status", "out", 64>>, <<"b0", "b0", 4>>}}

\* Products: aligned, ragged, transposed, batched, split; rooms and sharings.
MCMats == [castLanes |-> 2, batch |-> 2, side |-> 4, inner |-> 3, addressed |-> 20, plainTile |-> 2, viewTile |-> 1,
           tile |-> 2, depth |-> 2, vector |-> 2, band |-> 2, bandCols |-> 2, gridX |-> 3,
           block |-> 4, nested |-> 2, perWord |-> 2, entries |-> 2, decodeLanes |-> 3,
           fewRows |-> 1, someRows |-> 2, gemvRows |-> 3]
CastRequests ==
  {[op |-> "cast", mode |-> mode, n |-> n, storage |-> Stores({"src", "dst"}, s)] :
     mode \in 0..2, n \in {0, 1, 2, 4, 5, 8, 11, 20}, s \in {<<"dst", "dst", 44>>, <<"dst", "dst", 22>>, <<"src", "src", 10>>, <<"dst", "src", 44>>}}
Strided(offset, batch, row, col) == [offset |-> offset, batch |-> batch, row |-> row, col |-> col]
ProductRequests ==
  {[op |-> "matmul_f32", kind |-> kind, batch |-> g[1], m |-> g[2], n |-> g[3], k |-> g[4],
    view |-> ("a" :> (IF t THEN Strided(at, 6, 1, 2) ELSE Strided(at, 6, 3, 1)) @@ "b" :> Strided(0, 6, 3, 1) @@ "c" :> c),
    storage |-> Stores({"a", "b", "c"}, s)] :
     kind \in {"Mm", "Bmm", "MmPlain", "BmmPlain"}, t \in BOOLEAN, at \in {0, 7},
     g \in {<<1, 2, 3, 2>>, <<2, 2, 2, 3>>, <<2, 1, 3, 1>>, <<1, 4, 1, 2>>, <<1, 0, 1, 1>>, <<1, 2, 2, 4>>, <<3, 1, 1, 1>>},
     c \in {Strided(0, 6, 3, 1), Strided(1, 6, 1, 2), Strided(0, 3, 3, 1), Strided(0, 6, 1, 4), Strided(0, 6, 0, 1)},
     s \in {<<"c", "c", 80>>, <<"c", "a", 80>>, <<"c", "c", 32>>, <<"a", "a", 24>>}}
HalfRequest(entry, elem, g, t, z, pitch, device, s) ==
  [op |-> "matmul_16", entry |-> entry, elem |-> elem, m |-> g[1], n |-> g[2], k |-> g[3], aT |-> t[1], bT |-> t[2],
   z |-> z[1], zmode |-> z[2], kz |-> z[3], stride |-> ("a" :> z[4] @@ "b" :> z[5] @@ "c" :> z[6]),
   pitch |-> ("a" :> pitch @@ "b" :> pitch), device |-> device, storage |-> Stores({"a", "b", "c"}, s)]
Dense16 == <<1, 0, 0, 0, 0, 0>>
Extents16 == {<<2, 2, 2>>, <<4, 4, 2>>, <<6, 4, 2>>, <<3, 2, 4>>, <<2, 3, 2>>, <<1, 2, 3>>, <<2, 0, 1>>, <<8, 2, 1>>}
Layouts == {<<FALSE, FALSE>>, <<TRUE, FALSE>>, <<FALSE, TRUE>>, <<TRUE, TRUE>>}
Devices == {{}, {"bf16", "f16"}, {"bf16", "f16", "rounding", "bands"}}
Rooms16 == {<<"c", "c", 128>>, <<"c", "c", 14>>, <<"b", "b", 10>>}
HalfRequests ==
  {HalfRequest(entry, elem, g, t, Dense16, 0, device, s) :
     entry \in {"dense", "half"}, elem \in {"bf16", "f16"}, g \in Extents16, t \in Layouts, device \in Devices, s \in Rooms16}
  \cup {HalfRequest(entry, "f16", g, t, Dense16, 0, device, <<"c", "a", 128>>) :
     entry \in {"dense", "half"}, g \in Extents16, t \in Layouts, device \in Devices}
  \cup {HalfRequest(entry, elem, g, t, z, pitch, device, s) :
     entry \in {"z", "halfz"}, elem \in {"bf16", "f16"}, t \in Layouts, pitch \in {0, 3, 4},
     g \in {<<2, 2, 4>>, <<2, 4, 2>>, <<3, 2, 2>>, <<1, 1, 3>>, <<1, 0, 1>>},
     z \in {<<2, 0, 0, 8, 8, 8>>, <<2, 0, 0, 4, 5, 9>>, <<1, 0, 0, 0, 0, 0>>, <<2, 0, 0, 1, 8, 8>>, <<4, 0, 0, 8, 8, 8>>,
             <<2, 1, 2, 0, 0, 8>>, <<3, 1, 1, 0, 0, 8>>, <<3, 1, 2, 0, 0, 8>>, <<3, 1, 64, 0, 0, 8>>, <<2, 1, 1, 0, 0, 8>>, <<2, 1, 2, 1, 0, 8>>,
             <<2, 1, 2, 0, 0, 1>>, <<2, 2, 0, 8, 8, 8>>},
     device \in {{"f16"}, {"bf16", "f16", "rounding", "bands"}}, s \in {<<"c", "c", 128>>, <<"c", "b", 128>>, <<"a", "a", 20>>}}

\* Weights in NF4: two members of eight values or one, from a base or not.
Nf4Names == SourceNames \cup {"ids", "out", "a", "c", "groups"}
DecodeRequests ==
  {[op |-> "nf4_decode", width |-> width, n |-> n, starts |-> starts, ids |-> ids, memberValues |-> size, base |-> base,
    storage |-> Stores(Nf4Names, s)] :
     width \in 0..3, n \in {0, 3, 8, 12, 16}, starts \in {<<>>, <<0>>, <<0, 8>>},
     ids \in {<<>>, <<1>>, <<1, 0>>, <<0, 2, -1>>}, size \in {4, 8, 6}, base \in {0, 8, 4},
     s \in {<<"packed", "packed", 32>>, <<"absmax2", "absmax2", 8>>, <<"out", "out", 20>>, <<"out", "ids", 128>>}}
GroupedRequests ==
  {[op |-> "nf4_matmul", entry |-> entry[1], half |-> entry[2], bT |-> entry[3], elem |-> elem, rows |-> g[1], maxRows |-> g[2],
    n |-> g[3], k |-> g[4], lda |-> lda, table |-> table, starts |-> <<0, 8>>, base |-> base, device |-> device,
    storage |-> Stores(Nf4Names, s)] :
     entry \in {<<"product", FALSE, FALSE>>, <<"product", TRUE, FALSE>>, <<"product", FALSE, TRUE>>, <<"gemv", FALSE, TRUE>>},
     elem \in {"bf16", "f16"}, lda \in {0, 3, 4}, base \in {0, 8}, device \in {{"bf16", "f16"}, {"bf16"}},
     g \in {<<3, 2, 2, 2>>, <<3, 3, 2, 4>>, <<4, 4, 4, 2>>, <<2, 1, 3, 2>>, <<2, 3, 2, 2>>, <<0, 1, 2, 2>>},
     table \in {<<<<0, 2, 0>>>>, <<<<0, 1, 0>>, <<1, 2, 8>>>>, <<<<0, 1, 1>>, <<2, 3, 0>>, <<1, 0, 0>>>>, <<>>},
     s \in {<<"packed", "packed", 32>>, <<"c", "a", 128>>, <<"groups", "groups", 12>>}}

\* Attention: both layouts, rows padded, odd, shared and out of reach.
MCAttn == [blockRows |-> 4, stagedKeys |-> 2, stagedQueries |-> 2, vector |-> 4]
RowStrides(layout, heads, seq, dim) ==
  CASE layout = "bhtd" -> <<heads * seq * dim, seq * dim, dim>>
    [] layout = "bthd" -> <<heads * seq * dim, dim, heads * dim>>
    [] layout = "padded" -> <<heads * seq * (dim + 2), seq * (dim + 2), dim + 2>>
    [] layout = "odd" -> <<heads * seq * (dim + 1), seq * (dim + 1), dim + 1>>
    [] layout = "shared" -> <<heads * dim, dim, 0>>
    [] layout = "far" -> <<128, seq * dim, dim>>
AttentionShapes ==
  {<<1, 2, 1, 5, 4>>, <<2, 2, 2, 3, 4>>, <<1, 1, 1, 9, 4>>, <<2, 1, 1, 3, 8>>, <<1, 3, 2, 2, 4>>, <<1, 0, 1, 1, 4>>,
   <<1, 4, 1, 1, 4>>, <<1, 1, 1, 13, 4>>, <<1, 1, 1, 2, 6>>}
AttentionRequests ==
  {[op |-> "attention", elem |-> "bf16", backward |-> backward, batch |-> g[1], heads |-> g[2], kvHeads |-> g[3],
    seq |-> g[4], dim |-> g[5], causal |-> causal, reserved |-> 0, finite |-> finite, device |-> lanes,
    stride |-> [at \in AttentionRoles \ {"lse"} |->
                  RowStrides(layout[IF at \in {"o", "dq", "dk", "dv"} THEN 2 ELSE 1],
                             IF at \in QueryRoles THEN g[2] ELSE g[3], g[4], g[5])],
    storage |-> [at \in AttentionRoles |-> IF at = s[1] THEN Store(s[2], s[3]) ELSE Store(at, 160)]] :
     backward \in BOOLEAN, g \in AttentionShapes, causal \in 0..2, finite \in BOOLEAN, lanes \in {{}, {32}},
     layout \in ({"bhtd", "bthd", "padded", "odd", "shared", "far"} \X {"bhtd", "bthd", "padded"})
                  \cup {<<"bhtd", "odd">>, <<"bthd", "shared">>, <<"bhtd", "far">>},
     s \in {<<"dq", "dq", 160>>, <<"o", "q", 160>>, <<"dk", "dv", 160>>, <<"lse", "lse", 16>>, <<"dv", "dv", 36>>, <<"k", "k", 36>>}}

IntKinds == {"Add", "Sub", "Bits", "Shift", "Compare", "Negate", "Fill", "Arange", "Scan", "Triangle",
             "Division", "Div", "Reciprocal", "Rank"}
IndexOps == {"Gather", "Scatter", "ScatterAdd"}
MCRequests(family) ==
  CASE family = "convert" ->
         ConvertRequests({<<"F32", "I16">>, <<"F32", "F16">>, <<"I16", "I16">>, <<"F16", "U8">>, <<"I32", "F64">>})
           \cup ConvertOdd(0..5)
    [] family = "pointwise" -> PointRequests(Kinds) \cup PointOdd(Kinds)
    [] family = "index" -> IndexLong(IndexOps) \cup IndexSquare(IndexOps) \cup IndexOdd(IndexOps)
    [] family = "intwise" -> IntRequests(IntKinds) \cup IntOdd(IntKinds) \cup RankRequests({"Rank"})
    [] family = "reduce" -> ReduceRequests({0, 8, 128}) \cup ReduceOdd
    [] family = "rowwise" -> RowRequests
    [] family = "loss" -> LossRequests
    [] family = "embedding" -> EmbeddingRequests
    [] family = "student_norm" -> NormRequests
    [] family = "rotary" -> RotaryRequests
    [] family = "swiglu" -> SwigluRequests
    [] family = "swiglu_scaled" -> ScaledRequests
    [] family = "weighted_bag" -> BagRequests
    [] family = "head_lse" -> HeadRequests("head_lse", {<<"out", "out", 24>>, <<"out", "out", 8>>, <<"out", "h", 96>>})
    [] family = "head_grad" ->
         HeadRequests("head_grad", {<<"grad", "grad", 48>>, <<"partial", "grad", 96>>, <<"grad", "yp", 96>>, <<"partial", "partial", 8>>})
    [] family = "expert_factor" -> FactorRequests
    [] family = "amp_unscale" -> UnscaleRequests
    [] family = "amp_update" -> UpdateRequests
    [] family = "vq" -> VqRequests
    [] family = "cast" -> CastRequests
    [] family = "matmul_f32" -> ProductRequests
    [] family = "matmul_16" -> HalfRequests
    [] family = "nf4_decode" -> DecodeRequests
    [] family = "nf4_matmul" -> GroupedRequests
    [] family = "attention" -> AttentionRequests
=============================================================================
