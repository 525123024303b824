--------------------------- MODULE OperatorPlans ----------------------------
(***************************************************************************)
(* The operators seen by a caller of the C ABI: it asks for one and is     *)
(* refused or given the passes that are recorded, the accesses each pass   *)
(* declares and the kernels built for it.  Nothing is kept between calls   *)
(* but the kernels.                                                        *)
(***************************************************************************)
EXTENDS StridedPlans, RowPlans, AttentionPlans

CONSTANTS
  NoRequest,    \* the state between two calls
  Requests(_)   \* the requests asked of each family of operations

\* A shape: as many extents as it has dimensions, at least.
Shaped(r) == r.ndim \in Nat /\ r.shape \in Seq(Nat) /\ r.ndim <= Len(r.shape)

\* The bindings a request is answered with, of buffers of some size.
Backed(r, bindings) ==
  bindings \subseteq DOMAIN r.storage /\ \A at \in DOMAIN r.storage : r.storage[at].capacity \in Nat

\* What a request of each family is: the operation it names, the kind and the
\* flags the entry is compiled for, sizes that are naturals, keys as wide as
\* their type, and a buffer for every operand the operation has.  How large a
\* size or a buffer is, which buffers are one, strides, offsets and options
\* are arbitrary.
ASSUME RequestAssumption ==
  /\ \A f \in {"convert", "pointwise", "intwise", "reduce", "rowwise", "loss", "embedding", "student_norm", "rotary",
              "swiglu", "swiglu_scaled", "weighted_bag", "head_lse", "head_grad", "expert_factor", "amp_unscale",
              "amp_update", "vq", "cast", "matmul_f32", "matmul_16", "nf4_decode", "nf4_matmul", "attention"} :
       \A r \in Requests(f) : r.op = f
  /\ \A r \in Requests("index") :
       /\ r.op \in {"Gather", "Scatter", "ScatterAdd"} /\ {r.dim, r.bound} \subseteq Nat /\ Shaped(r)
       /\ r.bound > 0 => r.pick \in [Every(r) -> -1..(r.bound - 1)]
  /\ \A r \in Requests("intwise") :
       /\ Shaped(r) /\ r.type["x"] \in Floats \cup IntegerCodes
       /\ Sorted(r) => \A i \in 0..(Count(Extents(r)) - 1) : r.keys[i] \in 0..(Power[Bytes(r.type["x"])] - 1)
  /\ \A r \in Requests("reduce") : {r.v1Only, r.f64, r.in16, r.out16} \subseteq BOOLEAN
  /\ \A r \in Requests("rowwise") : {r.rows, r.cols} \subseteq Nat /\ Backed(r, RowReads(r) \cup {"out"})
  /\ \A r \in Requests("loss") :
       /\ r.kind \in LossKinds /\ {r.primary16, r.out16} \subseteq BOOLEAN
       /\ {r.rows, r.cols} \subseteq Nat /\ r.targets \in Seq(Int) /\ Backed(r, LossReads(r) \cup {"targets", "out"})
  /\ \A r \in Requests("student_norm") : r.kind \in QkKinds \cup {"Norm", "NormBackward"} /\ {r.rows, r.d} \subseteq Nat
  /\ \A r \in Requests("rotary") :
       {r.rows, r.cols, r.posDiv, r.positions} \subseteq Nat /\ Backed(r, {"x", "cos", "sin", "out"})
  /\ \A r \in Requests("swiglu") :
       /\ r.kind \in {"Forward", "Backward"} /\ {r.rows, r.cols} \subseteq Nat
       /\ Backed(r, {"packed", "upstream", "out"})
  /\ \A r \in Requests("swiglu_scaled") :
       /\ {r.rows, r.cols, r.width} \subseteq Nat
       /\ Backed(r, {"gate", "up", "scale", "upstream", "out", "out_up", "out_t"})
  /\ \A r \in Requests("weighted_bag") :
       /\ r.kind \in {"Forward", "GradWeights", "GradTable"} /\ {r.rows, r.k, r.vocab, r.d} \subseteq Nat
       /\ BagPairs(r) <= Bounds.pairs => \A pair \in 1..BagPairs(r) : r.ids[pair] \in Nat
       /\ Backed(r, {"table", "idx", "w", "up", "out", "scratch"})
  /\ \A f \in {"head_lse", "head_grad"} : \A r \in Requests(f) :
       /\ {r.rows, r.cols, r.k, r.perGroup} \subseteq Nat
       /\ Backed(r, GradIns \cup GradOuts \cup {"out"})
  /\ \A r \in Requests("expert_factor") :
       /\ r.kind \in {"LatentForward", "PackedForward", "LatentBackward", "PackedBackwardRow", "PackedBackwardCol"}
       /\ {r.experts, r.p, r.m, r.r, r.r8, r.ld, r.off} \subseteq Nat /\ Backed(r, FactorRoles)
  /\ \A r \in Requests("amp_unscale") :
       {r.offset, r.count, r.scaleAt, r.foundAt} \subseteq Nat /\ Backed(r, {"data", "scale", "found"})
  /\ \A r \in Requests("amp_update") :
       {r.scaleAt, r.trackerAt, r.foundAt} \subseteq Nat /\ Backed(r, {"scale", "tracker", "found"})
  /\ \A r \in Requests("vq") :
       /\ r.kind \in {"Encode", "Decode", "AdamW", "Matmul"} /\ {r.m, r.n, r.k} \subseteq Nat
       /\ Backed(r, {"b0", "b1", "b2", "b3", "out", "status"})
  /\ \A r \in Requests("cast") : r.n \in Nat /\ Backed(r, {"src", "dst"})
  /\ \A r \in Requests("matmul_16") : r.entry \in {"dense", "z", "half", "halfz"} /\ {r.k, r.z, r.kz} \subseteq Nat
  /\ \A r \in Requests("nf4_matmul") : r.bT \in BOOLEAN
  /\ \A r \in Requests("attention") : r.backward \in BOOLEAN

VARIABLES
  request,  \* the request being answered
  plan      \* the answer: a refusal, or the passes

vars == <<request, plan>>

Init == request = NoRequest /\ plan = Refused("none asked")

Asked(family, Entry(_)) ==
  request = NoRequest /\ \E r \in Requests(family) : request' = r /\ plan' = Entry(r)

AskConvert == Asked("convert", ConvertEntry)
AskPointwise == Asked("pointwise", PointwiseEntry)
AskIndex == Asked("index", IndexEntry)
AskIntwise == Asked("intwise", IntwiseEntry)
AskReduce == Asked("reduce", ReduceEntry)
AskRowwise == Asked("rowwise", RowEntry)
AskLoss == Asked("loss", LossEntry)
AskEmbedding == Asked("embedding", EmbeddingEntry)
AskStudentNorm == Asked("student_norm", NormEntry)
AskRotary == Asked("rotary", RotaryEntry)
AskSwiglu == Asked("swiglu", SwigluEntry)
AskScaled == Asked("swiglu_scaled", ScaledEntry)
AskBag == Asked("weighted_bag", BagEntry)
AskHeadLse == Asked("head_lse", LseEntry)
AskHeadGrad == Asked("head_grad", GradEntry)
AskFactor == Asked("expert_factor", FactorEntry)
AskUnscale == Asked("amp_unscale", UnscaleEntry)
AskUpdate == Asked("amp_update", UpdateEntry)
AskVq == Asked("vq", VqEntry)
AskCast == Asked("cast", CastEntry)
AskProduct == Asked("matmul_f32", ProductEntry)
AskHalf == Asked("matmul_16", HalfEntry)
AskDecode == Asked("nf4_decode", DecodeEntry)
AskGrouped == Asked("nf4_matmul", GroupedEntry)
AskAttention == Asked("attention", AttentionEntry)
Forget == request # NoRequest /\ request' = NoRequest /\ plan' = Refused("none asked")

Next ==
  \/ AskConvert \/ AskPointwise \/ AskIndex \/ AskIntwise
  \/ AskReduce \/ AskRowwise \/ AskLoss \/ AskEmbedding \/ AskStudentNorm
  \/ AskRotary \/ AskSwiglu \/ AskScaled \/ AskBag \/ AskHeadLse \/ AskHeadGrad
  \/ AskFactor \/ AskUnscale \/ AskUpdate \/ AskVq
  \/ AskCast \/ AskProduct \/ AskHalf \/ AskDecode \/ AskGrouped
  \/ AskAttention
  \/ Forget
Spec == Init /\ [][Next]_vars
-----------------------------------------------------------------------------
Passes == IF Admitted(plan) THEN plan.passes ELSE <<>>
TouchesOf(i) == UNION {Passes[i].touches[u] : u \in DOMAIN Passes[i].touches}

\* A scratch buffer is allocated by the call, of the size the plan says.
Storage ==
  [at \in DOMAIN request.storage \cup {"scratch"} |->
     IF at \in DOMAIN request.storage THEN request.storage[at]
     ELSE [identity |-> "scratch", capacity |-> 4 * plan.scratch]]
Private == {"scratch", "partials"}

\* The kernels ack_open builds; "upload" stands for the copy of an image.
Opened ==
  {<<"upload">>, <<"rowwise">>, <<"loss">>, <<"embedding">>, <<"pointwise", OpenModule>>}
    \cup ({"v1", "v2"} \X {<<FALSE, FALSE>>})
    \cup (({"cast"} \X {0, 1}) \cup ({"matmul_f32"} \X {"v1", "v2"}))
    \cup (IF request.op = "matmul_16" /\ "bf16" \in request.device
          THEN {<<"bf16", FALSE, i>> : i \in 0..(SetLength(request) - 1)} ELSE {})

\* The units of pass i that write some of bytes first..last of a binding, and
\* what a set of units reads.
Writers(i, at, first, last) ==
  {u \in DOMAIN Passes[i].touches :
     \E t \in Passes[i].touches[u] : t.at = at /\ t.how # "read" /\ t.first <= last /\ first <= t.last}
ReadBy(i, units) == {t \in UNION {Passes[i].touches[u] : u \in units} : t.how = "read"}

\* The units of the pass before whose partial results a unit of pass i reads.
Feeders(i, u) ==
  UNION {Writers(i - 1, t.at, t.first, t.last) : t \in {s \in ReadBy(i, {u}) : s.at \in Private}}
SourcesApart(i, u, v) ==
  \A s \in ReadBy(i, {u}), t \in ReadBy(i, {v}) : ~Overlap(s, t, Storage)
\* The k of a 16-bit product that its z-th work groups sum over.
SplitTerms(r, z) == SplitStart(r, z)..(SplitEnd(r, z) - 1)
-----------------------------------------------------------------------------
\* Every grid starts every unit, and none twice.
GridsAreWhole == \A i \in DOMAIN Passes : GridIsWhole(Passes[i])

\* What the q/k norms leave to their caller: the planner multiplies positions
\* by heads in a word, and a product that wraps admits rows that are no
\* multiple of it, whose places in the output lie anywhere.
PositionsFitAWord ==
  request.op = "student_norm" /\ request.kind \in QkKinds => request.t * request.h < U32

\* No unit of an admitted plan reads or writes outside its storage, save where
\* the code leaves it to the caller.
AccessesInStorage ==
  Admitted(plan) /\ PositionsFitAWord => \A i \in DOMAIN Passes : InStorage(Passes[i], Storage)

\* What three entries leave to their callers: attention does not refuse rows
\* of an output that meet, nor a cast and the dense 16-bit product an output
\* in the storage of an operand.
ApartByTheCaller ==
  CASE request.op = "attention" -> RowsApart(request)
    [] request.op = "cast" -> ~Same(request, "src", "dst")
    [] request.op = "matmul_16" /\ request.entry = "dense" ->
         ~Same(request, "c", "a") /\ ~Same(request, "c", "b")
    [] OTHER -> TRUE

\* No two units of a pass race, whatever storage the operands share, save
\* where the code leaves it to the caller.
NoUnitsRace ==
  Admitted(plan) /\ ApartByTheCaller =>
    \A i \in DOMAIN Passes : UnitsAreIndependent(Passes[i], Storage)

\* A pass reads, or raises with atomics, only words of scratch and partial
\* results that an earlier pass of the same plan wrote: what an earlier call
\* left there is never visible.
ScratchIsFresh ==
  \A i \in DOMAIN Passes :
    LET written == {<<t.at, t.first>> : t \in {s \in UNION {TouchesOf(j) : j \in 1..(i - 1)} : s.how # "read"}}
    IN  \A t \in TouchesOf(i) : t.at \in Private /\ t.how # "write" => <<t.at, t.first>> \in written

\* The passes leave a row of ranks sorted by key, equal keys in their places,
\* and rows apart.
RanksAreSorted ==
  Admitted(plan) /\ request.op = "intwise" /\ Sorted(request) =>
    LET order == RankOrder(request)
        row == Extents(request)[4]
        At(p) == <<order[p] \div row, request.keys[order[p]], order[p]>>
    IN  \A p \in 1..(Len(order) - 1) :
          LET a == At(p)
              b == At(p + 1)
          IN  a[1] < b[1] \/ (a[1] = b[1] /\ (a[2] < b[2] \/ (a[2] = b[2] /\ a[3] < b[3])))

\* A sum taken in parts counts every term once: the partial results a unit of
\* a reduction adds up come from units that read different elements, and so do
\* the splits of a product.  (A broadcast dimension repeats its elements; a
\* shader's 32-bit start repeats when the splits reach beyond it, which the
\* entry, testing in 64 bits, does not refuse.)
TermsCountedOnce ==
  Admitted(plan) =>
    /\ request.op = "reduce" /\ (\A d \in DOMAIN request.view.stride : request.view.stride[d] # 0) =>
         \A i \in 2..Len(Passes) : \A u \in DOMAIN Passes[i].touches :
           \A v, w \in Feeders(i, u) : v # w => SourcesApart(i - 1, v, w)
    /\ request.op = "matmul_16" /\ request.zmode = 1 /\ request.z * request.kz <= U32 =>
         \A y, z \in 0..(request.z - 1) : y # z => SplitTerms(request, y) \cap SplitTerms(request, z) = {}

\* The entry declares to the recorded batch every binding a pass writes as
\* written and every one it reads as read or written: the batch places its
\* barriers by the declarations alone.
AccessesDeclared ==
  \A i \in DOMAIN Passes : \A t \in TouchesOf(i) :
    t.at \in Passes[i].writes \cup IF t.how = "read" THEN Passes[i].reads ELSE {}

\* A pass runs a kernel that was opened with the device or built by the call.
KernelsAreBuilt == \A i \in DOMAIN Passes : Passes[i].kernel \in Opened \cup plan.built

\* What the batch is given to record is ready for it, in both respects.
PassesArePrepared == AccessesDeclared /\ KernelsAreBuilt
=============================================================================
