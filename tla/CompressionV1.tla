--------------------------- MODULE CompressionV1 ---------------------------
(* kvserve_v1/compression/runtime: the fixed-profile runtime outside vLLM.  *)
(* It shares the buffers and most stages with CompressionPipeline; here is  *)
(* what it does its own way: what it accepts, its sizes and pool, the rows  *)
(* of its index buffers, its fused transform and its tiled kernels.         *)
EXTENDS CompressionCuda

CONSTANTS WarpSize, Threads, ChannelTile, \* kWarpSize, kThreads, kChannelTile
          MaxFused                        \* largest head size with a fused kernel

CeilDiv(a, b) == (a + b - 1) \div b
IsPowerOfTwo(n) == \E k \in 0 .. n : 2 ^ k = n

\* config.py: raw_aggregate wins over everything else; the stages of any other
\* pipeline are known, distinct and in order.
FromExtraConfig(c) ==
    LET s == [c EXCEPT !.stages = Range(c.pipeline)]
        ordered == SelectSeq(<<"transformer", "quantizer", "codec">>, LAMBDA st : st \in Range(c.pipeline))
        ok == /\ Range(c.pipeline) \subseteq {"aggregate", "transformer", "quantizer", "codec"}
              /\ Cardinality(Range(c.pipeline)) = Len(c.pipeline)
              /\ "aggregate" \notin Range(c.pipeline) => c.pipeline = ordered
              /\ c.slots >= 1 /\ c.chunk >= 1 /\ c.ratio \in 0 .. 100
              /\ \A kv \in KVPart : {c.levels[kv].low, c.levels[kv].high} \subseteq 2 .. 256
              /\ c.split \in {"head", "layer"} /\ {c.axis[0], c.axis[1]} \subseteq {"channel", "token", "tensor"}
    IN  IF c.rawAggregate THEN {[c EXCEPT !.stages = {"aggregate"}, !.split = "layer"]}
        ELSE IF ok THEN {s} ELSE {}

-----------------------------------------------------------------------------
\* scores.py: with fewer KV heads than ranks, ranks share a score column.
FirstColumnV1(c, s) ==
    CASE Width(c) = s.heads -> 0
      [] Width(c) = s.heads * c.tpSize -> c.tpRank * s.heads
      [] OTHER -> c.tpRank \div (c.tpSize \div Width(c))
ScoresFit(c) ==
    c.split = "head" => \A n \in DOMAIN c.specs :
        LET s == c.specs[n]
        IN  /\ s.index < Len(c.scores)
            /\ Width(c) \in {s.heads, s.heads * c.tpSize}
               \/ (s.heads = 1 /\ Width(c) < c.tpSize /\ c.tpSize % Width(c) = 0)

BuildHeadSelectionV1(c) ==
    LET layers == {c.specs[n].index : n \in DOMAIN c.specs}
        At(l) == CHOOSE n \in DOMAIN c.specs : c.specs[n].index = l
        all(l) == Identity(c.specs[At(l)].heads)
        Low(l, h) == c.split = "head" /\ LowHead(c, At(l), FirstColumnV1(c, c.specs[At(l)]) + h)
    IN  [low |-> [l \in layers |-> Len(SelectSeq(all(l), LAMBDA h : Low(l, h)))],
         orders |-> [l \in layers |-> SelectSeq(all(l), LAMBDA h : Low(l, h))
                                      \o SelectSeq(all(l), LAMBDA h : ~ Low(l, h))]]

\* layout.py
SpecsFit(c) ==
    /\ c.specs # << >>
    /\ \A m, n \in DOMAIN c.specs : c.specs[m].block = c.specs[n].block
    /\ Uses(c, "transformer") =>
           \A n \in DOMAIN c.specs : \A kv \in KVPart : IsPowerOfTwo(c.specs[n].size[kv])

\* The aux buffer is sized for the configured axes, not for the worst ones.
ConfiguredAux(c, L) ==
    [L EXCEPT !.auxArena = IF Uses(c, "quantizer") THEN 2 * MaxOf({L.aux[0], L.aux[1]}) ELSE 0]
BuildCompressionLayoutV1(c, low) == ConfiguredAux(c, BuildCompressionLayout(c, low))

-----------------------------------------------------------------------------
\* memory.py, manager.py: no second arena for an aggregate.
ArenaB(L) == IF L.aggregate THEN 0 ELSE L.arena
SlotBytes(L) == L.arena + ArenaB(L) + L.auxArena + RawTailCapacity(L)

PlanLayoutV1(c, sel, L, layout) == MemoryPlan(c, sel, layout, SlotBytes(layout), MetadataBytes(c, L))
PlanSelectionV1(c, sel, L) ==
    PlanLayoutV1(c, sel, L, [L EXCEPT !.arena = PlannedArena(c, L)])
BuildMemoryPlanV1(c) ==
    LET sel == BuildHeadSelectionV1(Effective(c))
    IN  PlanSelectionV1(c, sel, BuildCompressionLayoutV1(Effective(c), sel.low))

\* Every slot has its own orders and signs, cut after all slots and workspaces.
PoolEndV1(c, plan) ==
    LET Repeat(k, s) == FlattenSeq([i \in 1 .. k |-> s])
        workspaces == IF Uses(c, "codec") THEN Repeat(c.slots, <<plan.workspace \div c.slots>>) ELSE << >>
    IN  FoldLeft(Take, 0, Repeat(c.slots, SlotPieces(c, plan)) \o workspaces
                          \o Repeat(c.slots, SlotMetadata(c, plan.layout)))

\* bind_kv_caches: groups, the row of each in the index buffer, and the orders.
WithRows(L) ==
    ("rows" :> [g \in L.groups |-> Cardinality({h \in L.groups : h < g})]) @@ L
BindKvCachesV1(c, plan) == Executable(WithRows(Bound(c, plan.layout)), plan.selection.orders)

\* What the pipeline refuses at construction and at binding.
PipelineAccepts(c, L) ==
    /\ c.hnd
    /\ \A p \in Range(L.parts[0]) : p.block % c.bpl = 0
    /\ "cpp" \in Range(c.sides) =>
           /\ \A kv \in KVPart : \A p \in Range(L.parts[kv]) :
                  \A sec \in Range(p.sections) : sec.axis # "tensor"
           /\ "aggregate" \in c.stages \/ Cardinality(L.groups) = 1
UseCppV1(c, L, side) == side = "cpp" /\ "aggregate" \notin c.stages /\ Cardinality(L.groups) = 1

DataBytesV1(c, L, kv, tokens) ==
    CASE L.aggregate -> SumSeq(L.parts[kv], LAMBDA p :
                            CeilDiv(tokens[p.group], p.block) * p.heads * p.block * p.size * 2)
      [] ~ L.aggregate /\ ~ HasBody(L, tokens) -> 0
      [] OTHER -> IF "quantizer" \in c.stages THEN L.u8[kv] ELSE L.raw[kv]
AuxBytesV1(c, L, kv, tokens) ==
    IF HasBody(L, tokens) /\ "quantizer" \in c.stages THEN L.aux[kv] ELSE 0

\* decode() of the manager checks the announced sizes first.
DecodeAccepts(c, L, kv, tokens, codec, u8) ==
    /\ u8 = DataBytesV1(c, L, kv, tokens)
    /\ codec \in 0 .. L.arena
    /\ "codec" \notin c.stages => codec = u8

-----------------------------------------------------------------------------
\* The kernels this runtime keeps as they are.
GatherSignKernelV1(m, ind, cache) == GatherSignKernel(m, ind, cache)
FwhtStageKernelV1(src, size, order) == FwhtStageKernel(src, size, order)
DequantizeChannelKernelV1(m, sec, s, code, y) == DequantizeChannelKernel(m, sec, s, code, y)
DequantizeTokenKernelV1(m, sec, s, code, y) == DequantizeTokenKernel(m, sec, s, code, y)
ScatterCacheKernelV1(m, ind, vals, cache) == ScatterCacheKernel(m, ind, vals, cache)
TailPackKernelV1(c, m, ind, tail, cache) == TailPackKernel(c, m, ind, tail, cache)
TailApplyKernelV1(c, m, ind, tail, read, cache) == TailApplyKernel(c, m, ind, tail, read, cache)
TailBytesForPartV1(c, m, tail) == TailBytesForPart(c, m, tail)

-----------------------------------------------------------------------------
\* fwht_fused_kernel: min(size, WarpSize) lanes hold a row, value i of a lane at
\* i * width + lane.  First the lanes exchange, then each lane combines its own.
LaneStage(vals, width, step) ==
    [n \in DOMAIN vals |->
        IF (((n - 1) % width) \div step) % 2 = 1 THEN Plus(vals[n - step], Scaled(vals[n], -1))
        ELSE Plus(vals[n], vals[n + step])]
RegisterStage(vals, size, width, step) ==
    [n \in DOMAIN vals |->
        IF ((((n - 1) % size) \div width) \div step) % 2 = 1
        THEN Plus(vals[n - step * width], Scaled(vals[n], -1))
        ELSE Plus(vals[n], vals[n + step * width])]
FwhtFusedKernel(src, size) ==
    LET width == IF size < WarpSize THEN size ELSE WarpSize
        lanes == Log2(width)
        f[k \in 0 .. Log2(size)] ==
            IF k = 0 THEN src
            ELSE IF k <= lanes THEN << >> \o LaneStage(f[k - 1], width, 2 ^ (k - 1))
            ELSE << >> \o RegisterStage(f[k - 1], size, width, 2 ^ (k - 1 - lanes))
    IN  NormalizedAll(f[Log2(size)], size)

\* launch_fwht: <<input, output>>; large rows take the two-buffer algorithm,
\* which ends with a copy when the last stage is in the input buffer.
\* The buffers after the stages of the two-buffer algorithm and its copy.
CopyLast(bufs, size, scaled) == <<IF Log2(size) % 2 = 1 THEN bufs[1] ELSE scaled, scaled>>
TwoBuffers(bufs, size) == CopyLast(bufs, size, NormalizedAll(LastStage(bufs, size), size))
LaunchFwht(input, output, size) ==
    IF size <= MaxFused THEN <<input, FwhtFusedKernel(input, size)>>
    ELSE TwoBuffers(Stages(input, output, size), size)

HadamardForwardV1(c, x, p, nb, s) ==
    PutBuffers(x.layout, s, LaunchFwht(Signed(c, x, p, nb, CanonB(c, x.layout, p, nb, s)),
                                       CanonA(c, p, nb, s), p.size))

TransformedV1(m, s, b, a) ==
    PutBuffers(m.layout, s, IF m.transformer THEN LaunchFwht(b, a, m.p.size) ELSE <<b, b>>)
GatherAndTransformV1(m, ind, cache, s) ==
    TransformedV1(m, s, GatherSignKernelV1(m, ind, cache), Vals(Read(s.a, 0, 2 * Total(m, Len(ind)))))

-----------------------------------------------------------------------------
\* The tiled kernels.  Of a block of threads, thread n reduces channel
\* n % ChannelTile over every (Threads / ChannelTile)-th token; the threads of a
\* warp, then the warps, combine what they saw.
Strided(first, step, count) == {i \in 0 .. count - 1 : i >= first /\ (i - first) % step = 0}
ChannelThread(m, sec, tokens, vals, column, n) ==
    {vals[(t * m.p.heads + sec.start + (column \div m.p.size)) * m.p.size + (column % m.p.size) + 1] :
        t \in Strided(n \div ChannelTile, Threads \div ChannelTile, tokens)}
ChannelWarp(m, sec, tokens, vals, column, w) ==
    UNION {ChannelThread(m, sec, tokens, vals, column, n) :
              n \in {k \in w * WarpSize .. (w + 1) * WarpSize - 1 : k % ChannelTile = column % ChannelTile}}
CodeColumnsV1(m, sec, tokens, s, vals) ==
    LET launched == CeilDiv(Columns(m, sec), ChannelTile) * ChannelTile
    IN  WriteCodes(m, sec, s, vals,
            [k \in {k \in 0 .. launched - 1 : k < Columns(m, sec)} |->
                UNION {ChannelWarp(m, sec, tokens, vals, k, w) : w \in 0 .. (Threads \div WarpSize) - 1}],
            LAMBDA y : (y.h - sec.start) * m.p.size + y.d)
QuantizeChannelKernelV1(m, sec, tokens, s) == CodeColumnsV1(m, sec, tokens, s, PartValues(m, tokens, s))

\* A warp for a token; its lanes share the columns.
Lane(m, sec, vals, t, lane) ==
    {vals[(t * m.p.heads + sec.start) * m.p.size + k + 1] : k \in Strided(lane, WarpSize, Columns(m, sec))}
CodeTokensV1(m, sec, tokens, s, vals) ==
    LET perBlock == Threads \div WarpSize
        launched == CeilDiv(tokens, perBlock) * perBlock
    IN  WriteCodes(m, sec, s, vals,
            [t \in {t \in 0 .. launched - 1 : t < tokens} |->
                UNION {Lane(m, sec, vals, t, n) : n \in 0 .. WarpSize - 1}],
            LAMBDA y : y.row)
QuantizeTokenKernelV1(m, sec, tokens, s) == CodeTokensV1(m, sec, tokens, s, PartValues(m, tokens, s))

CodeSectionsV1(m, tokens, s) ==
    FoldLeft(LAMBDA acc, sec : IF sec.axis = "channel" THEN QuantizeChannelKernelV1(m, sec, tokens, acc)
                               ELSE QuantizeTokenKernelV1(m, sec, tokens, acc), s, m.p.sections)
StoreBodyV1(m, nb, moved) ==
    IF m.quantized THEN CodeSectionsV1(m, nb * m.kernelTokens, moved) ELSE CopyRaw(m, nb, moved)
EncodePartV1(c, m, ind, bodyBlocks, valid, cursor, cache, s) ==
    LET tail == valid % m.p.block
    IN  PutTail(tail, cursor, TailPackKernelV1(c, m, ind, tail, cache),
                IF bodyBlocks = 0 THEN s
                ELSE StoreBodyV1(m, bodyBlocks, GatherAndTransformV1(m, SubSeq(ind, 1, bodyBlocks), cache, s)))

DequantizeAtV1(m, s, code, y, sec) ==
    IF sec.axis = "channel" THEN DequantizeChannelKernelV1(m, sec, s, code, y)
    ELSE DequantizeTokenKernelV1(m, sec, s, code, y)
DequantizeCodesV1(m, s, codes) ==
    << >> \o [i \in DOMAIN codes |->
        LET y == Unflat(m, i - 1) IN DequantizeAtV1(m, s, codes[i], y, SectionAt(m, y.h))]
LoadBodyV1(m, n, s) ==
    IF m.quantized THEN DequantizeCodesV1(m, s, Read(s.b, m.layout.u8base + m.p.u8, n))
    ELSE Vals(Read(s.b, m.layout.u8base + 2 * m.p.u8, 2 * n))
RotateBackV1(m, a) == IF m.transformer THEN LaunchFwht(a, a, m.p.size)[2] ELSE a
ApplyTailV1(c, m, ind, tail, cursor, s, body) ==
    IF tail = 0 THEN body
    ELSE TailApplyKernelV1(c, m, ind, tail, Vals(Read(s.tail, cursor, TailBytesForPartV1(c, m, tail))), body)
DecodePartV1(c, m, ind, bodyBlocks, valid, cursor, s, cache) ==
    ApplyTailV1(c, m, ind, valid % m.p.block, cursor, s,
                IF bodyBlocks = 0 THEN cache
                ELSE ScatterCacheKernelV1(m, SubSeq(ind, 1, bodyBlocks),
                        RotateBackV1(m, LoadBodyV1(m, Total(m, bodyBlocks), s)), cache))

KvsEncodeFlatV1(c, x, kv, ind, valid, cache, slot) ==
    LET parts == x.layout.parts[kv]
        body == (valid \div parts[1].block) * c.bpl
        Part(s, n) == EncodePartV1(c, PartDesc(c, x, parts[n]), ind, body, valid, Cursor(c, x, kv, n, valid), cache, s)
    IN  FoldLeft(Part, slot, [n \in DOMAIN parts |-> n])
KvsDecodeFlatV1(c, x, kv, ind, valid, slot, cache) ==
    LET parts == x.layout.parts[kv]
        body == (valid \div parts[1].block) * c.bpl
        Part(ca, n) == DecodePartV1(c, PartDesc(c, x, parts[n]), ind, body, valid, Cursor(c, x, kv, n, valid), slot, ca)
    IN  FoldLeft(Part, cache, [n \in DOMAIN parts |-> n])

-----------------------------------------------------------------------------
\* pipeline.py.  Only groups with blocks get a row of indices.
GroupIndicesV1(c, L, ids) ==
    [g \in {g \in DOMAIN L.rows : ids[g] # << >>} |-> IndexTensor(c, ids[g])]

\* Without the clearing of the codes: every code of a whole block is written.
QuantizeV1(c, L, p, nb, s) ==
    LET Section(acc, sec) == QuantizeSection(c, L, p, nb, acc, sec)
    IN  FoldLeft(Section, s, p.sections)
DequantizeV1(c, L, p, nb, s) == Dequantize(c, L, p, nb, s)
PackRawTailV1(c, L, p, ind, valid, cache, off, s) == PackRawTail(c, L, p, ind, valid, cache, off, s)
ApplyRawTailV1(c, L, p, ind, valid, off, s, cache) == ApplyRawTail(c, L, p, ind, valid, off, s, cache)
GatherRearrangeV1(c, x, p, ind, cache, s) == GatherRearrange(c, x.layout, x, p, ind, cache, s)

RotatedV1(c, x, p, nb, gathered) ==
    IF "transformer" \in c.stages THEN HadamardForwardV1(c, x, p, nb, gathered)
    ELSE IF GatheredInB(c, x, p) THEN PutA(gathered, CanonB(c, x.layout, p, nb, gathered))
    ELSE gathered
PackBodyV1(c, x, p, nb, rotated) ==
    IF "quantizer" \in c.stages THEN QuantizeV1(c, x.layout, p, nb, rotated)
    ELSE PackRaw(c, x.layout, p, nb, rotated)
EncodeBodyV1(c, x, p, ind, cache, s) ==
    PackBodyV1(c, x, p, Len(ind), RotatedV1(c, x, p, Len(ind), GatherRearrangeV1(c, x, p, ind, cache, s)))
AfterTailV1(c, x, p, ind, nb, cache, tailed) ==
    IF nb = 0 THEN tailed ELSE EncodeBodyV1(c, x, p, SubSeq(ind, 1, nb), cache, tailed)
EncodePieceV1(c, x, p, ind, valid, cache, acc) ==
    [off |-> acc.off + 2 * (valid % p.block) * p.heads * p.size,
     s |-> AfterTailV1(c, x, p, ind, BodyBlocks(c, p, valid), cache,
                       PackRawTailV1(c, x.layout, p, ind, valid, cache, acc.off, acc.s))]
EncodePartsV1(c, x, kv, ids, tokens, cache, slot) ==
    LET Part(acc, p) ==
            EncodePieceV1(c, x, p, GroupIndicesV1(c, x.layout, ids)[p.group], tokens[p.group], cache, acc)
    IN  FoldLeft(Part, [off |-> 0, s |-> slot], x.layout.parts[kv]).s

\* The native layout of an aggregate payload: the parts one after the other.
AggregateSegmentsV1(c, L, kv, ids) ==
    [n \in 1 .. Len(L.parts[kv]) + 1 |->
        SumOver(1 .. n - 1, LAMBDA i :
            LET p == L.parts[kv][i] IN Len(ids[p.group]) * p.block * p.heads * p.size * 2)]
EncodeAggregateV1(c, x, kv, ids, cache, slot) ==
    LET off == AggregateSegmentsV1(c, x.layout, kv, ids)
        Part(s, n) ==
            LET p == x.layout.parts[kv][n]  ind == GroupIndicesV1(c, x.layout, ids)[p.group]
            IN  [s EXCEPT !.a = Put(@, off[n], Bytes(Scratch(c, p, Len(ind),
                    LAMBDA b, t, h, d : cache[p.layer][<<ind[b + 1], t, h, Channel(x.layout, p, d)>>])))]
        parts == x.layout.parts[kv]
        bytes == off[Len(parts) + 1]
    IN  [slot |-> FoldLeft(Part, slot, [n \in DOMAIN parts |-> n]), u8 |-> bytes, codec |-> bytes, tail |-> 0]
DecodeAggregateV1(c, x, kv, ids, slot, cache) ==
    LET off == AggregateSegmentsV1(c, x.layout, kv, ids)
        Part(ca, n) ==
            LET p == x.layout.parts[kv][n]  ind == GroupIndicesV1(c, x.layout, ids)[p.group]
                vals == Vals(Read(slot.a, off[n], 2 * Numel(c, p, Len(ind))))
            IN  Scatter(x.layout, p, ind, LAMBDA b, t, h, d : vals[ScratchIx(c, p, b, t, h, d)], ca)
    IN  FoldLeft(Part, cache, [n \in DOMAIN x.layout.parts[kv] |-> n])

\* The one group of the kernels is the layout's, not the first of the session.
EncodeStagesV1(c, x, side, kv, ids, tokens, cache, cleared) ==
    LET g == CHOOSE g \in x.layout.groups : TRUE
    IN  IF UseCppV1(c, x.layout, side)
        THEN KvsEncodeFlatV1(c, x, kv, GroupIndicesV1(c, x.layout, ids)[g], tokens[g], cache, cleared)
        ELSE EncodePartsV1(c, x, kv, ids, tokens, cache, cleared)
EncodeV1(c, x, side, kv, ids, tokens, cache, slot, n) ==
    LET u8 == DataBytesV1(c, x.layout, kv, tokens)
    IN  IF "aggregate" \in c.stages THEN EncodeAggregateV1(c, x, kv, ids, cache, slot)
        ELSE Encoded(c, x.layout, kv, tokens, u8, n,
                EncodeStagesV1(c, x, side, kv, ids, tokens, cache,
                               Cleared(x.layout, u8, AuxBytesV1(c, x.layout, kv, tokens), slot)))

ScatterHeadsV1(c, x, p, ind, vals, cache) ==
    LET Slot(h) == (CHOOSE k \in DOMAIN x.orders[p.layer] : x.orders[p.layer][k] = h) - 1
    IN  Scatter(x.layout, p, ind, LAMBDA bl, t, h, d : vals[CanonIx(c, p, bl, t, Slot(h), d)], cache)
InverseHadamardScatterV1(c, x, p, ind, s, cache) ==
    LET nb == Len(ind)
        a == CanonA(c, p, nb, s)
    IN  ScatterHeadsV1(c, x, p, ind,
            IF "transformer" \in c.stages
            THEN Signed(c, x, p, nb, LaunchFwht(a, CanonB(c, x.layout, p, nb, s), p.size)[2]) ELSE a, cache)

DecodePieceV1(c, x, p, ind, valid, nb, slot, acc) ==
    LET s == IF "quantizer" \in c.stages THEN DequantizeV1(c, x.layout, p, nb, slot)
             ELSE UnpackRaw(c, x.layout, p, nb, slot)
        body == IF nb = 0 THEN acc.cache
                ELSE InverseHadamardScatterV1(c, x, p, SubSeq(ind, 1, nb), s, acc.cache)
    IN  [off |-> acc.off + 2 * (valid % p.block) * p.heads * p.size,
         cache |-> ApplyRawTailV1(c, x.layout, p, ind, valid, acc.off, slot, body)]
DecodePartsV1(c, x, kv, ids, tokens, slot, cache) ==
    LET Part(acc, p) == DecodePieceV1(c, x, p, GroupIndicesV1(c, x.layout, ids)[p.group], tokens[p.group],
                                      BodyBlocks(c, p, tokens[p.group]), slot, acc)
    IN  FoldLeft(Part, [off |-> 0, cache |-> cache], x.layout.parts[kv]).cache

DecodeV1(c, x, side, kv, ids, tokens, codec, u8, slot, cache) ==
    LET L == x.layout
        payload == IF u8 > 0 /\ "codec" \in c.stages THEN AnsDecode(Read(slot.a, 0, codec), u8)
                   ELSE Read(slot.a, 0, u8)
        s == [slot EXCEPT !.b = Put(@, L.u8base, payload)]
        g == CHOOSE g \in L.groups : TRUE
    IN  IF ~ DecodeAccepts(c, L, kv, tokens, codec, u8) THEN cache
        ELSE IF "aggregate" \in c.stages THEN DecodeAggregateV1(c, x, kv, ids, slot, cache)
        ELSE IF UseCppV1(c, L, side)
        THEN KvsDecodeFlatV1(c, x, kv, GroupIndicesV1(c, L, ids)[g], tokens[g], s, cache)
        ELSE DecodePartsV1(c, x, kv, ids, tokens, s, cache)
=============================================================================
