------------------------- MODULE CompressionRuntime ------------------------
(* One compressed session between a slot of P and a slot of D: encode() and *)
(* decode() of the manager and the pipeline for each chunk in turn, with    *)
(* the transfer of the used bytes between them.  Both slots start with the  *)
(* bytes of earlier owners.                                                 *)
EXTENDS CompressionV1

CONSTANT Configs

VARIABLES c,      \* configuration
          x,      \* prepared execution
          pslot, dslot, dcache,
          next,   \* chunk to move next
          phase,  \* "encode", "send", "decode"
          msg     \* sizes of the encoded chunk
runtimeVars == <<c, x, pslot, dslot, dcache, next, phase, msg>>

\* Backend of a side: the kernels serve a single cache group.
UseCpp(side) == side = "cpp" /\ "aggregate" \notin c.stages /\ Cardinality(DOMAIN c.pids) = 1

-----------------------------------------------------------------------------
\* Aggregate: the blocks of every layer as they are, one layer after the other.
AggregateOffset(kv, ids, n) ==
    SumOver(1 .. n - 1, LAMBDA i :
        LET p == x.layout.parts[kv][i] IN 2 * Numel(c, p, Len(ids[p.group]) * c.bpl))
NativeIx(p, b, t, h, d) == ((b * p.heads + h) * KernelTokens(c, p) + t) * p.size + d + 1
Native(p, nb, f(_, _, _, _)) ==
    [i \in 1 .. Numel(c, p, nb) |->
        LET y == (i - 1) \div p.size  z == y \div KernelTokens(c, p)
        IN  f(z \div p.heads, y % KernelTokens(c, p), z % p.heads, (i - 1) % p.size)]

EncodeAggregate(kv, ids, cache, slot) ==
    LET parts == x.layout.parts[kv]
        Part(s, n) ==
            LET p == parts[n]  ind == GroupIndices(c, ids)[p.group]
            IN  [s EXCEPT !.a = Put(@, AggregateOffset(kv, ids, n), Bytes(Native(p, Len(ind),
                    LAMBDA b, t, h, d : cache[p.layer][<<ind[b + 1], t, h, Channel(x.layout, p, d)>>])))]
        bytes == AggregateOffset(kv, ids, Len(parts) + 1)
    IN  [slot |-> FoldLeft(Part, slot, [n \in DOMAIN parts |-> n]), u8 |-> bytes, codec |-> bytes, tail |-> 0]

DecodeAggregate(kv, ids, slot, cache) ==
    LET Part(ca, n) ==
            LET p == x.layout.parts[kv][n]  ind == GroupIndices(c, ids)[p.group]
                vals == Vals(Read(slot.a, AggregateOffset(kv, ids, n), 2 * Numel(c, p, Len(ind))))
            IN  Scatter(x.layout, p, ind, LAMBDA b, t, h, d : vals[NativeIx(p, b, t, h, d)], ca)
    IN  FoldLeft(Part, cache, [n \in DOMAIN x.layout.parts[kv] |-> n])

\* encode()
EncodeStages(side, kv, ids, tokens, cache, cleared) ==
    IF UseCpp(side) THEN EncodeFlat(c, x, kv, IndexTensor(c, ids[0]), tokens[0], cache, cleared)
    ELSE EncodeParts(c, x, kv, ids, tokens, cache, cleared).s
Encode(side, kv, ids, tokens, cache, slot, n) ==
    LET u8 == DataBytes(c, x.layout, kv, tokens)
    IN  IF "aggregate" \in c.stages THEN EncodeAggregate(kv, ids, cache, slot)
        ELSE Encoded(c, x.layout, kv, tokens, u8, n,
                EncodeStages(side, kv, ids, tokens, cache,
                             Cleared(x.layout, u8, AuxBytes(c, x.layout, kv, tokens), slot)))

ScatterHeads(p, ind, vals, cache) ==
    LET order == x.orders[p.layer]
        Slot(h) == (CHOOSE k \in DOMAIN order : order[k] = h) - 1
        scratch == Vals(Bytes(Scratch(c, p, Len(ind), LAMBDA bl, t, h, d : vals[CanonIx(c, p, bl, t, Slot(h), d)])))
    IN  Scatter(x.layout, p, ind, LAMBDA bl, t, h, d : scratch[ScratchIx(c, p, bl, t, h, d)], cache)
InverseHadamardScatter(p, ind, s, cache) ==
    LET nb == Len(ind)
        a == CanonA(c, p, nb, s)
    IN  ScatterHeads(p, ind,
            IF "transformer" \in c.stages
            THEN Signed(c, x, p, nb, HadamardTransform(a, CanonB(c, x.layout, p, nb, s), p.size)[2]) ELSE a, cache)

DecodePiece(p, ind, valid, nb, slot, acc) ==
    LET s == IF "quantizer" \in c.stages THEN Dequantize(c, x.layout, p, nb, slot)
             ELSE UnpackRaw(c, x.layout, p, nb, slot)
        body == IF nb = 0 THEN acc.cache
                ELSE InverseHadamardScatter(p, SubSeq(ind, 1, nb), s, acc.cache)
    IN  [off |-> acc.off + 2 * (valid % p.block) * p.heads * p.size,
         cache |-> ApplyRawTail(c, x.layout, p, ind, valid, acc.off, slot, body)]
DecodeParts(kv, ids, tokens, slot, cache) ==
    LET Part(acc, p) == DecodePiece(p, GroupIndices(c, ids)[p.group], tokens[p.group],
                                    BodyBlocks(c, p, tokens[p.group]), slot, acc)
    IN  FoldLeft(Part, [off |-> 0, cache |-> cache], x.layout.parts[kv]).cache

\* decode(): the codec or a copy fills arena B, then every part is undone.
Decode(side, kv, ids, tokens, codec, u8, slot, cache) ==
    LET payload == IF u8 > 0 /\ "codec" \in c.stages THEN AnsDecode(Read(slot.a, 0, codec), u8)
                   ELSE Read(slot.a, 0, u8)
        s == [slot EXCEPT !.b = Put(@, x.layout.u8base, payload)]
    IN  IF "aggregate" \in c.stages THEN DecodeAggregate(kv, ids, slot, cache)
        ELSE IF UseCpp(side) THEN DecodeFlat(c, x, kv, IndexTensor(c, ids[0]), tokens[0], s, cache)
        ELSE DecodeParts(kv, ids, tokens, s, cache)

-----------------------------------------------------------------------------
\* The session: block sizes and valid tokens of each cache group.
Sizes == [g \in DOMAIN c.pids |-> c.specs[1].block]
Blocks == Len(c.pids[0])
Valid == SuffixTokenCounts(c.tokens, c.dids, Sizes)
Window == ChunkWindow(next, Blocks, c.chunk)
WindowTokens == ChunkTokenCounts(Valid, Sizes, Window.start, Window.count)
WindowIds(ids) ==
    [g \in DOMAIN ids |-> IF g \in x.layout.groups
                          THEN SubSeq(ids[g], Window.start + 1, Window.start + Window.count) ELSE << >>]
TotalChunks == 2 * ((Blocks + c.chunk - 1) \div c.chunk)

CacheKeys(L, p) ==
    (0 .. c.blocks * c.bpl - 1) \X (0 .. KernelTokens(c, p) - 1) \X (0 .. p.heads - 1)
        \X (0 .. KeySize(L, p.layer) + p.size - 1)
PCache ==
    LET V == x.layout.parts[1]
        At(l) == V[CHOOSE n \in DOMAIN V : V[n].layer = l]
        k(l) == KeySize(x.layout, l)
        Own(l, y) == IF y[4] < k(l) THEN Cell(<<l, 0, y[1], y[2], y[3]>>, k(l), y[4])
                     ELSE Cell(<<l, 1, y[1], y[2], y[3]>>, At(l).size, y[4] - k(l))
    IN  [l \in DOMAIN x.orders |-> [y \in CacheKeys(x.layout, At(l)) |-> Own(l, y)]]

StaleSlot(L) ==
    [a |-> Fill(StaleByte, L.arena), b |-> IF L.aggregate THEN << >> ELSE Fill(StaleByte, L.arena),
     aux |-> Fill(StaleByte, L.auxArena), tail |-> Fill(StaleByte, RawTailCapacity(L))]

V1 == c.fork = "v1"

\* The accepted configurations: the connector's own parser takes them as given.
Configured(r) ==
    IF r.fork = "v1" THEN {cc \in FromExtraConfig(r) : SpecsFit(cc) /\ ScoresFit(cc)}
    ELSE {[r EXCEPT !.stages = IF r.rawAggregate THEN {"aggregate"} ELSE Range(r.pipeline)]}
Plan(cc) == IF cc.fork = "v1" THEN BuildMemoryPlanV1(cc) ELSE BuildMemoryPlan(cc)
Execution(cc) == IF cc.fork = "v1" THEN BindKvCachesV1(cc, Plan(cc)) ELSE PrepareExecution(cc, Plan(cc))

RuntimeInit ==
    /\ c \in UNION {Configured(r) : r \in Configs}
    /\ x = Execution(c)
    /\ V1 => PipelineAccepts(c, x.layout)
    /\ pslot = StaleSlot(x.layout)
    /\ dslot = pslot
    /\ dcache = [l \in DOMAIN PCache |-> [y \in DOMAIN PCache[l] |-> Old]]
    /\ next = 0 /\ phase = "encode" /\ msg = << >>

\* The codec may shrink the payload or add to it.
EncodeWindow(n) ==
    IF V1 THEN EncodeV1(c, x, c.sides[1], Window.kv, WindowIds(c.pids), WindowTokens, PCache, pslot, n)
    ELSE Encode(c.sides[1], Window.kv, WindowIds(c.pids), WindowTokens, PCache, pslot, n)
EncodeChunk ==
    /\ phase = "encode" /\ next < TotalChunks
    /\ \E n \in IF "codec" \in c.stages THEN {2, x.layout.packed[Window.kv] + CodecOverhead} ELSE {0} :
         \E e \in {EncodeWindow(n)} :
            /\ pslot' = e.slot
            /\ msg' = [u8 |-> e.u8, codec |-> e.codec, tail |-> e.tail,
                       aux |-> AuxBytes(c, x.layout, Window.kv, WindowTokens)]
    /\ phase' = "send"
    /\ UNCHANGED <<c, x, dslot, dcache, next>>

\* _send_compressed_blocks: payload, aux and tail to D's slot.
Payload == Read(pslot.a, 0, msg.codec)
Aux == Read(pslot.aux, 0, msg.aux)
RawTail == Read(pslot.tail, 0, msg.tail)
SendCompressedBlocks ==
    /\ phase = "send"
    /\ dslot' = [dslot EXCEPT !.a = Put(@, 0, Payload), !.aux = Put(@, 0, Aux), !.tail = Put(@, 0, RawTail)]
    /\ phase' = "decode"
    /\ UNCHANGED <<c, x, pslot, dcache, next, msg>>

DecodeChunk ==
    /\ phase = "decode"
    /\ dcache' = IF V1 THEN DecodeV1(c, x, c.sides[2], Window.kv, WindowIds(c.dids), WindowTokens,
                                     msg.codec, msg.u8, dslot, dcache)
                 ELSE Decode(c.sides[2], Window.kv, WindowIds(c.dids), WindowTokens,
                             msg.codec, msg.u8, dslot, dcache)
    /\ next' = next + 1
    /\ phase' = "encode"
    /\ UNCHANGED <<c, x, pslot, dslot, msg>>

RuntimeNext == EncodeChunk \/ SendCompressedBlocks \/ DecodeChunk
RuntimeSpec == RuntimeInit /\ [][RuntimeNext]_runtimeVars

-----------------------------------------------------------------------------
\* What D's cell must hold once the first n chunks are decoded.
Expected(l, y, n) ==
    LET p(kv) == x.layout.parts[kv][CHOOSE i \in DOMAIN x.layout.parts[kv] : x.layout.parts[kv][i].layer = l]
        kv == IF y[4] < KeySize(x.layout, l) THEN 0 ELSE 1
        g == p(0).group
        dind == IndexTensor(c, c.dids[g])
        pind == IndexTensor(c, c.pids[g])
        pos == (CHOOSE i \in DOMAIN dind : dind[i] = y[1]) - 1
    IN  IF y[1] \notin Range(dind) \/ 2 * (pos \div (c.bpl * c.chunk)) + kv >= n THEN Old
        ELSE IF pos * KernelTokens(c, p(0)) + y[2] >= Valid[g] /\ "aggregate" \notin c.stages THEN Zero
        ELSE PCache[l][<<pind[pos + 1], y[2], y[3], y[4]>>]

\* The cells a value is made of; junk for anything that is no such value.
Cells(v) ==
    CASE v[1] = "lin" -> {v[2]}
      [] v[1] = "zero" -> {}
      [] v[1] = "code" -> {w[2] : w \in v[3][1]} \cup {v[2][2]}
      [] v[1] \in {"min", "scale"} -> {w[2] : w \in v[2]}
      [] OTHER -> {<<"junk">>}
BytesOf(b) == IF b[2] = 3 THEN Range(b[1][2]) ELSE {b}

\* Every byte that leaves P is zero or made of cells of the chunk's own blocks
\* and half.
PayloadClean ==
    LET own(l) == Range(IndexTensor(c, WindowIds(c.pids)[c.groups[l]]))
    IN  \A b \in UNION {BytesOf(y) : y \in Range(Payload) \cup Range(Aux) \cup Range(RawTail)} :
            \A cell \in Cells(b[1]) :
                Len(cell) = 5 /\ cell[2] = Window.kv /\ cell[3] \in own(cell[1])

\* After each chunk D's blocks of that window hold exactly P's valid tokens, for
\* the stages, axes, head orders, cache layouts, backends and chunk sizes among
\* the configurations and whatever the slots held before; the rest of a partial
\* block is zero and no other block of D is touched (encode, decode).  Nothing
\* of an earlier chunk or of an earlier owner of the slot leaves P (the clearing
\* at the start of encode).  A transform of an even number of butterfly stages
\* in the Mooncake kernel is not among the configurations: it does not hold
\* there.
RoundTrip ==
    /\ phase = "encode" =>
          \A l \in DOMAIN dcache : \A y \in DOMAIN dcache[l] : dcache[l][y] = Expected(l, y, next)
    /\ phase = "send" => PayloadClean

\* The pieces the manager cuts from its pool fit in what the plan sizes it for,
\* and the pool in what the plan reserves (build_memory_plan, _PoolCarver).
PoolFits ==
    phase = "encode" /\ next = 0 =>
    \A plan \in {Plan(c)} :
        /\ (IF V1 THEN PoolEndV1(c, plan) ELSE PoolEnd(c, plan)) <= FixedBytes(c, plan)
        /\ FixedBytes(c, plan) <= plan.reserved
=============================================================================
