-------------------------- MODULE CompressionCuda --------------------------
(* mooncake/compression/csrc/kvs_compress.cu and cpp_backend.py: the same   *)
(* encode and decode of a chunk as kernels over a flat description of the   *)
(* parts.  Rounding is exact here as in CompressionPipeline; a kernel is    *)
(* its effect on the buffers.                                               *)
EXTENDS CompressionPipeline

\* build_meta: no order for an identity layer, no signs without a transformer.
PartDesc(c, x, p) ==
    [p |-> p, layout |-> x.layout, kernelTokens |-> p.block \div c.bpl,
     order |-> IF p.layer \in x.identity THEN << >> ELSE x.orders[p.layer],
     signs |-> IF Uses(c, "transformer") THEN x.orders[p.layer] ELSE << >>,
     transformer |-> "transformer" \in c.stages, quantized |-> "quantizer" \in c.stages]

\* Flat position of (block, token, head, channel), and back.
FlatIx(m, b, t, h, d) == ((b * m.kernelTokens + t) * m.p.heads + h) * m.p.size + d
Unflat(m, i) ==
    LET rest == i \div m.p.size  row == rest \div m.p.heads
    IN  [d |-> i % m.p.size, h |-> rest % m.p.heads, row |-> row,
         t |-> row % m.kernelTokens, b |-> row \div m.kernelTokens]
Total(m, nb) == nb * m.kernelTokens * m.p.heads * m.p.size
HeadAt(m, h) == IF m.order = << >> THEN h ELSE m.order[h + 1]
WithSign(m, v, h, d) == IF m.signs = << >> THEN v ELSE Scaled(v, Sign(m.p.layer, m.signs[h + 1], d))

GatherSignKernel(m, ind, cache) ==
    [i \in 1 .. Total(m, Len(ind)) |->
        LET x == Unflat(m, i - 1)
        IN  WithSign(m, cache[m.p.layer][<<ind[x.b + 1], x.t, HeadAt(m, x.h), Channel(m.layout, m.p, x.d)>>],
                     x.h, x.d)]

\* fwht_stage_kernel: each element from its pair in the other buffer.
FwhtStageKernel(src, size, order) ==
    [i \in 1 .. Len(src) |->
        LET row == (i - 1) \div size  j == (i - 1) % size
            offset == j % order  group == (j \div (2 * order)) * 2 * order
            a == src[row * size + group + offset + 1]
            b == src[row * size + group + order + offset + 1]
        IN  IF (j \div order) % 2 = 0 THEN Plus(a, b) ELSE Plus(a, Scaled(b, -1))]

\* The stages alternate between the buffers; the second one is then scaled,
\* whichever of the two holds the last stage.
Stages(first, second, size) ==
    LET f[k \in 0 .. Log2(size)] ==
            IF k = 0 THEN <<first, second>>
            ELSE IF k % 2 = 1 THEN <<f[k - 1][1], << >> \o FwhtStageKernel(f[k - 1][1], size, 2 ^ (k - 1))>>
            ELSE << << >> \o FwhtStageKernel(f[k - 1][2], size, 2 ^ (k - 1)), f[k - 1][2]>>
    IN  f[Log2(size)]
ScaleSecond(bufs, size) == <<bufs[1], NormalizedAll(bufs[2], size)>>
FwhtStages(first, second, size) == ScaleSecond(Stages(first, second, size), size)

Transformed(m, s, b, a) ==
    PutBuffers(m.layout, s, IF m.transformer THEN FwhtStages(b, a, m.p.size) ELSE <<b, b>>)
GatherAndTransform(m, ind, cache, s) ==
    Transformed(m, s, GatherSignKernel(m, ind, cache), Vals(Read(s.a, 0, 2 * Total(m, Len(ind)))))

-----------------------------------------------------------------------------
\* The aux entries of the two quantize kernels: a column per head and channel,
\* or a token; every axis that is not "channel" takes the second.
Columns(m, sec) == sec.count * m.p.size
ColumnSet(m, sec, tokens, vals, k) ==
    {vals[(t * m.p.heads + sec.start + (k \div m.p.size)) * m.p.size + (k % m.p.size) + 1] :
        t \in 0 .. tokens - 1}
TokenSet(m, sec, vals, t) ==
    {vals[(t * m.p.heads + h) * m.p.size + d + 1] :
        h \in sec.start .. sec.start + sec.count - 1, d \in 0 .. m.p.size - 1}

\* What both kernels write: two aux arrays, two temporary ones, a code per value.
CodesOf(m, sec, vals, R, old, Entry(_)) ==
    [i \in DOMAIN vals |->
        LET x == Unflat(m, i - 1)
        IN  IF InSection(sec, x.h) THEN <<Code(vals[i], R[Entry(x)], sec.levels), 2>> ELSE old[i]]
WriteCodes(m, sec, s, vals, R, Entry(_)) ==
    LET start == m.layout.u8base + m.p.u8
    IN  [s EXCEPT !.aux = WriteAux(m.layout.auxArena \div 2, sec, @, R),
                  !.b = Put(@, start, CodesOf(m, sec, vals, R, Read(s.b, start, Len(vals)), Entry))]

PartValues(m, tokens, s) == Vals(Read(s.a, 0, 2 * tokens * m.p.heads * m.p.size))
CodeColumns(m, sec, tokens, s, vals) ==
    WriteCodes(m, sec, s, vals,
               [k \in 0 .. Columns(m, sec) - 1 |-> ColumnSet(m, sec, tokens, vals, k)],
               LAMBDA x : (x.h - sec.start) * m.p.size + x.d)
QuantizeChannelKernel(m, sec, tokens, s) == CodeColumns(m, sec, tokens, s, PartValues(m, tokens, s))
CodeTokens(m, sec, tokens, s, vals) ==
    WriteCodes(m, sec, s, vals, [t \in 0 .. tokens - 1 |-> TokenSet(m, sec, vals, t)], LAMBDA x : x.row)
QuantizeTokenKernel(m, sec, tokens, s) == CodeTokens(m, sec, tokens, s, PartValues(m, tokens, s))

AuxAt(s, off, k) == Vals(Read(s.aux, off + 2 * k, 2))[1]
DequantizeChannelKernel(m, sec, s, code, x) ==
    LET k == (x.h - sec.start) * m.p.size + x.d
    IN  Dequantized(code, AuxAt(s, sec.min, k), AuxAt(s, sec.scale, k))
DequantizeTokenKernel(m, sec, s, code, x) ==
    Dequantized(code, AuxAt(s, sec.min, x.row), AuxAt(s, sec.scale, x.row))

-----------------------------------------------------------------------------
\* Tail tokens before a physical block, and the position of each in the buffer.
TailCountForBlock(m, tail, b) ==
    LET left == tail - b * m.kernelTokens
    IN  IF left <= 0 THEN 0 ELSE IF left < m.kernelTokens THEN left ELSE m.kernelTokens
TailBlockOffset(m, tail, b) ==
    SumOver(0 .. b - 1, LAMBDA k : TailCountForBlock(m, tail, k)) * m.p.heads * m.p.size
TailPos(m, tail, b, t, h, d) ==
    TailBlockOffset(m, tail, b) + (h * TailCountForBlock(m, tail, b) + t) * m.p.size + d + 1
TailBytesForPart(c, m, tail) == 2 * TailBlockOffset(m, tail, c.bpl)

TailPackKernel(c, m, ind, tail, cache) ==
    LET from == Len(ind) - c.bpl
        threads == {Unflat(m, i) : i \in 0 .. tail * m.p.heads * m.p.size - 1}
        cells == [i \in 1 .. tail * m.p.heads * m.p.size |->
                    CHOOSE x \in threads :
                        TailPos(m, tail, x.row \div m.kernelTokens, x.row % m.kernelTokens, x.h, x.d) = i]
    IN  [i \in DOMAIN cells |->
            LET x == cells[i]
            IN  cache[m.p.layer][<<ind[from + x.b + 1], x.t, x.h, Channel(m.layout, m.p, x.d)>>]]

TailApplyKernel(c, m, ind, tail, read, cache) ==
    LET last == SubSeq(ind, Len(ind) - c.bpl + 1, Len(ind))
    IN  Scatter(m.layout, m.p, last,
                LAMBDA b, t, h, d : IF t < TailCountForBlock(m, tail, b)
                                    THEN read[TailPos(m, tail, b, t, h, d)] ELSE Zero,
                cache)

-----------------------------------------------------------------------------
\* encode_part: the body, then the tail at the cursor.
CopyRaw(m, nb, s) ==
    [s EXCEPT !.b = Put(@, m.layout.u8base + 2 * m.p.u8, Read(s.a, 0, 2 * Total(m, nb)))]
CodeSections(m, tokens, s) ==
    FoldLeft(LAMBDA acc, sec : IF sec.axis = "channel" THEN QuantizeChannelKernel(m, sec, tokens, acc)
                               ELSE QuantizeTokenKernel(m, sec, tokens, acc), s, m.p.sections)
StoreBody(m, nb, moved) ==
    IF m.quantized THEN CodeSections(m, nb * m.kernelTokens, moved) ELSE CopyRaw(m, nb, moved)
PutTail(tail, cursor, packed, body) ==
    IF tail = 0 THEN body ELSE [body EXCEPT !.tail = Put(@, cursor, Bytes(packed))]
EncodePart(c, m, ind, bodyBlocks, valid, cursor, cache, s) ==
    LET tail == valid % m.p.block
    IN  PutTail(tail, cursor, TailPackKernel(c, m, ind, tail, cache),
                IF bodyBlocks = 0 THEN s
                ELSE StoreBody(m, bodyBlocks, GatherAndTransform(m, SubSeq(ind, 1, bodyBlocks), cache, s)))

\* scatter_cache_kernel: every head back to its own place.
ScatterCacheKernel(m, ind, vals, cache) ==
    LET Slot(h) == CHOOSE k \in 0 .. m.p.heads - 1 : HeadAt(m, k) = h
    IN  Scatter(m.layout, m.p, ind,
                LAMBDA b, t, h, d : WithSign(m, vals[FlatIx(m, b, t, Slot(h), d) + 1], Slot(h), d), cache)

SectionAt(m, h) == m.p.sections[CHOOSE i \in DOMAIN m.p.sections : InSection(m.p.sections[i], h)]
DequantizeAt(m, s, code, x, sec) ==
    IF sec.axis = "channel" THEN DequantizeChannelKernel(m, sec, s, code, x)
    ELSE DequantizeTokenKernel(m, sec, s, code, x)
DequantizeCodes(m, s, codes) ==
    << >> \o [i \in DOMAIN codes |->
        LET x == Unflat(m, i - 1) IN DequantizeAt(m, s, codes[i], x, SectionAt(m, x.h))]
LoadBody(m, n, s) ==
    IF m.quantized THEN DequantizeCodes(m, s, Read(s.b, m.layout.u8base + m.p.u8, n))
    ELSE Vals(Read(s.b, m.layout.u8base + 2 * m.p.u8, 2 * n))
RotateBack(m, a, b) == IF m.transformer THEN FwhtStages(a, b, m.p.size)[2] ELSE a
ApplyTail(c, m, ind, tail, cursor, s, body) ==
    IF tail = 0 THEN body
    ELSE TailApplyKernel(c, m, ind, tail, Vals(Read(s.tail, cursor, TailBytesForPart(c, m, tail))), body)
DecodePart(c, m, ind, bodyBlocks, valid, cursor, s, cache) ==
    LET n == Total(m, bodyBlocks)
    IN  ApplyTail(c, m, ind, valid % m.p.block, cursor, s,
                  IF bodyBlocks = 0 THEN cache
                  ELSE ScatterCacheKernel(m, SubSeq(ind, 1, bodyBlocks),
                          RotateBack(m, LoadBody(m, n, s), Vals(Read(s.a, m.layout.stride, 2 * n))), cache))

\* kvs_encode_flat, kvs_decode_flat: all parts of a half, one index array, the
\* body length of the first part.
Cursor(c, x, kv, n, valid) ==
    SumOver(1 .. n - 1, LAMBDA i :
        TailBytesForPart(c, PartDesc(c, x, x.layout.parts[kv][i]), valid % x.layout.parts[kv][i].block))

EncodeFlat(c, x, kv, ind, valid, cache, slot) ==
    LET parts == x.layout.parts[kv]
        body == (valid \div parts[1].block) * c.bpl
        Part(s, n) == EncodePart(c, PartDesc(c, x, parts[n]), ind, body, valid, Cursor(c, x, kv, n, valid), cache, s)
    IN  FoldLeft(Part, slot, [n \in DOMAIN parts |-> n])

DecodeFlat(c, x, kv, ind, valid, slot, cache) ==
    LET parts == x.layout.parts[kv]
        body == (valid \div parts[1].block) * c.bpl
        Part(ca, n) == DecodePart(c, PartDesc(c, x, parts[n]), ind, body, valid, Cursor(c, x, kv, n, valid), slot, ca)
    IN  FoldLeft(Part, cache, [n \in DOMAIN parts |-> n])
=============================================================================
