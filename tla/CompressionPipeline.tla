------------------------ MODULE CompressionPipeline ------------------------
(* mooncake/compression/pipeline.py: how a chunk of KV blocks is gathered,  *)
(* rotated, quantized and packed in the buffers of a slot on P, and undone  *)
(* in the buffers of a slot on D.                                           *)
(*                                                                          *)
(* Buffers are sequences of bytes.  A BF16 value fills two of them, a code  *)
(* one.  Values are exact: a cache cell is a unit vector of its head, a     *)
(* rotated one a linear form [c, e] with the value (c . cells) / 2^(e/2); a *)
(* code names the value, the set it was scaled by and the levels, so that   *)
(* only the matching minimum and scale give the value back.                 *)
EXTENDS CompressionLayout

CONSTANT Sign(_, _, _)   \* the seeded +1 / -1 of a layer, original head, channel

Val(tag, a, b, e) == <<tag, a, b, e>>
Zero == Val("zero", << >>, << >>, 0)
Junk == Val("junk", << >>, << >>, 0)
Old  == Val("old", << >>, << >>, 0)
Cell(cell, size, d) == Val("lin", cell, [i \in 1 .. size |-> IF i = d + 1 THEN 1 ELSE 0], 0)

ZeroByte == <<Zero, 0>>
StaleByte == <<Old, 0>>
Bytes(vals) == [i \in 1 .. 2 * Len(vals) |-> <<vals[(i + 1) \div 2], IF i % 2 = 1 THEN 0 ELSE 1>>]
Elem(lo, hi) ==
    CASE lo = ZeroByte /\ hi = ZeroByte -> Zero
      [] lo[1] = hi[1] /\ lo[2] = 0 /\ hi[2] = 1 -> lo[1]
      [] OTHER -> Junk
Vals(bytes) == [i \in 1 .. Len(bytes) \div 2 |-> Elem(bytes[2 * i - 1], bytes[2 * i])]

\* A view outside the buffer raises: the buffer is lost.
Fill(byte, n) == [i \in 1 .. n |-> byte]
Read(buf, off, n) == SubSeq(buf, off + 1, off + n)
Put(buf, off, bytes) ==
    IF off + Len(bytes) > Len(buf) THEN << >>
    ELSE SubSeq(buf, 1, off) \o bytes \o SubSeq(buf, off + Len(bytes) + 1, Len(buf))

-----------------------------------------------------------------------------
\* Positions of [blocks, tokens, heads, size] (canonical) and of the scratch
\* view, which keeps the order of the cache: heads before tokens for HND.
KernelTokens(c, p) == p.block \div c.bpl
Numel(c, p, nb) == nb * KernelTokens(c, p) * p.heads * p.size
CanonIx(c, p, b, t, h, d) == ((b * KernelTokens(c, p) + t) * p.heads + h) * p.size + d + 1
ScratchIx(c, p, b, t, h, d) ==
    IF c.hnd THEN ((b * p.heads + h) * KernelTokens(c, p) + t) * p.size + d + 1
    ELSE CanonIx(c, p, b, t, h, d)

\* The sequence whose element at the canonical position is f(b, t, h, d).
Canon(c, p, nb, f(_, _, _, _)) ==
    [i \in 1 .. Numel(c, p, nb) |->
        LET x == i - 1  y == x \div p.size  z == y \div p.heads
        IN  f(z \div KernelTokens(c, p), z % KernelTokens(c, p), y % p.heads, x % p.size)]
Scratch(c, p, nb, f(_, _, _, _)) ==
    IF ~ c.hnd THEN Canon(c, p, nb, f)
    ELSE [i \in 1 .. Numel(c, p, nb) |->
            LET x == i - 1  y == x \div p.size  z == y \div KernelTokens(c, p)
            IN  f(z \div p.heads, y % KernelTokens(c, p), z % p.heads, x % p.size)]

\* Reads of the two ping-pong regions of arena A.
CanonA(c, p, nb, s) == Vals(Read(s.a, 0, 2 * Numel(c, p, nb)))
CanonB(c, L, p, nb, s) == Vals(Read(s.a, L.stride, 2 * Numel(c, p, nb)))
PutA(s, vals) == [s EXCEPT !.a = Put(@, 0, Bytes(vals))]
PutB(L, s, vals) == [s EXCEPT !.a = Put(@, L.stride, Bytes(vals))]

\* The cache of a layer: <<physical block, token, head, channel>> -> value; the
\* values follow the keys.
KeySize(L, l) == L.parts[0][CHOOSE n \in DOMAIN L.parts[0] : L.parts[0][n].layer = l].size
Channel(L, p, d) == IF p.kv = 0 THEN d ELSE KeySize(L, p.layer) + d

\* The physical blocks of logical block ids.
IndexTensor(c, ids) ==
    [i \in 1 .. Len(ids) * c.bpl |-> ids[(i - 1) \div c.bpl + 1] * c.bpl + ((i - 1) % c.bpl)]
GroupIndices(c, ids) == [g \in DOMAIN ids |-> IndexTensor(c, ids[g])]

-----------------------------------------------------------------------------
\* _gather_rearrange: an identity order goes straight to the buffer of the next
\* stage, any other through the scratch view.
Reorder(c, L, p, nb, order, gathered, scratch) ==
    PutB(L, gathered, Canon(c, p, nb, LAMBDA b, t, h, d : scratch[ScratchIx(c, p, b, t, order[h + 1], d)]))
ThroughScratch(c, L, p, nb, order, gathered) ==
    Reorder(c, L, p, nb, order, gathered, CanonA(c, p, nb, gathered))
GatherRearrange(c, L, orders, p, ind, cache, s) ==
    LET From(b, t, h, d) == cache[p.layer][<<ind[b + 1], t, h, Channel(L, p, d)>>]
    IN  IF p.layer \notin orders.identity
        THEN ThroughScratch(c, L, p, Len(ind), orders.orders[p.layer], PutA(s, Scratch(c, p, Len(ind), From)))
        ELSE IF "transformer" \in c.stages THEN PutB(L, s, Canon(c, p, Len(ind), From))
        ELSE PutA(s, Canon(c, p, Len(ind), From))

GatheredInB(c, orders, p) == p.layer \notin orders.identity \/ "transformer" \in c.stages

\* Arithmetic on linear forms of one head.
Scaled(v, k) == IF v[1] = "lin" THEN [v EXCEPT ![3] = [i \in DOMAIN v[3] |-> k * v[3][i]]] ELSE Junk
Plus(v, w) ==
    IF v[1] = "lin" /\ w[1] = "lin" /\ v[2] = w[2] /\ v[4] = w[4]
    THEN [v EXCEPT ![3] = [i \in DOMAIN v[3] |-> v[3][i] + w[3][i]]] ELSE Junk
Halved(v) ==
    IF v[1] = "lin" /\ v[4] >= 2 /\ \A i \in DOMAIN v[3] : v[3][i] % 2 = 0
    THEN [v EXCEPT ![3] = [i \in DOMAIN v[3] |-> v[3][i] \div 2], ![4] = @ - 2] ELSE v
Log2(n) == CHOOSE k \in 0 .. n : 2 ^ k = n

\* 1 / sqrt(size)
Normalized(v, size) ==
    IF v[1] # "lin" THEN Junk
    ELSE LET w == [v EXCEPT ![4] = @ + Log2(size)]
             f[k \in 0 .. Log2(size)] == IF k = 0 THEN w ELSE Halved(f[k - 1])
         IN  f[Log2(size)]

\* One butterfly: pairs step apart become their sum and their difference.
Butterfly(vals, step) ==
    [i \in 1 .. Len(vals) |->
        IF ((i - 1) \div step) % 2 = 0 THEN Plus(vals[i], vals[i + step])
        ELSE Plus(vals[i - step], Scaled(vals[i], -1))]

\* The buffers <<input, output>> after every butterfly; each is read from the
\* buffer the one before it wrote.
PingPong(input, output, size) ==
    LET f[k \in 0 .. Log2(size)] ==
            IF k = 0 THEN <<input, output>>
            ELSE IF k % 2 = 1 THEN <<f[k - 1][1], << >> \o Butterfly(f[k - 1][1], 2 ^ (k - 1))>>
            ELSE << << >> \o Butterfly(f[k - 1][2], 2 ^ (k - 1)), f[k - 1][2]>>
    IN  f[Log2(size)]

\* _hadamard_transform: <<input, output>> afterwards.
LastStage(bufs, size) == bufs[IF Log2(size) % 2 = 1 THEN 2 ELSE 1]
NormalizedAll(vals, size) == << >> \o [i \in DOMAIN vals |-> Normalized(vals[i], size)]
NormalizeLast(bufs, size) == <<bufs[1], NormalizedAll(LastStage(bufs, size), size)>>
HadamardTransform(input, output, size) == NormalizeLast(PingPong(input, output, size), size)

\* The signs of the heads in stored order.
SignOf(orders, p, h, d) == Sign(p.layer, orders.orders[p.layer][h + 1], d)
Signed(c, orders, p, nb, vals) ==
    Canon(c, p, nb, LAMBDA b, t, h, d :
        Scaled(vals[CanonIx(c, p, b, t, h, d)], SignOf(orders, p, h, d)))

PutBuffers(L, s, bufs) == PutA(PutB(L, s, bufs[1]), bufs[2])
HadamardForward(c, L, orders, p, nb, s) ==
    PutBuffers(L, s, HadamardTransform(Signed(c, orders, p, nb, CanonB(c, L, p, nb, s)),
                                       CanonA(c, p, nb, s), p.size))

-----------------------------------------------------------------------------
\* A partial last block travels as it is, without the compression stages.  The
\* counts of the tail tokens in its physical blocks:
TailCount(c, p, tail, b) ==
    LET left == tail - b * KernelTokens(c, p)
    IN  IF left <= 0 THEN 0 ELSE IF left < KernelTokens(c, p) THEN left ELSE KernelTokens(c, p)

\* The positions a tail takes in its buffer: head by head within each block.
TailCells(c, p, tail) ==
    FlattenSeq([b1 \in 1 .. c.bpl |->
        LET n == TailCount(c, p, tail, b1 - 1)
        IN  [i \in 1 .. p.heads * n * p.size |->
                LET x == i - 1  y == x \div p.size IN <<b1 - 1, y % n, y \div n, x % p.size>>]])

TailIndices(c, ind) == SubSeq(ind, Len(ind) - c.bpl + 1, Len(ind))

CopyTail(c, p, cells, off, gathered, scratch) ==
    [gathered EXCEPT !.tail = Put(@, off, Bytes([i \in DOMAIN cells |->
        scratch[ScratchIx(c, p, cells[i][1], cells[i][2], cells[i][3], cells[i][4])]]))]
PackTail(c, p, cells, off, gathered) == CopyTail(c, p, cells, off, gathered, CanonA(c, p, c.bpl, gathered))
PackRawTail(c, L, p, ind, valid, cache, off, s) ==
    LET last == TailIndices(c, ind)
    IN  IF valid % p.block = 0 THEN s
        ELSE PackTail(c, p, TailCells(c, p, valid % p.block), off,
                      PutA(s, Scratch(c, p, c.bpl, LAMBDA b, t, h, d :
                                 cache[p.layer][<<last[b + 1], t, h, Channel(L, p, d)>>])))

\* index_copy_ of the blocks ind of a part: f(b, t, h, d) is what they get.
Scatter(L, p, ind, f(_, _, _, _), cache) ==
    LET first == Channel(L, p, 0)
        Row(blk) == (CHOOSE i \in DOMAIN ind : ind[i] = blk) - 1
        Written(x) == x[1] \in Range(ind) /\ x[4] \in first .. first + p.size - 1
    IN  [cache EXCEPT ![p.layer] = [x \in DOMAIN @ |->
            IF Written(x) THEN f(Row(x[1]), x[2], x[3], x[4] - first) ELSE @[x]]]

\* The unused positions of the block are cleared, not inherited.
FillTail(L, p, last, cells, read, cache) ==
    LET Filled(b, t, h, d) ==
            IF <<b, t, h, d>> \notin Range(cells) THEN Zero
            ELSE read[CHOOSE i \in DOMAIN cells : cells[i] = <<b, t, h, d>>]
    IN  Scatter(L, p, last, Filled, cache)
UnpackTail(L, p, last, cells, off, s, cache) ==
    FillTail(L, p, last, cells, Vals(Read(s.tail, off, 2 * Len(cells))), cache)
ApplyRawTail(c, L, p, ind, valid, off, s, cache) ==
    IF valid % p.block = 0 THEN cache
    ELSE UnpackTail(L, p, TailIndices(c, ind), TailCells(c, p, valid % p.block), off, s, cache)

-----------------------------------------------------------------------------
\* The aux entry of an element of a section, and the values it is reduced over.
AuxEntry(c, p, sec, b, t, h, d) ==
    CASE sec.axis = "channel" -> (h - sec.start) * p.size + d
      [] sec.axis = "token"   -> b * KernelTokens(c, p) + t
      [] sec.axis = "tensor"  -> 0
InSection(sec, h) == h >= sec.start /\ h < sec.start + sec.count
Coords(c, p, nb, sec) ==
    (0 .. nb - 1) \X (0 .. KernelTokens(c, p) - 1) \X (sec.start .. sec.start + sec.count - 1)
        \X (0 .. p.size - 1)
Reduced(c, p, nb, sec, vals) ==
    [k \in 0 .. ReductionCount(sec.axis, nb * KernelTokens(c, p), sec.count, p.size) - 1 |->
        {vals[CanonIx(c, p, x[1], x[2], x[3], x[4])] :
            x \in {y \in Coords(c, p, nb, sec) : AuxEntry(c, p, sec, y[1], y[2], y[3], y[4]) = k}}]

Minimum(M) == Val("min", M, << >>, 0)
Scale(M, levels) == Val("scale", M, <<levels>>, 0)
Code(v, M, levels) == Val("code", v, <<M, levels>>, 0)
PerEntry(R, f(_)) == Bytes([k \in 1 .. Cardinality(DOMAIN R) |-> f(R[k - 1])])

\* One section: its minimum and scale, with the maximum and the inverse scale in
\* the other half of the aux buffer, then the codes.
WriteAux(half, sec, aux, R) ==
    LET min == Put(aux, sec.min, PerEntry(R, Minimum))
        max == Put(min, half + sec.min, PerEntry(R, LAMBDA M : Val("max", M, << >>, 0)))
        scale == Put(max, sec.scale, PerEntry(R, LAMBDA M : Scale(M, sec.levels)))
    IN  Put(scale, half + sec.scale, PerEntry(R, LAMBDA M : Val("inv", M, <<sec.levels>>, 0)))

\* The code of each element of a section; elsewhere what old and vals hold.
CodeOf(c, p, sec, vals, R, b, t, h, d) ==
    Code(vals[CanonIx(c, p, b, t, h, d)], R[AuxEntry(c, p, sec, b, t, h, d)], sec.levels)
WriteSection(c, L, p, nb, s, sec, vals, R, old) ==
    LET codes == Canon(c, p, nb, LAMBDA b, t, h, d :
                    IF InSection(sec, h) THEN <<CodeOf(c, p, sec, vals, R, b, t, h, d), 2>>
                    ELSE old[CanonIx(c, p, b, t, h, d)])
        source == Canon(c, p, nb, LAMBDA b, t, h, d :
                    IF InSection(sec, h) THEN CodeOf(c, p, sec, vals, R, b, t, h, d)
                    ELSE vals[CanonIx(c, p, b, t, h, d)])
    IN  [PutA(s, source) EXCEPT !.aux = WriteAux(L.auxArena \div 2, sec, @, R),
                                !.b = Put(@, L.u8base + p.u8, codes)]
QuantizeValues(c, L, p, nb, s, sec, vals) ==
    WriteSection(c, L, p, nb, s, sec, vals, Reduced(c, p, nb, sec, vals),
                 Read(s.b, L.u8base + p.u8, Numel(c, p, nb)))
QuantizeSection(c, L, p, nb, s, sec) == QuantizeValues(c, L, p, nb, s, sec, CanonA(c, p, nb, s))

\* Only whole blocks reach the quantizer, so all their rows are valid.
Quantize(c, L, p, nb, s) ==
    LET cleared == [s EXCEPT !.b = Put(@, L.u8base + p.u8, Fill(ZeroByte, Numel(c, p, nb)))]
        Section(acc, sec) == QuantizeSection(c, L, p, nb, acc, sec)
    IN  FoldLeft(Section, cleared, p.sections)

Dequantized(code, min, scale) ==
    IF code[2] = 2 /\ min = Minimum(code[1][3][1]) /\ scale = Scale(code[1][3][1], code[1][3][2])
    THEN code[1][2] ELSE Junk

Dequantize(c, L, p, nb, s) ==
    LET codes == Read(s.b, L.u8base + p.u8, Numel(c, p, nb))
        Sec(h) == CHOOSE i \in DOMAIN p.sections : InSection(p.sections[i], h)
        Aux(off, k) == Vals(Read(s.aux, off + 2 * k, 2))[1]
        Back(b, t, h, d) ==
            LET sec == p.sections[Sec(h)]
                k == AuxEntry(c, p, sec, b, t, h, d)
            IN  Dequantized(codes[CanonIx(c, p, b, t, h, d)], Aux(sec.min, k), Aux(sec.scale, k))
    IN  PutA(s, Canon(c, p, nb, Back))

-----------------------------------------------------------------------------
\* Raw values packed where the codes would be.
PackRaw(c, L, p, nb, s) ==
    [s EXCEPT !.b = Put(@, L.u8base + 2 * p.u8, Read(s.a, 0, 2 * Numel(c, p, nb)))]
UnpackRaw(c, L, p, nb, s) ==
    [s EXCEPT !.a = Put(@, 0, Read(s.b, L.u8base + 2 * p.u8, 2 * Numel(c, p, nb)))]

BodyBlocks(c, p, valid) == (valid \div p.block) * c.bpl

Rotated(c, x, p, nb, gathered) ==
    IF "transformer" \in c.stages THEN HadamardForward(c, x.layout, x, p, nb, gathered)
    ELSE IF GatheredInB(c, x, p) THEN PutA(gathered, CanonB(c, x.layout, p, nb, gathered))
    ELSE gathered
PackBody(c, x, p, nb, rotated) ==
    IF "quantizer" \in c.stages THEN Quantize(c, x.layout, p, nb, rotated)
    ELSE PackRaw(c, x.layout, p, nb, rotated)
EncodeBody(c, x, p, ind, cache, s) ==
    PackBody(c, x, p, Len(ind),
             Rotated(c, x, p, Len(ind), GatherRearrange(c, x.layout, x, p, ind, cache, s)))

\* The parts one after the other, in the same two scratch regions.
AfterTail(c, x, p, ind, nb, cache, tailed) ==
    IF nb = 0 THEN tailed ELSE EncodeBody(c, x, p, SubSeq(ind, 1, nb), cache, tailed)
EncodePiece(c, x, p, ind, valid, cache, acc) ==
    [off |-> acc.off + 2 * (valid % p.block) * p.heads * p.size,
     s |-> AfterTail(c, x, p, ind, BodyBlocks(c, p, valid), cache,
                     PackRawTail(c, x.layout, p, ind, valid, cache, acc.off, acc.s))]
EncodeParts(c, x, kv, ids, tokens, cache, slot) ==
    LET Part(acc, p) == EncodePiece(c, x, p, GroupIndices(c, ids)[p.group], tokens[p.group], cache, acc)
    IN  FoldLeft(Part, [off |-> 0, s |-> slot], x.layout.parts[kv])

\* The encoder of the ANS codec: the bytes in the front of arena A.
AnsEncode(src, n) ==
    [i \in 1 .. n |-> IF i = 1 THEN <<Val("ans", src, <<n>>, 0), 3>> ELSE <<Val("ans", << >>, <<n>>, i), 3>>]
AnsDecode(bytes, u8) ==
    IF bytes # << >> /\ bytes[1][2] = 3 /\ bytes = AnsEncode(bytes[1][1][2], Len(bytes))
       /\ Len(bytes[1][1][2]) = u8
    THEN bytes[1][1][2] ELSE Fill(<<Junk, 0>>, u8)

ClearedMutant(L, u8, aux, slot) == slot
\* encode() clears what a short chunk leaves unused of the payload.
Cleared(L, u8, aux, slot) ==
    [slot EXCEPT !.b = Put(@, L.u8base, Fill(ZeroByte, u8)), !.aux = Put(@, 0, Fill(ZeroByte, aux))]

\* The codec, or a copy, takes the payload to the front of arena A; n is the
\* size the codec happens to produce.
Encoded(c, L, kv, tokens, u8, n, parts) ==
    LET payload == Read(parts.b, L.u8base, u8)
        coded == u8 > 0 /\ "codec" \in c.stages
    IN  [slot |-> [parts EXCEPT !.a = Put(@, 0, IF coded THEN AnsEncode(payload, n) ELSE payload)],
         u8 |-> u8, codec |-> IF coded THEN n ELSE u8, tail |-> RawTailBytes(L, kv, tokens)]
=============================================================================
