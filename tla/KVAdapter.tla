----------------------------- MODULE KVAdapter -----------------------------
(***************************************************************************)
(* The path of a request's KV through kvserve_v1/compression: the adapter,  *)
(* the compression manager with its pipeline and chunks of layers, and the  *)
(* wire format.  What comes out must be what went in, up to quantization.   *)
(*                                                                          *)
(* A tensor is [item, data]: bytes per element and its elements in order.   *)
(* An element is its coordinates at, the layer whose transform it carries   *)
(* (0 for none) and the group whose minimum and scale it was quantized with *)
(* (NoGroup for none); the wrong inverse makes Garbage of it.               *)
(*                                                                          *)
(* A setup c has the layers, blocks, slots, heads of the tensor, the        *)
(* pipeline, the quantizer (fused, split, axis, low heads, tp), the codec   *)
(* layout, the layers the codec fails for, the layers any other step raises *)
(* for on the way in and on the way out, and the limits of manager, wire.   *)
(***************************************************************************)
EXTENDS Integers, Sequences, SequencesExt, FiniteSets

NoGroup == <<0, 0, 0, 0>>
Garbage == [at |-> <<0, 0, 0, 0, 0>>, t |-> 0, g |-> NoGroup]
None == [kind |-> "none"]

Uses(c, stage) == stage \in c.pipeline

\* A layer's elements are in row-major order of [2, B, S, H]; the coordinates
\* of a place, all counted from one.
LayerSize(c) == 2 * c.blocks * c.slots * c.heads
HeadAt(c, k) == ((k - 1) % c.heads) + 1
SlotAt(c, k) == (((k - 1) \div c.heads) % c.slots) + 1
BlockAt(c, k) == (((k - 1) \div (c.heads * c.slots)) % c.blocks) + 1
PartAt(c, k) == ((k - 1) \div (c.heads * c.slots * c.blocks)) + 1
WithHead(c, k, h) == k - HeadAt(c, k) + h

Original(c, l) ==
    [k \in 1 .. LayerSize(c) |->
        [at |-> <<l, PartAt(c, k), BlockAt(c, k), SlotAt(c, k), HeadAt(c, k)>>, t |-> 0, g |-> NoGroup]]
ItemSize == 2                        \* bytes of the cache's dtype

-----------------------------------------------------------------------------
\* Transformer and quantizer of one layer

Transform(l, data) == [k \in DOMAIN data |-> [data[k] EXCEPT !.t = l]]
InverseTransform(l, data) ==
    [k \in DOMAIN data |-> IF data[k].t = l THEN [data[k] EXCEPT !.t = 0] ELSE Garbage]

\* _get_tp_head_scores_mask and layer_scores_mask: the local heads of low
\* precision.
LowHeads(c, l) ==
    IF c.split = "head" THEN {h \in 1 .. c.heads : <<l, c.tpRank * c.heads + h>> \in c.low}
    ELSE IF l > c.layers - c.lowLayers THEN 1 .. c.heads ELSE {}

\* head_split and the concatenation after it: the heads of low precision first.
HeadOrder(c, l) ==
    SetToSortSeq(LowHeads(c, l), <) \o SetToSortSeq((1 .. c.heads) \ LowHeads(c, l), <)

\* The value an element is scaled by: of its head, its token or the whole part.
GroupOf(c, l, k) ==
    <<l, PartAt(c, k), IF HeadAt(c, k) \in LowHeads(c, l) THEN 1 ELSE 2,
      CASE c.axis[PartAt(c, k)] = "channel" -> HeadAt(c, k)
        [] c.axis[PartAt(c, k)] = "token" -> (BlockAt(c, k) - 1) * c.slots + SlotAt(c, k)
        [] OTHER -> 1>>

\* quantize: the reordered codes.  The fused quantizer leaves the heads in place.
QuantizeData(c, l, data) ==
    LET order == HeadOrder(c, l)
        src(k) == IF c.fused THEN k ELSE WithHead(c, k, order[HeadAt(c, k)])
    IN  [k \in DOMAIN data |-> [data[src(k)] EXCEPT !.g = GroupOf(c, l, src(k))]]

\* The parameters of a layer: for keys and values of both precisions a minimum
\* and a scale tensor, none for an empty part; the fused quantizer's value
\* groups also carry their head indices.
PartGroups(c, l, kv, prec) ==
    LET hs == IF prec = 1 THEN LowHeads(c, l) ELSE (1 .. c.heads) \ LowHeads(c, l)
        n == IF hs = {} THEN 0 ELSE IF c.axis[kv] = "channel" THEN Cardinality(hs)
             ELSE IF c.axis[kv] = "token" THEN c.blocks * c.slots ELSE 1
    IN  [i \in 1 .. n |-> <<l, kv, prec,
                            IF c.axis[kv] = "channel" THEN SetToSortSeq(hs, <)[i] ELSE i>>]
Leaf(item, data) == IF data = <<>> THEN None ELSE [kind |-> "tensor", item |-> item, data |-> data]
Leaves(c, kv, gs) ==
    (IF c.fused /\ kv = 2 THEN <<Leaf(4, gs)>> ELSE <<>>) \o <<Leaf(2, gs), Leaf(2, gs)>>
Qparams(c, l) ==
    FlattenSeq([p \in 1 .. 4 |->
        LET kv == IF p \in {1, 3} THEN 1 ELSE 2
        IN  Leaves(c, kv, PartGroups(c, l, kv, IF p <= 2 THEN 2 ELSE 1))])

\* head_reconstruct: the place of a head among the reordered ones
HeadPlace(c, l, h) == CHOOSE i \in 1 .. c.heads : HeadOrder(c, l)[i] = h

\* dequantize with the parameters it is given
DequantizeData(c, l, data, qparams) ==
    LET held == UNION {ToSet(qparams[i].data) : i \in {j \in DOMAIN qparams : qparams[j] # None}}
        from(k) == IF c.fused THEN k
                   ELSE WithHead(c, k, HeadPlace(c, l, HeadAt(c, k)))
    IN  [k \in DOMAIN data |->
            IF data[from(k)].g \in held THEN [data[from(k)] EXCEPT !.g = NoGroup] ELSE Garbage]

-----------------------------------------------------------------------------
\* Compression manager

\* [2, B, S, H] to [2, H, B, S] and back, for one layer
PermutedPlace(c, k) ==
    (((PartAt(c, k) - 1) * c.heads + HeadAt(c, k) - 1) * c.blocks + BlockAt(c, k) - 1) * c.slots + SlotAt(c, k)
ToPermuted(c, data) ==
    [k \in DOMAIN data |-> data[CHOOSE j \in DOMAIN data : PermutedPlace(c, j) = k]]
ToNative(c, data) == [k \in DOMAIN data |-> data[PermutedPlace(c, k)]]

Quantized(c, l, data) == IF Uses(c, "quantizer") THEN QuantizeData(c, l, data) ELSE data
Rotated(c, l, data) == IF Uses(c, "transformer") THEN Transform(l, data) ELSE data
Processed(c, l) == Quantized(c, l, Rotated(c, l, Original(c, l)))

PackLayer(c, data) == IF c.layout = "permuted" THEN ToPermuted(c, data) ELSE data

ElementBytes(x, item) == [i \in 1 .. item |-> [of |-> x, nr |-> i]]
BytesOf(t) == FlattenSeq([k \in DOMAIN t.data |-> ElementBytes(t.data[k], t.item)])
\* view(dtype): whole elements are found again only where they start.
View(bytes, item) ==
    [item |-> item,
     data |-> [k \in 1 .. (Len(bytes) \div item) |->
                  IF \A i \in 1 .. item : bytes[(k - 1) * item + i] =
                        [of |-> bytes[(k - 1) * item + 1].of, nr |-> i]
                  THEN bytes[(k - 1) * item + 1].of ELSE Garbage]]

\* _handle_codec_compression: a codec that fails leaves the plain bytes.
HandleCodecCompression(c, t, last) ==
    IF Uses(c, "codec") /\ last \notin c.codecFails
    THEN [applied |-> TRUE, body |-> [coded |-> TRUE, bytes |-> BytesOf(t)]]
    ELSE [applied |-> FALSE, body |-> [coded |-> FALSE, bytes |-> BytesOf(t)]]

\* Mutation: the codec is undone whenever it is in the pipeline.
DecodesMutant(c, meta) == Uses(c, "codec")
Decodes(c, meta) == Uses(c, "codec") /\ meta.applied

HandleCodecDecompression(c, body, meta) ==
    IF Decodes(c, meta) = body.coded THEN View(body.bytes, meta.item).data
    ELSE [k \in 1 .. (Len(body.bytes) \div meta.item) |-> Garbage]

\* Layers first .. first + n - 1 as one payload with its metadata.
PayloadItem(c) == IF Uses(c, "quantizer") THEN 1 ELSE ItemSize
Payload(c, first, n, out) ==
    [body |-> out.body,
     meta |-> [applied |-> out.applied, item |-> PayloadItem(c), layout |-> c.layout, start |-> first, n |-> n,
               qparams |-> IF Uses(c, "quantizer") THEN [i \in 1 .. n |-> Qparams(c, first + i - 1)]
                           ELSE <<>>]]
CompressLayers(c, first, n) ==
    Payload(c, first, n, HandleCodecCompression(c,
        [item |-> PayloadItem(c),
         data |-> FlattenSeq([i \in 1 .. n |-> PackLayer(c, Processed(c, first + i - 1))])], first + n - 1))

OriginalSize(c) == c.layers * LayerSize(c) * ItemSize

CompressAllLayersChunked(c) ==
    LET chunks == (c.layers + c.chunkLayers - 1) \div c.chunkLayers
        first(i) == (i - 1) * c.chunkLayers + 1
        last(i) == IF first(i) + c.chunkLayers - 1 < c.layers THEN first(i) + c.chunkLayers - 1 ELSE c.layers
    IN  [kind |-> "chunked",
         parts |-> [i \in 1 .. chunks |-> CompressLayers(c, first(i), last(i) - first(i) + 1)]]

\* An exception at any layer loses the whole payload (except ... return None).
Raised(c, layers) == layers \cap (1 .. c.layers) # {}
CompressAllLayers(c) ==
    IF c.pipeline = {} \/ OriginalSize(c) < c.minSize \/ Raised(c, c.compressFails) THEN None
    ELSE IF OriginalSize(c) > c.chunkThreshold THEN CompressAllLayersChunked(c)
    ELSE [kind |-> "single", parts |-> <<CompressLayers(c, 1, c.layers)>>]

\* Decompression of one payload.
LayerId(meta, i) == meta.start + i - 1

DecompressLayers(c, part) ==
    LET size == LayerSize(c)
        all == HandleCodecDecompression(c, part.body, part.meta)
        packed(i) == SubSeq(all, (i - 1) * size + 1, i * size)
        native(i) == IF part.meta.layout = "permuted" THEN ToNative(c, packed(i)) ELSE packed(i)
        real(i) == IF Uses(c, "quantizer")
                   THEN DequantizeData(c, LayerId(part.meta, i), native(i), part.meta.qparams[i]) ELSE native(i)
    IN  FlattenSeq([i \in 1 .. part.meta.n |->
            IF Uses(c, "transformer") THEN InverseTransform(LayerId(part.meta, i), real(i)) ELSE real(i)])

\* decompress_all_layers, its chunked form and the adapter's torch.cat
DecompressAllLayers(c, z) ==
    IF Raised(c, c.decompressFails) THEN None
    ELSE FlattenSeq([i \in DOMAIN z.parts |-> DecompressLayers(c, z.parts[i])])

-----------------------------------------------------------------------------
\* Wire format

Tensors(slots) == SelectSeq(slots, LAMBDA x : x # None)

\* _pack_qparams: a tensor is replaced by its place among the tensors of all
\* payloads.
PackQparams(slots, before) ==
    [i \in DOMAIN slots |->
        IF slots[i] = None THEN 0 ELSE before + Len(Tensors(SubSeq(slots, 1, i)))]
UnpackQparams(packed, aux) == [i \in DOMAIN packed |-> IF packed[i] = 0 THEN None ELSE aux[packed[i]]]

\* _coalesce_aux_tensors
Padding(offset, item) == (- offset) % item
Pad == [of |-> NoGroup, nr |-> 0]
Coalesce(aux) ==
    FoldLeft(LAMBDA acc, t :
                LET pad == Padding(Len(acc.bytes), t.item)
                IN  [bytes |-> acc.bytes \o [i \in 1 .. pad |-> Pad] \o BytesOf(t),
                     layout |-> Append(acc.layout, [offset |-> Len(acc.bytes) + pad,
                                                    nbytes |-> Len(BytesOf(t)), item |-> t.item])],
             [bytes |-> <<>>, layout |-> <<>>], aux)
\* _expand_aux_tensors: a view of a wider type must start at a multiple of it.
ExpandOk(wire) == \A i \in DOMAIN wire.layout : wire.layout[i].offset % wire.layout[i].item = 0
Expand(wire) ==
    [i \in DOMAIN wire.layout |->
        LET e == wire.layout[i]
        IN  [kind |-> "tensor", item |-> e.item,
             data |-> View(SubSeq(wire.bytes, e.offset + 1, e.offset + e.nbytes), e.item).data]]

\* _split_tensor_bytes
SplitBytes(bytes, max) ==
    [i \in 1 .. ((Len(bytes) + max - 1) \div max) |->
        SubSeq(bytes, (i - 1) * max + 1, IF i * max < Len(bytes) THEN i * max ELSE Len(bytes))]

\* All parameters of a payload in a row, and each layer's own again.
Slots(part) == FlattenSeq(part.meta.qparams)
Regroup(slots, shape) ==
    [i \in DOMAIN shape |->
        LET start == FoldLeft(LAMBDA n, q : n + Len(q), 0, SubSeq(shape, 1, i - 1))
        IN  SubSeq(slots, start + 1, start + Len(shape[i]))]

BuildWire(c, z) ==
    LET before(i) == Len(Tensors(FlattenSeq([j \in 1 .. (i - 1) |-> Slots(z.parts[j])])))
        aux == Tensors(FlattenSeq([j \in DOMAIN z.parts |-> Slots(z.parts[j])]))
        body == z.parts[1].body
    IN  [kind |-> z.kind,
         metas |-> [i \in DOMAIN z.parts |-> [meta |-> z.parts[i].meta, coded |-> z.parts[i].body.coded,
                                              packed |-> PackQparams(Slots(z.parts[i]), before(i))]],
         bodies |-> IF z.kind = "chunked" THEN [i \in DOMAIN z.parts |-> z.parts[i].body.bytes]
                    ELSE IF Len(body.bytes) > c.maxChunk THEN SplitBytes(body.bytes, c.maxChunk)
                    ELSE <<body.bytes>>,
         aux |-> Coalesce(aux)]

RestoreFromWire(wire) ==
    LET aux == Expand(wire.aux)
        bytes(i) == IF wire.kind = "chunked" THEN wire.bodies[i] ELSE FlattenSeq(wire.bodies)
    IN  [kind |-> wire.kind,
         parts |-> [i \in DOMAIN wire.metas |->
             [body |-> [coded |-> wire.metas[i].coded, bytes |-> bytes(i)],
              meta |-> [wire.metas[i].meta EXCEPT
                          !.qparams = Regroup(UnpackQparams(wire.metas[i].packed, aux), @)]]]]

-----------------------------------------------------------------------------
\* Bit packing of the codes

CeilDiv(a, b) == (a + b - 1) \div b

\* The byte starts inside symbol first; later symbols fill it up.
PackByte(source, bits, b) ==
    LET first == (b * 8) \div bits
        offset == (b * 8) % bits
        at(i) == IF i < Len(source) THEN source[i + 1] ELSE 0
        more(j) == IF j * bits - offset < 8 THEN at(first + j) * 2 ^ (j * bits - offset) ELSE 0
    IN  (FoldLeft(+, at(first) \div 2 ^ offset, [j \in 1 .. CeilDiv(7, bits) |-> more(j)])) % 256

Straddles(offset, bits) == offset + bits > 8

UnpackSymbol(bytes, bits, i) ==
    LET b == (i * bits) \div 8
        offset == (i * bits) % 8
        hi == IF b + 1 < Len(bytes) /\ Straddles(offset, bits) THEN bytes[b + 2] ELSE 0
    IN  ((bytes[b + 1] + hi * 256) \div 2 ^ offset) % 2 ^ bits

BitPackEncode(source, bits) ==
    [k \in 1 .. CeilDiv(Len(source) * bits, 8) |-> PackByte(source, bits, k - 1)]
BitPackDecode(bytes, bits, n) == [k \in 1 .. n |-> UnpackSymbol(bytes, bits, k - 1)]

-----------------------------------------------------------------------------
\* compress, build_wire, restore_from_wire and decompress give every element
\* back in its place, for each pipeline, layout, split of heads, chunking of
\* layers and of bytes, and codec failures of some chunks.  A payload below the
\* minimum, an empty pipeline and an exception leave no payload at all, and an
\* exception on the way out no tensor: there is nothing in between.
WireExact(c, wire) ==
    /\ ExpandOk(wire.aux)
    /\ DecompressAllLayers(c, RestoreFromWire(wire))
          = IF Raised(c, c.decompressFails) THEN None
            ELSE FlattenSeq([l \in 1 .. c.layers |-> Original(c, l)])
AdapterExact(c) ==
    \A z \in {CompressAllLayers(c)} :
        IF z.kind = "none"
        THEN c.pipeline = {} \/ OriginalSize(c) < c.minSize \/ Raised(c, c.compressFails)
        ELSE WireExact(c, BuildWire(c, z))

\* Symbols of any width come back from their packed form.
BitPackExact(source, bits) == BitPackDecode(BitPackEncode(source, bits), bits, Len(source)) = source
=============================================================================
