------------------------- MODULE CompressionLayout -------------------------
(* What mooncake/compression computes once, before a chunk is encoded: the  *)
(* low-precision heads (scores.py), the offsets of every layer in the       *)
(* buffers of a slot (layout.py, execution.py), the bytes to reserve        *)
(* (memory.py) and how the manager cuts its pool (manager.py).  A           *)
(* configuration c is a record; layers are named by their index.            *)
EXTENDS Integers, Sequences, FiniteSets, SequencesExt, TLC

CONSTANTS Align,          \* ALIGNMENT
          CodecOverhead,  \* what ANS may add to a buffer it cannot shrink
          CodecWorkspace, \* peak bytes the codec asks its allocator for
          GuardBytes      \* DRIVER_GUARD_BYTES

KVPart == 0 .. 1

RoundUp(n, a) == ((n + a - 1) \div a) * a
MaxOf(S) == CHOOSE x \in S : \A y \in S : x >= y
SumOver(S, f(_)) == LET Add(acc, x) == acc + f(x) IN FoldLeft(Add, 0, SetToSeq(S))
SumSeq(s, f(_)) == SumOver(DOMAIN s, LAMBDA i : f(s[i]))

\* round(), which goes to the even neighbour from halfway.
Round(n, d) ==
    LET q == n \div d  r == 2 * (n % d)
    IN  IF r > d \/ (r = d /\ q % 2 = 1) THEN q + 1 ELSE q

-----------------------------------------------------------------------------
\* scores.py: the low_count lowest scores over the layers, ties in their order.
Uses(c, stage) == stage \in c.stages /\ "aggregate" \notin c.stages
ScoreOf(c, l, h) == c.scores[l + 1][h + 1]
Width(c) == Len(c.scores[1])

LowHead(c, n, h) ==
    LET Earlier(m, g) ==
            LET a == ScoreOf(c, c.specs[m].index, g)  b == ScoreOf(c, c.specs[n].index, h)
            IN  a < b \/ (a = b /\ m * Width(c) + g < n * Width(c) + h)
        low == Round(Len(c.specs) * Width(c) * c.ratio, 100)
    IN  Cardinality({mg \in (DOMAIN c.specs) \X (0 .. Width(c) - 1) :
                        Earlier(mg[1], mg[2])}) < low

\* The rank's first score column: the scores cover its own heads or all ranks'.
FirstColumn(c, s) == IF Width(c) = s.heads THEN 0 ELSE c.tpRank * s.heads

Identity(n) == [i \in 1 .. n |-> i - 1]

\* Layer index -> the heads in the order they are stored: low ones first.
BuildHeadSelection(c) ==
    LET At(l) == CHOOSE n \in DOMAIN c.specs : c.specs[n].index = l
        Is(l, h) == LowHead(c, At(l), FirstColumn(c, c.specs[At(l)]) + h)
        layers == {c.specs[n].index : n \in DOMAIN c.specs}
    IN  IF c.split = "layer"
        THEN [low |-> [l \in layers |-> 0],
              orders |-> [l \in layers |-> Identity(c.specs[At(l)].heads)]]
        ELSE [low |-> [l \in layers |->
                        Cardinality({h \in 0 .. c.specs[At(l)].heads - 1 : Is(l, h)})],
              orders |-> [l \in layers |->
                  LET all == Identity(c.specs[At(l)].heads)
                  IN  SelectSeq(all, LAMBDA h : Is(l, h)) \o SelectSeq(all, LAMBDA h : ~ Is(l, h))]]

-----------------------------------------------------------------------------
\* layout.py
FaSpecs(c) == SortSeq(c.specs, LAMBDA s, t : s.index < t.index)

ReductionCount(axis, tokens, heads, size) ==
    CASE axis = "channel" -> heads * size
      [] axis = "token"   -> tokens
      [] axis = "tensor"  -> 1

SplitCounts(c, s, low) ==
    LET n == Round(c.layers * 33, 100)
    IN  CASE c.split = "head" -> <<low[s.index], s.heads - low[s.index]>>
          [] c.split = "layer" /\ n > 0 /\ s.index >= c.layers - n -> <<s.heads, 0>>
          [] OTHER -> <<0, s.heads>>

\* The sections of a layer: its low-precision heads, then the others.
SectionsOf(c, s, kv, low) ==
    LET n == SplitCounts(c, s, low)
        Sec(start, count, levels) ==
            [layer |-> s.index, start |-> start, count |-> count, levels |-> levels,
             axis |-> c.axis[kv], size |-> s.size[kv], tokens |-> c.chunk * s.block]
    IN  SelectSeq(<<Sec(0, n[1], c.levels[kv].low), Sec(n[1], n[2], c.levels[kv].high)>>,
                  LAMBDA sec : sec.count > 0)

\* Minimum and scale of every section, at aligned offsets one after the other;
\* Count(sec) is the number of entries of each.
PlaceAux(sections, Count(_)) ==
    LET Place(acc, sec) ==
            LET min == RoundUp(acc.next, Align)
                scale == RoundUp(min + 2 * Count(sec), Align)
            IN  [next |-> scale + 2 * Count(sec),
                 done |-> Append(acc.done, ("min" :> min) @@ ("scale" :> scale) @@ sec)]
    IN  FoldLeft(Place, [next |-> 0, done |-> << >>], sections)

AuxCount(sec) == ReductionCount(sec.axis, sec.tokens, sec.count, sec.size)
WorstAuxCount(sec) == MaxOf({sec.tokens, sec.count * sec.size, 1})

LayerNumel(c, s, kv) == c.chunk * s.block * s.heads * s.size[kv]

LayerPart(c, n, kv, placed) ==
    LET s == FaSpecs(c)[n]
    IN  [layer |-> s.index, kv |-> kv, group |-> 0, block |-> s.block, heads |-> s.heads,
         size |-> s.size[kv],
         u8 |-> SumOver(1 .. n - 1, LAMBDA i : LayerNumel(c, FaSpecs(c)[i], kv)),
         sections |-> SelectSeq(placed, LAMBDA sec : sec.layer = s.index)]

AllSections(c, specs, kv, low) == FlattenSeq([n \in DOMAIN specs |-> SectionsOf(c, specs[n], kv, low)])

LayoutOf(c, specs, secs, stride, raw, u8) ==
    LET packed == IF Uses(c, "quantizer") THEN u8 ELSE raw
        base == RoundUp(2 * stride, Align)
    IN  [parts |-> [kv \in KVPart |->
                      [n \in DOMAIN specs |-> LayerPart(c, n, kv, PlaceAux(secs[kv], AuxCount).done)]],
         raw |-> raw, u8 |-> u8, packed |-> packed,
         aux |-> [kv \in KVPart |-> RoundUp(PlaceAux(secs[kv], AuxCount).next, Align)],
         arena |-> IF "aggregate" \in c.stages THEN RoundUp(MaxOf({raw[0], raw[1]}), Align)
                   ELSE RoundUp(MaxOf({2 * stride, base + packed[0], base + packed[1]}), Align),
         stride |-> stride, u8base |-> base,
         auxArena |-> IF Uses(c, "quantizer")
                      THEN 2 * MaxOf({RoundUp(PlaceAux(secs[kv], WorstAuxCount).next, Align) : kv \in KVPart})
                      ELSE 0,
         groups |-> {0}, aggregate |-> "aggregate" \in c.stages]

LayoutFor(c, low, specs) ==
    LET numel(kv) == SumOver(DOMAIN specs, LAMBDA n : LayerNumel(c, specs[n], kv))
    IN  LayoutOf(c, specs, [kv \in KVPart |-> AllSections(c, specs, kv, low)],
                 RoundUp(2 * MaxOf({LayerNumel(c, specs[n], kv) : n \in DOMAIN specs, kv \in KVPart}), Align),
                 [kv \in KVPart |-> 2 * numel(kv)], [kv \in KVPart |-> numel(kv)])

BuildCompressionLayout(c, low) == LayoutFor(c, low, FaSpecs(c))

RawTailCapacity(L) ==
    IF L.aggregate THEN 0
    ELSE RoundUp(MaxOf({SumSeq(L.parts[kv], LAMBDA p : (p.block - 1) * p.heads * p.size * 2) :
                            kv \in KVPart}), Align)

\* tokens: group -> valid tokens of a chunk.
RawTailBytes(L, kv, tokens) ==
    SumSeq(L.parts[kv], LAMBDA p : (tokens[p.group] % p.block) * p.heads * p.size * 2)

HasBody(L, tokens) == \E n \in DOMAIN L.parts[0] : tokens[L.parts[0][n].group] >= L.parts[0][n].block

-----------------------------------------------------------------------------
\* memory.py: without a quantizer no layer is split by heads.
Effective(c) == IF "quantizer" \in c.stages THEN c ELSE [c EXCEPT !.split = "layer"]

MaxOutput(L) == MaxOf({L.packed[kv] + CodecOverhead : kv \in KVPart})

PlannedAux(c, L) ==
    LET Worst(kv) == SumSeq(L.parts[kv], LAMBDA p :
                        4 * RoundUp(2 * MaxOf({c.chunk * p.block, p.heads * p.size}), Align))
    IN  IF Uses(c, "quantizer") THEN 2 * MaxOf({Worst(0), Worst(1)}) ELSE 0

SignBytes(c, L) ==
    IF ~ Uses(c, "transformer") THEN 0
    ELSE SumOver(KVPart, LAMBDA kv : SumSeq(L.parts[kv], LAMBDA p : RoundUp(p.heads * p.size * 2, Align)))
OrderBytes(L) == SumSeq(L.parts[0], LAMBDA p : RoundUp(p.heads * 8, Align))
IndexBytes(c, L) == Len(L.parts[0]) * c.chunk * c.bpl * 8

\* Every slot has its own signs, orders and indices.
MetadataBytesMutant(c, L) == SignBytes(c, L) + OrderBytes(L) + c.slots * RoundUp(IndexBytes(c, L), Align)
MetadataBytes(c, L) == c.slots * (SignBytes(c, L) + OrderBytes(L) + RoundUp(IndexBytes(c, L), Align))

Workspace(c) == IF Uses(c, "codec") THEN c.slots * RoundUp(CodecWorkspace, Align) ELSE 0
PlannedArena(c, L) ==
    IF Uses(c, "codec") THEN RoundUp(MaxOf({L.arena, MaxOutput(L)}), Align) ELSE RoundUp(L.arena, Align)
MemoryPlan(c, sel, layout, slot, metadata) ==
    [layout |-> layout, selection |-> sel, workspace |-> Workspace(c), metadata |-> metadata, slot |-> slot,
     reserved |-> RoundUp(c.slots * slot + Workspace(c) + metadata + GuardBytes, Align)]

SlotSize(L) == 2 * L.arena + L.auxArena + RawTailCapacity(L)
PlanLayout(c, sel, L, layout) == MemoryPlan(c, sel, layout, SlotSize(layout), MetadataBytes(c, L))
PlanSelection(c, sel, L) ==
    PlanLayout(c, sel, L, [L EXCEPT !.arena = PlannedArena(c, L), !.auxArena = PlannedAux(c, L)])
BuildMemoryPlan(c) ==
    LET sel == BuildHeadSelection(Effective(c))
    IN  PlanSelection(c, sel, BuildCompressionLayout(Effective(c), sel.low))

-----------------------------------------------------------------------------
\* manager.py: one pool, cut from the front, every piece at an aligned offset.
Take(offset, bytes) == RoundUp(offset, Align) + bytes

FixedBytes(c, plan) == c.slots * plan.slot + plan.workspace + plan.metadata

SlotPieces(c, plan) ==
    <<plan.layout.arena, IF plan.layout.aggregate THEN 0 ELSE plan.layout.arena,
      plan.layout.auxArena, RawTailCapacity(plan.layout), IndexBytes(c, plan.layout)>>

\* Head orders, and signs for a transformer: the first slot takes all orders
\* first, the others layer by layer.
OrderPiece(p) == <<p.heads * 8>>
SignPiece(c, p) == IF Uses(c, "transformer") THEN <<p.heads * p.size * 2>> ELSE << >>
FirstMetadata(c, L) ==
    FlattenSeq([n \in DOMAIN L.parts[0] |-> OrderPiece(L.parts[0][n])])
    \o FlattenSeq([n \in DOMAIN L.parts[0] |-> SignPiece(c, L.parts[0][n]) \o SignPiece(c, L.parts[1][n])])
SlotMetadata(c, L) ==
    FlattenSeq([n \in DOMAIN L.parts[0] |->
        OrderPiece(L.parts[0][n]) \o SignPiece(c, L.parts[0][n]) \o SignPiece(c, L.parts[1][n])])

PoolEnd(c, plan) ==
    LET Repeat(k, s) == FlattenSeq([i \in 1 .. k |-> s])
        workspaces == IF Uses(c, "codec") THEN Repeat(c.slots, <<plan.workspace \div c.slots>>) ELSE << >>
    IN  FoldLeft(Take, 0, Repeat(c.slots, SlotPieces(c, plan)) \o workspaces
                          \o FirstMetadata(c, plan.layout)
                          \o Repeat(c.slots - 1, SlotMetadata(c, plan.layout)))

\* bind_kv_caches gives every layer its cache group.
Bound(c, L) ==
    LET Group(p) == [p EXCEPT !.group = c.groups[p.layer]]
    IN  [L EXCEPT !.parts = [kv \in KVPart |-> [n \in DOMAIN L.parts[kv] |-> Group(L.parts[kv][n])]],
                  !.groups = {c.groups[L.parts[0][n].layer] : n \in DOMAIN L.parts[0]}]

-----------------------------------------------------------------------------
\* execution.py: the layout is built again for the stages that run, in buffers
\* of the planned sizes.
Executable(L, orders) ==
    [layout |-> L, orders |-> orders,
     identity |-> {l \in DOMAIN orders : orders[l] = Identity(Len(orders[l]))}]
PrepareExecution(c, plan) ==
    LET sel == BuildHeadSelection(Effective(c))
    IN  Executable([Bound(c, BuildCompressionLayout(Effective(c), sel.low))
                       EXCEPT !.arena = plan.layout.arena, !.auxArena = plan.layout.auxArena],
                   sel.orders)

DataBytes(c, L, kv, tokens) ==
    IF L.aggregate
    THEN SumSeq(L.parts[kv], LAMBDA p :
            ((tokens[p.group] + p.block - 1) \div p.block) * p.heads * p.block * p.size * 2)
    ELSE IF ~ HasBody(L, tokens) THEN 0
    ELSE IF "quantizer" \in c.stages THEN L.u8[kv] ELSE L.raw[kv]

AuxBytes(c, L, kv, tokens) ==
    IF HasBody(L, tokens) /\ "quantizer" \in c.stages THEN L.aux[kv] ELSE 0

-----------------------------------------------------------------------------
\* tokens.py: D pulls the last blocks of a prompt; only its last block may be
\* partly filled.
SuffixTokenCounts(num, blocks, sizes) ==
    [g \in DOMAIN sizes |->
        IF blocks[g] = << >> THEN 0
        ELSE num - (((num + sizes[g] - 1) \div sizes[g]) - Len(blocks[g])) * sizes[g]]

ChunkTokenCounts(valid, sizes, start, count) ==
    [g \in DOMAIN sizes |->
        LET left == valid[g] - start * sizes[g]
        IN  IF left < count * sizes[g] THEN left ELSE count * sizes[g]]

\* A chunk id names a window of logical blocks and a half of the cache.
ChunkWindow(id, blocks, chunk) ==
    LET start == (id \div 2) * chunk
    IN  [start |-> start, kv |-> id % 2,
         count |-> IF blocks - start < chunk THEN blocks - start ELSE chunk]
=============================================================================
