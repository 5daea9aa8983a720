---------------------------- MODULE TransferPlan ----------------------------
(***************************************************************************)
(* Which bytes the uncompressed path of the Mooncake connector copies: the  *)
(* regions a worker registers, the prefill workers a decode worker asks,    *)
(* and the descriptors each of those builds, for any tensor and pipeline    *)
(* parallel sizes on the two sides, hybrid models and partial prefix hits.  *)
(*                                                                          *)
(* A setup c has the parallel sizes tp, pp (prefill) and rtp, rpp (decode), *)
(* the model's KV heads, whether it is MLA, its layers as group numbers (0  *)
(* for a layer without a cache spec), the numbers the decode side has for   *)
(* these groups (rgroups), the kind of each group, kernel blocks per block  *)
(* (ratio), unused bytes per block (pad), whether a block is dense, and the *)
(* block tables of one request on the two sides.  A head of a kernel block  *)
(* is one byte.                                                             *)
(***************************************************************************)
EXTENDS Integers, Sequences, SequencesExt, FiniteSets

CONSTANTS MaxDescriptors, MaxBytes     \* _RAW_TRANSFER_MAX_*

NullBlock == 0
StateShards == 4                       \* a recurrent state is split in as many parts
MaxId == 15                            \* bound on the kernel block ids of a setup

-----------------------------------------------------------------------------
\* What a rank has in its cache

\* KV heads of a rank, in order.  More ranks than heads share them.
HeadsOf(c, rank, tp) ==
    LET all == IF c.mla THEN 1 ELSE c.heads
    IN  IF tp <= all THEN [i \in 1 .. (all \div tp) |-> rank * (all \div tp) + i - 1]
                     ELSE <<(rank * all) \div tp>>

\* local_replicates_kv_cache of the transfer topology
Replicated(c, tp) == c.mla \/ tp > c.heads

\* What each byte of a layer's block holds.
Shards(c, layer, rank, tp) ==
    IF c.kinds[c.layers[layer]] = "mamba"
    THEN [i \in 1 .. (StateShards \div tp) |-> rank * (StateShards \div tp) + i - 1]
    ELSE HeadsOf(c, rank, tp)

LayersOf(c, pp, rank) ==
    LET n == Len(c.layers) \div pp
    IN  [i \in 1 .. n |-> rank * n + i]

Base(layer) == 1000 * layer

\* The regions of one layer, none without a cache spec: a block that is not dense
\* is registered head by head.  A block's length does not exceed its stride, as
\* the registration demands; the tail caches of KpoolTailSpec are left out.
RegionsOfLayer(c, layer, rank, tp) ==
    LET shards == Shards(c, layer, rank, tp)
        attention == c.kinds[c.layers[layer]] # "mamba"
        whole == [layer |-> layer, group |-> c.layers[layer], base |-> Base(layer),
                  stride |-> Len(shards) + c.pad,
                  len |-> IF attention THEN Len(shards) ELSE Len(shards) + c.pad]
    IN  IF c.layers[layer] = 0 THEN <<>>
        ELSE IF c.dense \/ ~ attention THEN <<whole>>
        ELSE [h \in DOMAIN shards |->
                 [whole EXCEPT !.base = Base(layer) + 100 * h, !.stride = 1 + c.pad, !.len = 1 + c.pad]]

RegisterKvCaches(c, rank, tp, pp, prank) ==
    FlattenSeq([i \in DOMAIN LayersOf(c, pp, prank) |->
                   RegionsOfLayer(c, LayersOf(c, pp, prank)[i], rank, tp)])

\* _get_transfer_regions and _expand_transfer_regions: the regions a worker has
\* registered, as the other side is told.
Renumbered(c, regions) ==
    [i \in DOMAIN regions |-> [regions[i] EXCEPT !.group = c.rgroups[@]]]
TransferRegions(c, w, side) ==
    IF side = "P" THEN RegisterKvCaches(c, w[1], c.tp, c.pp, w[2])
                  ELSE Renumbered(c, RegisterKvCaches(c, w[1], c.rtp, c.rpp, w[2]))

-----------------------------------------------------------------------------
\* Who asks whom

\* handshake_target_ranks
HandshakeTargetRanks(rank, size, remote) ==
    IF size >= remote THEN {rank \div (size \div remote)}
    ELSE LET ratio == remote \div size IN {rank * ratio + i : i \in 0 .. (ratio - 1)}

\* receive_kv: the pipeline ranks are paired when both sides have as many.
WorkerAddrs(c, w) ==
    LET pps == IF c.rpp = c.pp THEN {w[2]} ELSE 0 .. (c.pp - 1)
    IN  HandshakeTargetRanks(w[1], c.rtp, c.tp) \X pps

-----------------------------------------------------------------------------
\* Checks of send_kv_to_decode

\* _get_tp_ratio
TpRatio(local, remote) ==
    IF local >= remote THEN local \div remote ELSE - (remote \div local)

\* _align_transfer_regions: the k-th region of a layer pairs with the k-th of
\* the same layer on the other side, and both count it to the same group.  (The
\* layer's index, also compared, is part of the name that is matched.)
Occurrence(regions, i) == Cardinality({j \in 1 .. i : regions[j].layer = regions[i].layer})
Partner(local, remote, i) ==
    {j \in DOMAIN remote : remote[j].layer = local[i].layer
                           /\ Occurrence(remote, j) = Occurrence(local, i)}
Aligned(local, remote) ==
    \A i \in DOMAIN local :
        /\ Partner(local, remote, i) # {}
        /\ \A j \in Partner(local, remote, i) : remote[j].group = local[i].group
AlignTransferRegions(local, remote) ==
    [i \in DOMAIN local |-> remote[CHOOSE j \in Partner(local, remote, i) : TRUE]]

\* _validate_asymmetric_region_lengths, as called: without the number of heads.
LengthsValid(c, local, remote) ==
    LET ratio == TpRatio(c.tp, c.rtp)
    IN  \/ Replicated(c, c.tp)
        \/ \A i \in DOMAIN local :
              IF ratio > 0 THEN remote[i].len = local[i].len * ratio
                           ELSE local[i].len = remote[i].len * (- ratio)

-----------------------------------------------------------------------------
\* Descriptors

WithoutNull(c, g, ids) ==
    IF c.kinds[g] = "mamba" THEN SelectSeq(ids, LAMBDA b : b # NullBlock) ELSE ids

\* The last blocks of a longer local table: the decode side has the rest cached.
\* Mutation: its first blocks.
SuffixMutant(s, n) == SubSeq(s, 1, n)
Suffix(s, n) == SubSeq(s, Len(s) - n + 1, Len(s))

\* _logical_to_kernel_block_ids
KernelIds(c, g, ids) ==
    IF c.kinds[g] = "mamba" THEN ids
    ELSE FlattenSeq([i \in DOMAIN ids |-> [k \in 1 .. c.ratio |-> ids[i] * c.ratio + k - 1]])

Remote(c, g) == WithoutNull(c, g, c.remote[g])
BlocksMissing(c) ==
    \E g \in DOMAIN c.kinds : Len(WithoutNull(c, g, c.local[g])) < Len(Remote(c, g))
LocalIds(c, g) == KernelIds(c, g, Suffix(WithoutNull(c, g, c.local[g]), Len(Remote(c, g))))
RemoteIds(c, g) == KernelIds(c, g, Remote(c, g))

\* _compute_sender_transfer_plan, as called
SenderTransferPlan(c, p, d, local, remote) ==
    LET ratio == TpRatio(c.tp, c.rtp)
        plan(send, src, dst, n) == [send |-> send, src |-> src, dst |-> dst, len |-> n]
    IN  IF ratio = 1 THEN plan(TRUE, 0, 0, local.len)
        ELSE IF ratio > 0 THEN
            IF Replicated(c, c.tp) THEN plan(p % ratio = 0, 0, 0, local.len)
                                   ELSE plan(TRUE, 0, (p % ratio) * local.len, local.len)
        ELSE IF Replicated(c, c.tp) THEN plan(TRUE, 0, 0, local.len)
        ELSE plan(TRUE, (d % (- ratio)) * remote.len, 0, remote.len)

PlanFits(plan, local, remote) ==
    plan.send => plan.src + plan.len <= local.len /\ plan.dst + plan.len <= remote.len

\* The first places of runs that are contiguous on both sides, and their length.
RunStarts(lids, rids) ==
    {i \in DOMAIN lids : i = 1 \/ lids[i] # lids[i - 1] + 1 \/ rids[i] # rids[i - 1] + 1}
RunLen(starts, n, i) ==
    LET later == {j \in starts : j > i}
    IN  (IF later = {} THEN n + 1 ELSE CHOOSE j \in later : \A k \in later : j <= k) - i

CanCoalesce(plan, local, remote) ==
    /\ plan.src = 0 /\ plan.dst = 0
    /\ plan.len = local.stride /\ plan.len = remote.stride

RegionDescriptors(plan, local, remote, lids, rids) ==
    LET at(i, n) == [src |-> local.base + lids[i] * local.stride + plan.src,
                     dst |-> remote.base + rids[i] * remote.stride + plan.dst,
                     len |-> plan.len * n]
        starts == RunStarts(lids, rids)
        order == SetToSortSeq(starts, <)
    IN  IF lids = <<>> \/ ~ plan.send THEN <<>>
        ELSE IF CanCoalesce(plan, local, remote)
        THEN [k \in DOMAIN order |-> at(order[k], RunLen(starts, Len(lids), order[k]))]
        ELSE [i \in DOMAIN lids |-> at(i, 1)]

\* _build_transfer_params_sync for one request
BuildTransferParams(c, p, d, local, remote) ==
    FlattenSeq([i \in DOMAIN local |->
        RegionDescriptors(SenderTransferPlan(c, p, d, local[i], remote[i]), local[i], remote[i],
                          LocalIds(c, local[i].group), RemoteIds(c, local[i].group))])

\* _send_blocks cuts the descriptors into batches of the transfer engine.
BatchBytes(batch) == FoldLeft(LAMBDA n, x : n + x.len, 0, batch)
SendBlocks(descs) ==
    FoldLeft(LAMBDA batches, x :
                IF batches = <<>> \/ Len(Last(batches)) >= MaxDescriptors
                                  \/ BatchBytes(Last(batches)) + x.len > MaxBytes
                THEN Append(batches, <<x>>)
                ELSE Front(batches) \o <<Append(Last(batches), x)>>,
             <<>>, descs)

\* send_kv_to_decode of prefill worker p for decode worker d: the batches, or an
\* error response.
Error == [err |-> TRUE, batches |-> <<>>]
Sent(batches) == [err |-> FALSE, batches |-> batches]
Fits(c, p, d, mine, remote) ==
    \A i \in DOMAIN mine :
        LocalIds(c, mine[i].group) # <<>> =>
            PlanFits(SenderTransferPlan(c, p, d, mine[i], remote[i]), mine[i], remote[i])
Asked(c) == \E g \in DOMAIN c.remote : c.remote[g] # <<>>
SendAligned(c, p, d, mine, remote) ==
    IF ~ LengthsValid(c, mine, remote) THEN Error
    ELSE IF ~ Asked(c) THEN Sent(<<>>)
    ELSE IF BlocksMissing(c) \/ ~ Fits(c, p, d, mine, remote) THEN Error
    ELSE Sent(SendBlocks(BuildTransferParams(c, p, d, mine, remote)))
SendRegions(c, p, d, mine, theirs) ==
    IF d \notin HandshakeTargetRanks(p, c.tp, c.rtp) \/ ~ Aligned(mine, theirs) THEN Error
    ELSE SendAligned(c, p, d, mine, AlignTransferRegions(mine, theirs))
SendKvToDecode(c, p, d) ==
    SendRegions(c, p[1], d[1], TransferRegions(c, p, "P"), TransferRegions(c, d, "D"))

-----------------------------------------------------------------------------
\* What the copies do to the decode worker's cache

\* What each address of a worker's cache stands for: layer, block, shard.
CellsOf(c, rank, tp, regions) ==
    LET whole(i) == c.dense \/ c.kinds[regions[i].group] = "mamba"
        shards(i) == Shards(c, regions[i].layer, rank, tp)
    IN  {[layer |-> regions[i].layer, group |-> regions[i].group, id |-> b,
          addr |-> regions[i].base + b * regions[i].stride + o,
          shard |-> shards(i)[IF whole(i) THEN o + 1 ELSE Occurrence(regions, i)]] :
             <<i, b, o>> \in {x \in (DOMAIN regions) \X (0 .. MaxId) \X (0 .. 3) :
                                x[3] < (IF whole(x[1]) THEN Len(shards(x[1])) ELSE 1)}}
Cells(c, w, side) ==
    CellsOf(c, w[1], IF side = "P" THEN c.tp ELSE c.rtp, TransferRegions(c, w, side))

\* One write per byte of every descriptor of every worker that is asked.
Writes(p, descs) ==
    UNION {{[from |-> p, nr |-> k, src |-> descs[k].src + o, dst |-> descs[k].dst + o] :
               o \in 0 .. (descs[k].len - 1)} : k \in DOMAIN descs}
Copies(c, d) ==
    UNION {Writes(p, FlattenSeq(SendKvToDecode(c, p, d).batches)) : p \in WorkerAddrs(c, d)}

\* The two engines have the same parallel sizes and number their groups alike.
OneShape(c) == c.tp = c.rtp /\ c.pp = c.rpp /\ \A g \in DOMAIN c.rgroups : c.rgroups[g] = g
Refused(c, d) == \E p \in WorkerAddrs(c, d) : SendKvToDecode(c, p, d).err

\* The decode worker's cells of the request's blocks, and the prefill block that
\* belongs in one of them: the tables of both sides end with the same block.
Wanted(c, d) ==
    {x \in Cells(c, d, "D") : \E i \in DOMAIN RemoteIds(c, x.group) : RemoteIds(c, x.group)[i] = x.id}
SourceId(c, x) ==
    LET theirs == KernelIds(c, x.group, WithoutNull(c, x.group, c.local[x.group]))
        mine == RemoteIds(c, x.group)
        fromEnd == Len(mine) - (CHOOSE i \in DOMAIN mine : mine[i] = x.id)
    IN  theirs[Len(theirs) - fromEnd]

\* A prefill engine with more ranks than KV heads sends from one rank of those
\* that feed a decode rank, which is all that rank needs only if it has one head
\* and no recurrent state.
OneSenderEnough(c) ==
    Replicated(c, c.tp) /\ c.tp > c.rtp =>
        /\ c.mla \/ c.rtp >= c.heads
        /\ \A g \in DOMAIN c.kinds : c.kinds[g] # "mamba"

\* Every byte of the decode worker's blocks is written once, from the place of
\* the prefill engine's cache that holds it, and no other block is touched.
CopiesExact(c, d) ==
    \A copies \in {Copies(c, d)}, wanted \in {Wanted(c, d)},
       theirs \in {[p \in WorkerAddrs(c, d) |-> Cells(c, p, "P")]} :
        /\ \A x \in wanted :
              /\ Cardinality({y \in copies : y.dst = x.addr}) = 1
              /\ \A y \in copies : y.dst = x.addr =>
                    \E z \in theirs[y.from] :
                        /\ z.addr = y.src /\ z.layer = x.layer /\ z.shard = x.shard
                        /\ z.id = SourceId(c, x)
        /\ \A y \in copies : \A x \in Cells(c, d, "D") : x.addr = y.dst => x \in wanted

BatchesBounded(c, d) ==
    \A p \in WorkerAddrs(c, d) : \A batches \in {SendKvToDecode(c, p, d).batches} :
        \A k \in DOMAIN batches :
            /\ Len(batches[k]) \in 1 .. MaxDescriptors
            /\ BatchBytes(batches[k]) <= MaxBytes \/ Len(batches[k]) = 1
=============================================================================
