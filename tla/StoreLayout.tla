---------------------------- MODULE StoreLayout ----------------------------
(***************************************************************************)
(* How the Mooncake store connector names and lays out the objects it puts: *)
(* StoreLayout and its subclasses in store/data.py, and the selection of a  *)
(* layout, its namespace and the key prefixes in store/worker.py.           *)
(*                                                                          *)
(* An engine e has tp ranks, heads KV heads, a cache layout, bs tokens per  *)
(* block, and a request for a store layout that engines of other sizes can  *)
(* share: None, a store_tp_size, or the set of prefill_tp_sizes.  A cell is *)
(* the content of one head for one token: <<token, head>>.  Namespaces and  *)
(* keys are tuples of what the strings are formatted from.                  *)
(***************************************************************************)
EXTENDS Integers, Sequences, FiniteSets, FiniteSetsExt, SequencesExt

None == "none"

-----------------------------------------------------------------------------
\* Selecting a layout

LcmOf(S) == Min({n \in 1 .. (ProductSet(S)) : \A x \in S : n % x = 0})

\* resolve_store_tp_size
ResolveStoreTpSize(e) == IF e.lcm # {} THEN LcmOf(e.lcm) ELSE e.storeTp

\* _spec_tp_replication_factor for an attention group
ReplicationFactor(e) == Max({1, e.tp \div e.heads})

TpSharded(e) ==
    LET s == ResolveStoreTpSize(e)
    IN  /\ s >= e.tp /\ s % e.tp = 0
        /\ e.layout \in {"LBHNC", "LBNHC"}

\* Mutation: the namespace of the shared layout does not name the cache layout.
SelectStoreLayoutMutant(e) ==
    LET s == ResolveStoreTpSize(e)
    IN  IF TpSharded(e) /\ e.heads % s = 0
        THEN [storeTp |-> s, ns |-> <<"store_tp", s>>]
        ELSE [storeTp |-> 0, ns |-> <<"rank_local", e.tp, e.layout>>]

\* _select_store_layout: the number of shards (0: rank-local objects) and the
\* namespace of the keys.
SelectStoreLayout(e) ==
    LET s == ResolveStoreTpSize(e)
    IN  IF e.lcm = {} /\ e.storeTp = 0
        THEN [storeTp |-> 0, ns |-> <<>>]
        ELSE IF TpSharded(e) /\ e.heads % s = 0
        THEN [storeTp |-> s, ns |-> <<"store_tp", s, "tp_shared", e.layout>>]
        ELSE IF TpSharded(e) /\ e.heads = 1
        THEN [storeTp |-> 0, ns |-> <<"tp_shared_mqa">>]
        ELSE [storeTp |-> 0, ns |-> <<"rank_local", e.tp, e.layout>>]

Sharded(e) == SelectStoreLayout(e).storeTp > 0

\* TPShardedStoreLayout.__init__
ShardsPerRank(e) == SelectStoreLayout(e).storeTp \div e.tp
LocalHeads(e) == Max({1, e.heads \div e.tp})
HeadsPerStoreShard(e) == e.heads \div SelectStoreLayout(e).storeTp

LocalShardIds(e, rank) ==
    IF Sharded(e)
    THEN (rank * ShardsPerRank(e)) .. ((rank + 1) * ShardsPerRank(e) - 1)
    ELSE {0}

\* key_for with the prefix that _build_token_databases gives the layout: shards
\* are keyed by their number, rank-local objects by the group's rank.
KeyRank(e, rank, shard) == IF Sharded(e) THEN shard ELSE rank \div ReplicationFactor(e)
KeyFor(e, rank, shard) == <<SelectStoreLayout(e).ns, KeyRank(e, rank, shard)>>

\* _init_lookup_key_prefixes and lookup_key_prefixes
LookupKeys(e) ==
    LET n == IF Sharded(e) THEN SelectStoreLayout(e).storeTp
             ELSE e.tp \div ReplicationFactor(e)
    IN  {<<SelectStoreLayout(e).ns, r>> : r \in 0 .. (n - 1)}

\* The ranks of e that put chunk k of group g, with _handle_request's stride.
PutStepRank(e, rank, g) == (rank + g) % ReplicationFactor(e)

PuttersOf(e, g, k) ==
    {rank \in 0 .. (e.tp - 1) : k % ReplicationFactor(e) = PutStepRank(e, rank, g)}

-----------------------------------------------------------------------------
\* The memory of a block: cell number to cell.  Head-major for LBHNC.

FirstHead(e, rank) == IF e.heads >= e.tp THEN rank * LocalHeads(e)
                      ELSE rank \div ReplicationFactor(e)

CellAt(e, rank, off) ==
    IF e.layout = "LBNHC"
    THEN <<off \div LocalHeads(e), FirstHead(e, rank) + (off % LocalHeads(e))>>
    ELSE <<off % e.bs, FirstHead(e, rank) + (off \div e.bs)>>

\* _shard_segments of the two layouts as <<offset, size>> in cells
ShardSegmentsLBHNC(e, headStart) == << <<headStart * e.bs, HeadsPerStoreShard(e) * e.bs>> >>

ShardSegmentsLBNHC(e, headStart) ==
    [t \in 1 .. e.bs |-> <<(t - 1) * LocalHeads(e) + headStart, HeadsPerStoreShard(e)>>]

\* register_kv_caches: the segments of a local shard
SegmentsFrom(e, headStart) ==
    IF e.layout = "LBHNC" THEN ShardSegmentsLBHNC(e, headStart) ELSE ShardSegmentsLBNHC(e, headStart)
Segments(e, localShard) == SegmentsFrom(e, localShard * HeadsPerStoreShard(e))

\* prepare_values: the cells an object is gathered from, in order.
ObjectSegments(e, rank, shard) ==
    IF Sharded(e) THEN Segments(e, shard - Min(LocalShardIds(e, rank)))
    ELSE << <<0, e.bs * LocalHeads(e)>> >>
CellNumbers(segs) ==
    FlattenSeq([i \in DOMAIN segs |-> [j \in 1 .. segs[i][2] |-> segs[i][1] + j - 1]])
CellsAt(e, rank, numbers) == [i \in DOMAIN numbers |-> CellAt(e, rank, numbers[i])]
Gathered(e, rank, shard) == CellsAt(e, rank, CellNumbers(ObjectSegments(e, rank, shard)))

-----------------------------------------------------------------------------
\* Rank-local registration: kv_caches is a sequence of views
\* [storage, len, ptr, stride, dense, heads, headStride].  A view whose blocks
\* are not dense has one region per head; one that spans its storage is taken as
\* the storage, so layers that share a storage are registered once.

RegionsOf(v, numBlocks) ==
    IF ~ v.dense
    THEN [h \in 1 .. v.heads |-> <<v.ptr + (h - 1) * v.headStride, v.stride>>]
    ELSE IF v.stride * numBlocks = v.len
    THEN << <<v.storage, v.len \div numBlocks>> >>
    ELSE << <<v.ptr, v.stride>> >>

RegisterKvCaches(views, numBlocks) ==
    FoldLeft(LAMBDA acc, r : IF \E i \in DOMAIN acc : acc[i][1] = r[1] THEN acc
                             ELSE Append(acc, r),
             <<>>, FlattenSeq([i \in DOMAIN views |-> RegionsOf(views[i], numBlocks)]))

\* prepare_values for whole blocks: <<address, size>> of every region of block b
PrepareValue(regions, b) ==
    {<<regions[i][1] + b * regions[i][2], regions[i][2]>> : i \in DOMAIN regions}

-----------------------------------------------------------------------------
\* Properties

\* Engines of different TP sizes and cache layouts that share a namespace mean
\* the same cells in the same order by the same key, whichever of them puts the
\* object and whichever gets it.
SameKeySameCells(e, f) ==
    e.heads = f.heads /\ e.bs = f.bs /\ SelectStoreLayout(e).ns # <<>> =>
        \A r \in 0 .. (e.tp - 1), q \in 0 .. (f.tp - 1) :
            \A s \in LocalShardIds(e, r), z \in LocalShardIds(f, q) :
                KeyFor(e, r, s) = KeyFor(f, q, z) => Gathered(e, r, s) = Gathered(f, q, z)

\* The objects of a rank are made of every cell of its block, once.
BlockCovered(e) ==
    \A r \in 0 .. (e.tp - 1), n \in {e.bs * LocalHeads(e)} :
        \A cells \in {FlattenSeq(SetToSeq({Gathered(e, r, s) : s \in LocalShardIds(e, r)}))} :
            Len(cells) = n /\ ToSet(cells) = {CellAt(e, r, off) : off \in 0 .. (n - 1)}

\* Of the ranks that hold the same bytes exactly one puts a chunk, and what they
\* put together is exactly what a lookup asks for, whatever the group's phase.
StripedOnce(e) ==
    \A g \in 0 .. 1, k \in 0 .. 3 :
        /\ UNION {{KeyFor(e, r, s) : s \in LocalShardIds(e, r)} : r \in PuttersOf(e, g, k)}
              = LookupKeys(e)
        /\ \A r, q \in PuttersOf(e, g, k) :
              r # q => {KeyFor(e, r, s) : s \in LocalShardIds(e, r)}
                       \cap {KeyFor(e, q, s) : s \in LocalShardIds(e, q)} = {}

\* The transfers of two blocks touch no common byte and stay in their storage.
BlocksApart(views, numBlocks) ==
    LET regions == RegisterKvCaches(views, numBlocks)
        Bytes(b) == UNION {as[1] .. (as[1] + as[2] - 1) : as \in PrepareValue(regions, b)}
    IN  \A b \in 0 .. (numBlocks - 1) :
          /\ \A d \in 0 .. (numBlocks - 1) : b # d => Bytes(b) \cap Bytes(d) = {}
          /\ Bytes(b) \subseteq UNION {views[i].storage .. (views[i].storage + views[i].len - 1) :
                                       i \in DOMAIN views}
=============================================================================
