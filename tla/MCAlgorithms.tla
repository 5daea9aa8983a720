---------------------------- MODULE MCAlgorithms ----------------------------
(***************************************************************************)
(* Bounded inputs for the parts of the program that compute: a behaviour    *)
(* picks one input of one algorithm, runs one compressed session, or runs   *)
(* the allocator of nvCOMP's workspace.                                     *)
(***************************************************************************)
EXTENDS MCCompressionRuntime, WorkspaceAllocator

Store == INSTANCE StoreLookup
Layout == INSTANCE StoreLayout
Raw == INSTANCE TransferPlan WITH MaxDescriptors <- 2, MaxBytes <- 3
Adapter == INSTANCE KVAdapter
Control == INSTANCE OnlineController WITH Grain <- 256, Ttl <- 2

VARIABLE input

\* Two runtimes of one stream; a pool of five units and one of a single unit.
MCOwner == [s \in Stream |-> IF s = "s1" THEN "r1" ELSE "r2"]
MCPoolBytes == [s \in Stream |-> IF s = "s1" THEN 10 ELSE 2]

-----------------------------------------------------------------------------
\* Lookups: up to four full blocks; a window of two blocks; a hybrid with a
\* recurrent group whose blocks hold two hashes.
Full(bs, e) == [kind |-> "full", bs |-> bs, win |-> 0, eagle |-> e]
Swa(bs, w, e) == [kind |-> "swa", bs |-> bs, win |-> w, eagle |-> e]
Mamba(bs) == [kind |-> "mamba", bs |-> bs, win |-> 0, eagle |-> FALSE]

LookupConfigs ==
    {[groups |-> <<Full(1, e)>>, hb |-> 1, lcm |-> 1, useEagle |-> u] : e, u \in BOOLEAN}
    \cup {[groups |-> <<Swa(1, 3, e), Full(1, f)>>, hb |-> 1, lcm |-> 1, useEagle |-> TRUE] :
             e, f \in BOOLEAN}
    \cup UNION {{[groups |-> <<Swa(1, 3, FALSE), Full(1, FALSE)>>, hb |-> 1, lcm |-> 1, useEagle |-> FALSE],
                 [groups |-> <<Full(1, FALSE), Swa(1, 3, FALSE), Swa(2, 3, FALSE)>>, hb |-> 1, lcm |-> 2,
                  useEagle |-> u],
                 [groups |-> <<Full(2, FALSE), Mamba(2)>>, hb |-> 1, lcm |-> 2, useEagle |-> u],
                 [groups |-> <<Swa(1, 2, FALSE), Swa(1, 3, FALSE)>>, hb |-> 1, lcm |-> 1, useEagle |-> u]} :
                u \in BOOLEAN}

\* A store never holds a boundary that is no chunk end, except for the tails
\* that fine-grained groups put.
Storable(cf) ==
    {gb \in Store!Group(cf) \X (1 .. 4) : gb[2] % cf.hb = 0 /\
        (Store!PartialHashHits(cf) \/ gb[2] % Store!Bs(cf, gb[1]) = 0)}

PickLookup ==
    \E cf \in LookupConfigs, n \in 3 .. 5 :
        \E has \in SUBSET Storable(cf) :
            input' = [kind |-> "lookup", c |-> cf, has |-> has, n |-> n]

\* Every key a load reads was in the store when the lookup found the hit
\* (lookup, _handle_request), for every number of tokens the engine has cached
\* itself; every chunk the groups populate behind them is read; and a token of
\* the request is left to compute.  Without a speculative drop the passes over
\* the groups (_find_hit_blocks) find exactly the longest prefix that all of
\* them can reuse; with it at most that.
LookupLoadable ==
    input.kind = "lookup" =>
        \A r \in {Store!Lookup(input.c, input.has, input.n, input.n \div input.c.hb)},
           ref \in {Store!ReferenceHit(input.c, input.has, input.n)} :
            /\ r.hit < input.n
            /\ r.hit <= ref
            /\ (\A g \in Store!Group(input.c) : ~ Store!SpecGroup(input.c, g).eagle) => r.hit = ref
            /\ \A cached \in 0 .. (r.hit - 1) :
                  \A plan \in {Store!LoadPlan(input.c, r, cached)} :
                     /\ plan # {}
                     /\ \A p \in plan : <<p[1], p[3]>> \in input.has
                     /\ \A g \in Store!Group(input.c) :
                           \A k \in Store!Populated(Store!SpecGroup(input.c, g), r.hit) :
                               k * Store!Bs(input.c, g) >= cached =>
                                  \E p \in plan : p[1] = g /\ p[2] = k

-----------------------------------------------------------------------------
Engines ==
    {[tp |-> tp, heads |-> h, layout |-> l, bs |-> 2, storeTp |-> s, lcm |-> m] :
        tp \in {1, 2, 4}, h \in {1, 2, 4}, l \in {"LBHNC", "LBNHC", "BLNHC"},
        s \in {0, 2, 4}, m \in {{}, {1, 2}}}

PickEngines ==
    \E e, f \in Engines :
        /\ e.heads = f.heads
        /\ input' = [kind |-> "engines", e |-> e, f |-> f]

\* Caches of two blocks: a storage per layer, layers interleaved in one storage,
\* keys and values in two halves of it, and heads in planes of their own.
View(storage, len, ptr, stride, dense) ==
    [storage |-> storage, len |-> len, ptr |-> storage + ptr, stride |-> stride, dense |-> dense,
     heads |-> 2, headStride |-> 2 * stride]
ViewLists == {<<View(0, 8, 0, 4, TRUE), View(100, 4, 0, 2, TRUE)>>,
              <<View(0, 8, 0, 4, TRUE), View(0, 8, 2, 4, TRUE)>>,
              <<View(0, 16, 0, 4, TRUE), View(0, 16, 8, 4, TRUE)>>,
              <<View(0, 16, 0, 4, FALSE)>>,
              <<View(0, 4, 0, 2, TRUE), View(100, 32, 0, 4, FALSE), View(100, 32, 16, 4, FALSE)>>}
PickViews == \E views \in ViewLists : input' = [kind |-> "views", views |-> views]

\* Engines of different TP sizes and cache layouts that share a namespace mean
\* the same cells in the same order by the same key (_select_store_layout,
\* prepare_values), and a rank's objects are all of its block; of the ranks that
\* hold the same bytes exactly one puts a chunk and together they put what a
\* lookup asks for; and the transfers of two blocks touch no common byte.
SharedNamespaces ==
    /\ input.kind = "engines" =>
          /\ Layout!SameKeySameCells(input.e, input.f)
          /\ Layout!BlockCovered(input.e)
          /\ Layout!StripedOnce(input.e)
    /\ input.kind = "views" => Layout!BlocksApart(input.views, 2)

-----------------------------------------------------------------------------
\* Raw transfers between engines of different sizes: a dense or head-wise cache,
\* a hybrid model, layers without a cache, groups numbered differently on the two
\* sides, kernel blocks smaller than a block, and block tables that are equal,
\* partly cached on D, behind a window, or too short.
Tables ==
    {<< <<1, 2, 3>>, <<4, 5>>, <<0, 2>>, <<3>> >>,
     << <<3, 1, 2>>, <<1, 2, 4>>, <<0, 2>>, <<0, 3>> >>,
     << <<1, 2, 3>>, <<>>, <<0, 2>>, <<>> >>,
     << <<1>>, <<4, 5>>, <<1, 2>>, <<2>> >>}
Models == {[layers |-> <<1, 1>>, rgroups |-> <<1>>, kinds |-> <<"full">>],
           [layers |-> <<1, 0, 0, 1>>, rgroups |-> <<1>>, kinds |-> <<"full">>],
           [layers |-> <<1, 2>>, rgroups |-> <<1, 2>>, kinds |-> <<"full", "mamba">>],
           [layers |-> <<1, 2>>, rgroups |-> <<2, 1>>, kinds |-> <<"full", "mamba">>]}
Setup(tps, h, pps, m, rp, t) ==
    [tp |-> tps[1], rtp |-> tps[2], heads |-> h[1], mla |-> h[2], pp |-> pps[1], rpp |-> pps[2],
     layers |-> m.layers, rgroups |-> m.rgroups, kinds |-> m.kinds,
     ratio |-> rp[1], pad |-> rp[2], dense |-> rp[3],
     local |-> IF Len(m.kinds) = 2 THEN <<t[1], t[3]>> ELSE <<t[1]>>,
     remote |-> IF Len(m.kinds) = 2 THEN <<t[2], t[4]>> ELSE <<t[2]>>]
PickRaw ==
    \E tps \in {<<1, 1>>, <<1, 2>>, <<2, 1>>, <<2, 2>>, <<4, 1>>, <<4, 2>>, <<2, 4>>},
       h \in {<<2, FALSE>>, <<2, TRUE>>, <<4, FALSE>>},
       pps \in {<<1, 1>>, <<2, 2>>, <<2, 1>>}, m \in Models,
       rp \in {<<1, 0, TRUE>>, <<1, 1, TRUE>>, <<2, 0, TRUE>>, <<1, 1, FALSE>>, <<2, 0, FALSE>>},
       t \in Tables :
           input' = [kind |-> "raw", setup |-> Setup(tps, h, pps, m, rp, t)]

\* Every byte of a decode worker's blocks of the request is written once, from
\* the place of the prefill engine's cache that holds it, whatever sizes the two
\* engines have (_build_transfer_params, get_sender_transfer_plan); batches keep
\* to the transfer engine's limits; and engines of one shape are never refused
\* as long as P has the blocks.
TransferExact ==
    input.kind = "raw" =>
        LET s == input.setup
        IN  \A d \in (0 .. (s.rtp - 1)) \X (0 .. (s.rpp - 1)) :
               /\ Raw!BatchesBounded(s, d)
               /\ (~ Raw!Refused(s, d) /\ Raw!OneSenderEnough(s)) => Raw!CopiesExact(s, d)
               /\ (Raw!OneShape(s) /\ ~ Raw!BlocksMissing(s)) => ~ Raw!Refused(s, d)

-----------------------------------------------------------------------------
\* The KV adapter: three layers of two heads on one of two ranks.
AdapterBase ==
    [layers |-> 3, blocks |-> 1, slots |-> 2, heads |-> 2, pipeline |-> {}, fused |-> FALSE,
     split |-> "head", axis |-> <<"channel", "token">>,
     low |-> {<<1, 2>>, <<2, 1>>, <<2, 2>>, <<3, 4>>}, lowLayers |-> 1, tpRank |-> 0,
     layout |-> "permuted", codecFails |-> {}, compressFails |-> {}, decompressFails |-> {}, minSize |-> 0,
     chunkThreshold |-> 40, chunkLayers |-> 2, maxChunk |-> 7]
Pipelines == {{}, {"codec"}, {"quantizer"}, {"transformer"}, {"quantizer", "codec"},
              {"transformer", "quantizer", "codec"}}
\* What fails: nothing, the codec, a step on the way in, one on the way out.
Failures == {<<{}, {}, {}>>, <<{2}, {}, {}>>, <<{}, {2}, {}>>, <<{2}, {}, {3}>>}
PickAdapter ==
    \E l \in 1 .. 3, p \in Pipelines, s \in {"head", "layer"},
       a \in {<<"channel", "token">>, <<"tensor", "channel">>}, y \in {"permuted", "native"},
       t \in 0 .. 1, f \in Failures, u \in BOOLEAN, m \in {0, 20} :
           input' = [kind |-> "adapter",
                     setup |-> [AdapterBase EXCEPT
                        !.layers = l, !.pipeline = p, !.split = s, !.axis = a, !.layout = y, !.tpRank = t,
                        !.codecFails = f[1], !.compressFails = f[2], !.decompressFails = f[3],
                        !.fused = (u /\ "transformer" \notin p), !.minSize = m]]

PickSymbols ==
    \E bits \in 1 .. 8 : \E n \in 0 .. 5 :
        \E source \in [1 .. n -> {0, 1, 2 ^ bits - 1}] :
            input' = [kind |-> "symbols", bits |-> bits, source |-> source]

\* compress, build_wire, restore_from_wire and decompress of the adapter give
\* every element back in its place, although some chunks are sent without the
\* codec, and an exception loses the payload rather than a part of it; bit-packed
\* symbols of any width come back from their bytes.
AdapterRoundTrip ==
    /\ input.kind = "adapter" => Adapter!AdapterExact(input.setup)
    /\ input.kind = "symbols" => Adapter!BitPackExact(input.source, input.bits)

-----------------------------------------------------------------------------
\* The online controller: two accuracy buckets, three profiles, and a service with
\* a loose or a tight SLO.  One tick is as long as the limit of a context, the
\* other longer.
Library ==
    [buckets |-> <<[id |-> 0, acc |-> <<80, 90>>,
                    intervals |-> <<[id |-> 0, lo |-> 4, hi |-> 16, candidates |-> <<"a">>]>>],
                   [id |-> 1, acc |-> <<90, 95>>,
                    intervals |-> <<[id |-> 0, lo |-> 4, hi |-> 16, candidates |-> <<"b", "x">>],
                                    [id |-> 1, lo |-> 1, hi |-> 4,
                                     candidates |-> <<"a", "b", "c">>]>>]>>,
     profiles |-> [id \in {"a", "c", "b"} |->
                      IF id = "a" THEN [cr |-> 2, S |-> 8]
                      ELSE IF id = "c" THEN [cr |-> 4, S |-> 4] ELSE [cr |-> 4, S |-> 6]]]
Service(slo) == [acc |-> 92, B |-> 2, V |-> 24, model |-> 1, slo |-> slo]
Events ==
    {[op |-> "save", r |-> "r1", pick |-> n, seen |-> o] : n \in {0, 2}, o \in {36, 60, Control!Nothing}}
    \cup {[op |-> "save", r |-> "r2", pick |-> 0, seen |-> o] : o \in {36, Control!Nothing}}
    \cup {[op |-> "tick", n |-> n] : n \in {2, 3}}
PickEvents ==
    \E slo \in {40, 56}, n \in 0 .. 4 : \E events \in [1 .. n -> Events] :
        input' = [kind |-> "events", svc |-> Service(slo), events |-> events]

\* Every observed latency is charged once, to the profile its own save chose,
\* whatever failed saves of the request and evictions came before it (compress,
\* update, _evict_stale_contexts); the residual of a profile is the weighted
\* average of its own observations; every decision is counted once; a context is
\* kept for an unobserved decision only, and for no longer than the limit.
ControllerLearns ==
    input.kind = "events" => Control!ControllerLearns(Library, input.svc, input.events)

-----------------------------------------------------------------------------
Kind(k) == input = [kind |-> k]
RuntimeIdle == /\ c = 0 /\ x = 0 /\ pslot = 0 /\ dslot = 0 /\ dcache = 0 /\ msg = 0
               /\ next = 0 /\ phase = "idle"

MCInit ==
    /\ AllocatorInit
    /\ \/ RuntimeIdle /\ \E k \in {"pick lookup", "pick engines", "pick raw", "pick adapter",
                                   "pick events", "allocator"} : Kind(k)
       \/ Kind("runtime") /\ RuntimeInit

Pick ==
    /\ \/ Kind("pick lookup") /\ PickLookup
       \/ Kind("pick engines") /\ (PickEngines \/ PickViews)
       \/ Kind("pick raw") /\ PickRaw
       \/ Kind("pick adapter") /\ (PickAdapter \/ PickSymbols)
       \/ Kind("pick events") /\ PickEvents
    /\ UNCHANGED <<runtimeVars, allocVars>>
RunAllocator == Kind("allocator") /\ AllocatorNext /\ UNCHANGED <<runtimeVars, input>>
RunRuntime == Kind("runtime") /\ RuntimeNext /\ UNCHANGED <<allocVars, input>>

MCNext == Pick \/ RunAllocator \/ RunRuntime
MCSpec == MCInit /\ [][MCNext]_<<runtimeVars, allocVars, input>>
=============================================================================
