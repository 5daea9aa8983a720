----------------------------- MODULE StoreLoad -----------------------------
(***************************************************************************)
(* The load path of the Mooncake store connector: the asynchronous lookup   *)
(* (LookupKeyClient, LookupKeyServer), load specs in store/scheduler.py,    *)
(* the receiving threads of store/worker.py, load errors, and the reset of  *)
(* the store.  Every rank runs Thread receiving threads on one queue.       *)
(*                                                                          *)
(* One KV-cache group with one hash per block, so a block of a request is   *)
(* its number, and all requests have the same prompt.  An object or a block *)
(* holds the KV of the model weights it was computed with (an epoch).  The  *)
(* engine is vLLM's scheduler: it retries a request that gets no blocks,    *)
(* keeps the blocks of a request while its load is out, recomputes from the *)
(* first block that is reported as failed, and is paused around a reset.    *)
(***************************************************************************)
EXTENDS StoreLookup

CONSTANTS
    Req,
    Tokens,       \* blocks of a prompt, the last of which is computed
    LocalHits,    \* how many blocks the engine may have cached itself
    TpSize,
    Thread,       \* receiving threads of a rank
    BatchKeys,    \* keys that fit the staging budget of one sub-batch
    MaxEpoch, MaxPuts, MaxPreempts,
    None

Rank == 0 .. (TpSize - 1)
Block == 1 .. Tokens
Config == [groups |-> << [kind |-> "full", bs |-> 1, win |-> 0, eagle |-> FALSE] >>,
           hb |-> 1, lcm |-> 1, useEagle |-> FALSE]

ASSUME LoadAssumption ==
    /\ Tokens \in Nat \ {0} /\ TpSize \in Nat \ {0} /\ BatchKeys \in Nat \ {0}
    /\ LocalHits \subseteq 0 .. (Tokens - 1)

VARIABLES
    \* engine
    phase,      \* waiting, loading, ready, aborted (load still out), done
    computed,   \* the prefix of blocks the engine takes as computed
    epoch, paused, preempts,
    \* scheduler and its lookup client
    future, loadSpec, unfinished,
    \* ranks
    recvQ, thr, fin, inv, out, sendQ, sends,
    \* reports and memory
    reported, failed, mem, store

engVars == <<phase, computed, epoch, paused, preempts>>
schedVars == <<future, loadSpec, unfinished>>
rankVars == <<recvQ, thr, fin, inv, out>>
putVars == <<sendQ, sends>>
loadVars == <<engVars, schedVars, rankVars, putVars, reported, failed, mem, store>>

Idle == [r |-> None, batches |-> <<>>]

LoadInit ==
    /\ phase = [r \in Req |-> "waiting"]
    /\ computed = [r \in Req |-> 0]
    /\ epoch = 0 /\ paused = FALSE /\ preempts = 0
    /\ future = [r \in Req |-> None]
    /\ loadSpec = [r \in Req |-> None]
    /\ unfinished = {}
    /\ recvQ = [k \in Rank |-> <<>>]
    /\ thr = [k \in Rank |-> [t \in Thread |-> Idle]]
    /\ fin = [k \in Rank |-> [t \in Thread |-> {}]]
    /\ inv = [k \in Rank |-> [t \in Thread |-> {}]]
    /\ out = [k \in Rank |-> None]
    /\ sendQ = [k \in Rank |-> <<>>]
    /\ sends = 0
    /\ reported = [r \in Req |-> {}]
    /\ failed = [r \in Req |-> {}]
    /\ mem = [r \in Req |-> [k \in Rank |-> [b \in Block |-> None]]]
    /\ store = [k \in Rank |-> [b \in Block |-> None]]

-----------------------------------------------------------------------------
\* get_num_new_matched_tokens

\* A block exists when every rank's object does.
Exists == {<<1, b>> : b \in {x \in Block : \A k \in Rank : store[k][x] # None}}

\* client.lookup with non_block: the first call submits, the request is retried.
SubmitLookup(r) ==
    /\ phase[r] = "waiting" /\ ~ paused
    /\ future[r] = None
    /\ future' = [future EXCEPT ![r] = -1]
    /\ UNCHANGED <<engVars, loadSpec, unfinished, rankVars, putVars, reported, failed,
                   mem, store>>

\* The client's executor thread and the server on rank 0 answer one lookup.
ServeLookup(r) ==
    /\ future[r] = -1
    /\ future' = [future EXCEPT ![r] = Lookup(Config, Exists, Tokens, Tokens).hit]
    /\ UNCHANGED <<engVars, loadSpec, unfinished, rankVars, putVars, reported, failed,
                   mem, store>>

\* The lookup raised: the client takes it as no hit.
LookupFails(r) ==
    /\ future[r] = -1
    /\ future' = [future EXCEPT ![r] = 0]
    /\ UNCHANGED <<engVars, loadSpec, unfinished, rankVars, putVars, reported, failed,
                   mem, store>>

\* Mutation: the spec of an earlier lookup is made loadable.
CanLoadMutant(spec, ext) == [spec EXCEPT !.can = TRUE]

\* update_state_after_alloc: a spec without external tokens was left by an
\* earlier call, or by a lookup the engine did not use.
CanLoad(spec, ext) == [spec EXCEPT !.can = ext > 0]

\* The answer is there: the engine asks for its external tokens and, when it
\* gets blocks (alloc), the connector records them.  A hit that the engine has
\* itself leaves the spec of an earlier call in place.
Match(r, cached, alloc) ==
    /\ phase[r] = "waiting" /\ ~ paused
    /\ future[r] \notin {None, -1}
    /\ future' = [future EXCEPT ![r] = None]
    /\ LET ext == IF future[r] < cached THEN 0 ELSE future[r] - cached
           spec == IF ext = 0 THEN loadSpec[r]
                   ELSE [cached |-> cached, pool |-> future[r], can |-> FALSE]
       IN  IF alloc
           THEN /\ loadSpec' = [loadSpec EXCEPT ![r] =
                      IF spec = None THEN None ELSE CanLoad(spec, ext)]
                /\ unfinished' = unfinished \cup {r}
                /\ phase' = [phase EXCEPT ![r] = IF ext > 0 THEN "loading" ELSE "ready"]
                /\ computed' = [computed EXCEPT ![r] = cached + ext]
                /\ mem' = [mem EXCEPT ![r] = [k \in Rank |-> [b \in Block |->
                              IF b <= cached THEN epoch ELSE None]]]
           ELSE /\ loadSpec' = [loadSpec EXCEPT ![r] = spec]
                /\ UNCHANGED <<unfinished, phase, computed, mem>>
    /\ UNCHANGED <<epoch, paused, preempts, rankVars, putVars, reported, failed, store>>

\* build_connector_meta and start_load_kv: the specs of all requests the engine
\* has allocated are taken; those that may load go to every rank's queue.
BuildConnectorMeta ==
    LET taken == {r \in unfinished : loadSpec[r] # None}
        jobs == SetToSeq({[r |-> r, cached |-> loadSpec[r].cached, pool |-> loadSpec[r].pool] :
                             r \in {x \in taken : loadSpec[x].can}})
    IN  /\ taken # {}
        /\ loadSpec' = [r \in Req |-> IF r \in taken THEN None ELSE loadSpec[r]]
        /\ recvQ' = [k \in Rank |-> recvQ[k] \o jobs]
        /\ UNCHANGED <<engVars, future, unfinished, thr, fin, inv, out, putVars, reported,
                       failed, mem, store>>

-----------------------------------------------------------------------------
\* KVCacheStoreRecvingThread._handle_request

RotateList(s, n) == SubSeq(s, n + 1, Len(s)) \o SubSeq(s, 1, n)

\* _split_disk_offload_load_batches: at most BatchKeys keys in a batch
SplitLoadBatches(keys) ==
    [i \in 1 .. Cdiv(Len(keys), BatchKeys) |->
        SubSeq(keys, (i - 1) * BatchKeys + 1, Min({i * BatchKeys, Len(keys)}))]

\* The blocks of a job in the order this rank reads them.
LoadBatches(k, job) ==
    LET n == job.pool - job.cached
        keys == [i \in 1 .. n |-> job.cached + i]
    IN  SplitLoadBatches(RotateList(keys, k % n))

TakeLoad(k, t) ==
    /\ thr[k][t] = Idle /\ recvQ[k] # <<>>
    /\ thr' = [thr EXCEPT ![k][t] = [r |-> Head(recvQ[k]).r,
                                     batches |-> LoadBatches(k, Head(recvQ[k]))]]
    /\ recvQ' = [recvQ EXCEPT ![k] = Tail(@)]
    /\ UNCHANGED <<engVars, schedVars, fin, inv, out, putVars, reported, failed, mem, store>>

\* A load above the staging budget has a key that is larger than the whole
\* budget: nothing is read and every block is reported.
SkipLoad(k, t) ==
    /\ thr[k][t] = Idle /\ recvQ[k] # <<>>
    /\ LET job == Head(recvQ[k])
       IN  /\ job.pool - job.cached > BatchKeys
           /\ inv' = [inv EXCEPT ![k][t] = @ \cup ({job.r} \X (job.cached + 1 .. job.pool))]
           /\ fin' = [fin EXCEPT ![k][t] = @ \cup {job.r}]
    /\ recvQ' = [recvQ EXCEPT ![k] = Tail(@)]
    /\ UNCHANGED <<engVars, schedVars, thr, out, putVars, reported, failed, mem, store>>

Keys(batch) == {batch[i] : i \in DOMAIN batch}

FailedKeys(k, batch) == {b \in Keys(batch) : store[k][b] = None}

\* batch_get_into_multi_buffers on the next sub-batch.  After a failure the
\* remaining sub-batches are not read.
GetBatch(k, t) ==
    LET r == thr[k][t].r
        batch == Head(thr[k][t].batches)
    IN  /\ thr[k][t] # Idle /\ thr[k][t].batches # <<>>
        /\ mem' = [mem EXCEPT ![r][k] = [b \in Block |->
                      IF b \in Keys(batch) /\ store[k][b] # None THEN store[k][b] ELSE @[b]]]
        /\ inv' = [inv EXCEPT ![k][t] = @ \cup ({r} \X FailedKeys(k, batch))]
        /\ thr' = [thr EXCEPT ![k][t].batches =
                      IF FailedKeys(k, batch) = {} THEN Tail(@) ELSE <<>>]
        /\ UNCHANGED <<engVars, schedVars, recvQ, fin, out, putVars, reported, failed, store>>

\* The call raises: whatever of the sub-batch was read, all of it is reported.
GetRaises(k, t) ==
    LET r == thr[k][t].r
        batch == Head(thr[k][t].batches)
    IN  /\ thr[k][t] # Idle /\ thr[k][t].batches # <<>>
        /\ inv' = [inv EXCEPT ![k][t] = @ \cup ({r} \X Keys(batch))]
        /\ thr' = [thr EXCEPT ![k][t].batches = <<>>]
        /\ UNCHANGED <<engVars, schedVars, recvQ, fin, out, putVars, reported, failed, mem,
                       store>>

\* Mutation: a load that failed is reported by its blocks only.
SetFinishedRequestMutant(k, t) ==
    IF \E e \in inv[k][t] : e[1] = thr[k][t].r THEN fin[k][t] ELSE fin[k][t] \cup {thr[k][t].r}

SetFinishedRequest(k, t) == fin[k][t] \cup {thr[k][t].r}

\* The end of _handle_request, reached after a failure too; task_done
FinishLoad(k, t) ==
    /\ thr[k][t] # Idle /\ thr[k][t].batches = <<>>
    /\ fin' = [fin EXCEPT ![k][t] = SetFinishedRequest(k, t)]
    /\ thr' = [thr EXCEPT ![k][t] = Idle]
    /\ UNCHANGED <<engVars, schedVars, recvQ, inv, out, putVars, reported, failed, mem, store>>

-----------------------------------------------------------------------------
\* The worker's step: get_finished, then get_block_ids_with_load_errors

GetFinished(k) ==
    /\ out[k] = None
    /\ \E t \in Thread : fin[k][t] # {} \/ inv[k][t] # {}
    /\ out' = [out EXCEPT ![k] = UNION {fin[k][t] : t \in Thread}]
    /\ fin' = [fin EXCEPT ![k] = [t \in Thread |-> {}]]
    /\ UNCHANGED <<engVars, schedVars, recvQ, thr, inv, putVars, reported, failed, mem, store>>

\* A request all ranks have reported is taken up by the engine, or its blocks
\* are freed when it was aborted meanwhile.
LoadedOn(r, k) == reported[r] \cup (IF r \in out[k] THEN {k} ELSE {})

\* Mutation: only the errors of the last reporting rank count.
FailedOfMutant(r, k) == {e[2] : e \in {x \in UNION {inv[k][t] : t \in Thread} : x[1] = r}}

FailedOf(r, k) ==
    failed[r] \cup {e[2] : e \in {x \in UNION {inv[k][t] : t \in Thread} : x[1] = r}}

GetLoadErrors(k) ==
    /\ out[k] # None
    /\ LET over == {r \in Req : LoadedOn(r, k) = Rank}
       IN  /\ reported' = [r \in Req |-> IF r \in over THEN {} ELSE LoadedOn(r, k)]
           /\ failed' = [r \in Req |-> IF r \in over THEN {} ELSE FailedOf(r, k)]
           /\ phase' = [r \in Req |-> IF r \notin over THEN phase[r]
                                      ELSE IF phase[r] = "loading" THEN "ready" ELSE "done"]
           /\ computed' = [r \in Req |-> IF r \notin over THEN computed[r]
                             ELSE IF FailedOf(r, k) = {} THEN computed[r]
                             ELSE Min(FailedOf(r, k)) - 1]
    /\ inv' = [inv EXCEPT ![k] = [t \in Thread |-> {}]]
    /\ out' = [out EXCEPT ![k] = None]
    /\ UNCHANGED <<epoch, paused, preempts, schedVars, recvQ, thr, fin, putVars, mem, store>>

-----------------------------------------------------------------------------
\* The engine: a request is computed and saved, preempted or aborted.  Saving
\* is StoreSave's subject; here a job puts the blocks a rank does not find.

Compute(r) ==
    /\ phase[r] = "ready" /\ ~ paused
    /\ phase' = [phase EXCEPT ![r] = "done"]
    /\ unfinished' = unfinished \ {r}
    /\ IF sends < MaxPuts
       THEN /\ sends' = sends + 1
            /\ sendQ' = [k \in Rank |-> Append(sendQ[k], epoch)]
       ELSE UNCHANGED <<sends, sendQ>>
    /\ UNCHANGED <<computed, epoch, paused, preempts, future, loadSpec, rankVars, reported,
                   failed, mem, store>>

PutJob(k) ==
    /\ sendQ[k] # <<>>
    /\ sendQ' = [sendQ EXCEPT ![k] = Tail(@)]
    /\ store' = [store EXCEPT ![k] = [b \in Block |-> IF @[b] = None THEN Head(sendQ[k]) ELSE @[b]]]
    /\ UNCHANGED <<engVars, schedVars, rankVars, sends, reported, failed, mem>>

\* The store evicts an object.
Evict(k, b) ==
    /\ store[k][b] # None
    /\ store' = [store EXCEPT ![k][b] = None]
    /\ UNCHANGED <<engVars, schedVars, rankVars, putVars, reported, failed, mem>>

\* What build_connector_meta forgets about a preempted or finished request.
Forget(r) ==
    /\ loadSpec' = [loadSpec EXCEPT ![r] = None]
    /\ unfinished' = unfinished \ {r}

Preempt(r) ==
    /\ phase[r] = "ready" /\ preempts < MaxPreempts /\ ~ paused
    /\ preempts' = preempts + 1
    /\ phase' = [phase EXCEPT ![r] = "waiting"]
    /\ computed' = [computed EXCEPT ![r] = 0]
    /\ Forget(r)
    /\ UNCHANGED <<epoch, paused, future, rankVars, putVars, reported, failed, mem, store>>

\* client.discard: the answer of a lookup that is out is dropped.
Abort(r) ==
    /\ phase[r] \in {"waiting", "loading", "ready"}
    /\ phase[r] = "loading" => loadSpec[r] = None
    /\ phase' = [phase EXCEPT ![r] = IF @ = "loading" THEN "aborted" ELSE "done"]
    /\ future' = [future EXCEPT ![r] = None]
    /\ Forget(r)
    /\ UNCHANGED <<computed, epoch, paused, preempts, rankVars, putVars, reported, failed,
                   mem, store>>

-----------------------------------------------------------------------------
\* reset_cache, reset_store and RESET_MSG.  The caller has paused generation
\* after a weight update, with no lookup and no load in flight.

StartReset ==
    /\ ~ paused /\ epoch < MaxEpoch
    /\ \A r \in Req : phase[r] \in {"waiting", "done"} /\ future[r] = None
    /\ paused' = TRUE
    /\ epoch' = epoch + 1
    /\ loadSpec' = [r \in Req |-> None]
    /\ UNCHANGED <<phase, computed, preempts, future, unfinished, rankVars, putVars, reported,
                   failed, mem, store>>

\* request_queue.join() of rank 0's sending thread
Drained == sendQ[0] = <<>>

RemoveAll ==
    /\ paused /\ Drained
    /\ store' = [k \in Rank |-> [b \in Block |-> None]]
    /\ paused' = FALSE
    /\ UNCHANGED <<phase, computed, epoch, preempts, schedVars, rankVars, putVars, reported,
                   failed, mem>>

-----------------------------------------------------------------------------
RecvThread(k, t) ==
    TakeLoad(k, t) \/ SkipLoad(k, t) \/ GetBatch(k, t) \/ GetRaises(k, t) \/ FinishLoad(k, t)
WorkerStep(k) == GetFinished(k) \/ GetLoadErrors(k)
RankStep(k) == WorkerStep(k) \/ \E t \in Thread : RecvThread(k, t)

LoadNext ==
    \/ \E r \in Req :
          \/ SubmitLookup(r) \/ ServeLookup(r) \/ LookupFails(r)
          \/ \E n \in LocalHits, alloc \in BOOLEAN : Match(r, n, alloc)
          \/ Compute(r) \/ Preempt(r) \/ Abort(r)
    \/ BuildConnectorMeta
    \/ \E k \in Rank :
          \/ RankStep(k) \/ PutJob(k)
          \/ \E b \in Block : Evict(k, b)
    \/ StartReset \/ RemoveAll

\* Fairness: the engine core keeps stepping while requests are unfinished, and
\* a rank that has something to do does some of it: its threads and its worker
\* only ever work off what is queued, so no choice between them starves another.
LoadFairness ==
    /\ WF_loadVars(BuildConnectorMeta)
    /\ \A k \in Rank : WF_loadVars(RankStep(k))

FairLoadSpec == LoadInit /\ [][LoadNext]_loadVars /\ LoadFairness

-----------------------------------------------------------------------------
\* Properties

\* A request that may run has, on every rank, the KV of every block the engine
\* takes as computed, and has it from the current weights.  A block that could
\* not be read, for whatever reason, is behind the first one that was reported,
\* although a thread gives up the rest of a load after one failed sub-batch; and
\* what was still queued to be put when the store was reset does not reappear.
PrefixLoaded ==
    \A r \in Req : phase[r] = "ready" =>
        \A k \in Rank : \A b \in 1 .. computed[r] : mem[r][k][b] = epoch

\* A load is out only for a request that waits for it, so nothing writes into the
\* blocks of a request that runs, and nobody is told twice.
Loading(k) == {recvQ[k][i].r : i \in DOMAIN recvQ[k]}
              \cup ({thr[k][t].r : t \in Thread} \ {None})
              \cup UNION {fin[k][t] : t \in Thread}
LoadsAwaited ==
    \A k \in Rank : \A r \in Loading(k) :
        /\ phase[r] \in {"loading", "aborted"} /\ loadSpec[r] = None
        /\ k \notin reported[r]

\* Every load ends: the request runs, or its blocks are freed.
LoadEnds == \A r \in Req : phase[r] \in {"loading", "aborted"}
                               ~> phase[r] \notin {"loading", "aborted"}
=============================================================================
