----------------------------- MODULE StoreSave -----------------------------
(***************************************************************************)
(* The save path of kvsfuse-vllm0.30.0/mooncake/store: after each engine    *)
(* step MooncakeStoreScheduler hands every rank one store job per request   *)
(* that filled KV blocks, and takes a reference on the GPU blocks the job   *)
(* reads; a KVCacheStoreSendingThread per rank copies the blocks into the   *)
(* shared store under the hash of the tokens before them; the references    *)
(* go back to the block pool once every rank has reported the job.          *)
(*                                                                          *)
(* The engine (vLLM's scheduler, its block pool and the GPU) is external.   *)
(* A step schedules at most one request and may preempt others first.  The  *)
(* role is kv_producer, so decode tokens are not saved; put_step is 1, so   *)
(* every rank has a key namespace of its own: store[w].                     *)
(*                                                                          *)
(* Content is the token prefix it was computed from: a KV block filled up   *)
(* to token n of request r holds Prefix(r, n), and a key is the prefix its  *)
(* hash stands for.  With Hybrid there is a second, mamba "align" group: a  *)
(* request owns one state block, replaced in every step, whose exact block  *)
(* is handed to the connector at a boundary.                                *)
(***************************************************************************)
EXTENDS Integers, Sequences, FiniteSets

LOCAL INSTANCE Functions
LOCAL INSTANCE FiniteSetsExt

CONSTANTS
    Req, Worker,
    Block,         \* GPU block ids, NULL_BLOCK_ID excluded
    Null, None,
    Prompt,        \* Prompt[r]: the tokens of r, a sequence
    BlockSize,     \* tokens of a block; one token per hash block
    StepTokens,    \* how many tokens a step may schedule
    MaxJobs,       \* bound: store jobs emitted
    Hybrid,        \* there is a mamba group
    Sliding,       \* the engine may null blocks that left the window
    SaveFaults     \* "store": calls of the store may fail, "pressure":
                   \* and so may a put for want of space

ASSUME SaveAssumption ==
    /\ BlockSize \in Nat \ {0} /\ StepTokens \subseteq Nat \ {0} /\ MaxJobs \in Nat
    /\ Hybrid \in BOOLEAN /\ Sliding \in BOOLEAN
    /\ Null \notin Block /\ IsFiniteSet(Worker)

JobId == 0 .. MaxJobs - 1

VARIABLES
    \* the engine: what became of a request, its tokens computed or scheduled,
    \* its block table, its state block, reference counts, finished_req_ids
    life, computed, table, state, refs, ended,
    \* GPU memory of a rank and the kernels of the step in flight
    data, gpu,
    \* MooncakeStoreScheduler
    tracker, pinned, nextJob, tails,
    \* the step in flight: its metadata, where each rank is, what it reported
    meta, wpc, report,
    \* KVCacheStoreSendingThread (closing: finished_store_req of the worker)
    queue, ledger, offset, skip, pressure, completed, closing, cur,
    store

engineVars == <<life, computed, table, state, refs, ended>>
schedVars == <<tracker, pinned, nextJob, tails>>
stepVars == <<meta, wpc, report>>
threadVars == <<queue, ledger, offset, skip, pressure, completed, closing, cur>>
vars == <<engineVars, data, gpu, schedVars, stepVars, threadVars, store>>

Prefix(r, n) == SubSeq(Prompt[r], 1, n)
KVKey(r, n) == [grp |-> "kv", p |-> Prefix(r, n)]
StateKey(r, n) == [grp |-> "state", p |-> Prefix(r, n)]
BlockOf(n) == (n + BlockSize - 1) \div BlockSize      \* of the n-th token, from 1
Floor(n) == (n \div BlockSize) * BlockSize
NoKey == [grp |-> "none", p |-> <<>>]

\* A block holding content c can be read as the value of key k.
Covers(c, k) ==
    /\ c.grp = k.grp
    /\ Len(k.p) <= Len(c.p) /\ SubSeq(c.p, 1, Len(k.p)) = k.p
    /\ IF k.grp = "kv" THEN BlockOf(Len(c.p)) = BlockOf(Len(k.p)) ELSE c.p = k.p

SaveInit ==
    /\ life = [r \in Req |-> "new"] /\ computed = [r \in Req |-> 0]
    /\ table = [r \in Req |-> <<>>] /\ state = [r \in Req |-> Null]
    /\ refs = [b \in Block |-> 0] /\ ended = {}
    /\ data = [w \in Worker |-> [b \in Block |-> NoKey]]
    /\ gpu = [w \in Worker |-> "idle"]
    /\ tracker = [r \in Req |-> None] /\ pinned = [j \in JobId |-> None]
    /\ nextJob = 0 /\ tails = <<>>
    /\ meta = None /\ wpc = [w \in Worker |-> "idle"]
    /\ report = [w \in Worker |-> [j \in JobId |-> 0]]
    /\ queue = [w \in Worker |-> <<>>]
    /\ ledger = [w \in Worker |-> [r \in Req |-> {}]]
    /\ offset = [w \in Worker |-> [r \in Req |-> 0]]
    /\ skip = [w \in Worker |-> {}] /\ pressure = [w \in Worker |-> FALSE]
    /\ completed = [w \in Worker |-> [j \in JobId |-> 0]]
    /\ closing = [w \in Worker |-> {}] /\ cur = [w \in Worker |-> None]
    /\ store = [w \in Worker |-> {}]

----------------------------------------------------------------------------
\* The engine's block pool and tables.

Held(r) == (Range(table[r]) \cup {state[r]}) \ {Null}
Touch(f, S) == [b \in Block |-> f[b] + (IF b \in S THEN 1 ELSE 0)]
Release(f, S) == [b \in Block |-> f[b] - (IF b \in S THEN 1 ELSE 0)]

FreeBlocks(gone) == {b \in Block : Release(refs, UNION {Held(q) : q \in gone})[b] = 0}
NeedBlocks(r, n) == BlockOf(computed[r] + n) - Len(table[r])
\* Requests are preempted only when the free blocks do not suffice.
Preempts(r, n, gone) ==
    gone # {} =>
        Cardinality(FreeBlocks({})) < NeedBlocks(r, n) + (IF Hybrid THEN 1 ELSE 0)

----------------------------------------------------------------------------
\* MooncakeStoreScheduler

\* ReqMeta.from_request_tracker: the tokens to save, 0 when there is no job.
TokensToSave(tr) ==
    IF Floor(tr.len) < BlockOf(tr.saved + 1) * BlockSize THEN 0 ELSE Floor(tr.len)

\* The tracker of a request scheduled for the first time or after preemption,
\* or, for a running one, with its new tokens and blocks appended.
Tracked(r, n, new) ==
    IF life[r] = "running"
    THEN [tracker[r] EXCEPT !.len = @ + n, !.blocks = @ \o new]
    ELSE [len |-> n, blocks |-> new, saved |-> 0]

\* _apply_current_save_block_ids: the job reads through the core's current block
\* table, not through the tracker's append-only mirror.
CurrentBlocks(tab, tr) == tab

\* _reference_save_blocks: every block of the positional group, and the exact
\* boundary-state blocks; a null entry is not referenced.
ReferencedBlocksMutant(job) ==   \* mutation: only the newest block
    ({e.block : e \in job.offloads} \cup {job.blocks[Len(job.blocks)]}) \ {Null}
ReferencedBlocks(job) ==
    ({e.block : e \in job.offloads} \cup Range(job.blocks)) \ {Null}

\* A job that finish-time registration pinned already keeps its own pins.
ReferenceSaveBlocks(jobs) ==
    [j \in JobId |->
        IF \E job \in jobs : job.id = j /\ ReferencedBlocks(job) # {}
        THEN [blocks |-> ReferencedBlocks(CHOOSE job \in jobs : job.id = j),
              remaining |-> Cardinality(Worker)]
        ELSE pinned[j]]

\* _handle_boundary_state_offloads: the state block of a step that ends on a
\* block boundary, or at the end of the prompt (a sub-block tail).
BoundaryOffloads(r, end, s) ==
    IF Hybrid /\ (end % BlockSize = 0 \/ end = Len(Prompt[r]))
    THEN {[block |-> s, at |-> end]} ELSE {}

\* build_connector_meta for a step that computes n tokens of r (new: the blocks
\* it is given, s: its new state block) after preempting the requests in gone.
\* Blocks whose tokens have left the attention window are nulled in the table.
Schedule(r, n, new, s, slid, gone) ==
    LET end == computed[r] + n
        old == IF slid THEN {i \in DOMAIN table[r] : i * BlockSize <= computed[r]}
               ELSE {}
        tab == [i \in DOMAIN table[r] |-> IF i \in old THEN Null ELSE table[r][i]] \o new
        dropped == ({table[r][i] : i \in old} \cup {state[r]}) \ {Null}
        tr == Tracked(r, n, new)
        num == TokensToSave(tr)
        offl == BoundaryOffloads(r, end, s)
        job == [id |-> nextJob, req |-> r, len |-> num, offloads |-> offl,
                blocks |-> CurrentBlocks(tab, tr), late |-> FALSE]
        jobs == IF num > 0 \/ offl # {} THEN {job} ELSE {}
        taken == Range(new) \cup ({s} \ {Null})
        kept == Release(Release(refs, UNION {Held(q) : q \in gone}), dropped)
    IN  /\ jobs # {} => nextJob < MaxJobs
        /\ life' = [q \in Req |-> IF q \in gone THEN "preempted"
                                  ELSE IF q = r THEN "running" ELSE life[q]]
        /\ computed' = [q \in Req |-> IF q \in gone THEN 0
                                      ELSE IF q = r THEN end ELSE computed[q]]
        /\ table' = [q \in Req |-> IF q \in gone THEN <<>>
                                   ELSE IF q = r THEN tab ELSE table[q]]
        /\ state' = [q \in Req |-> IF q \in gone THEN Null
                                   ELSE IF q = r THEN s ELSE state[q]]
        /\ tracker' = [q \in Req |->
                IF q = r THEN [tr EXCEPT !.saved = IF num > 0 THEN num ELSE @]
                ELSE IF q \in ended THEN None
                ELSE IF q \in gone THEN [len |-> 0, blocks |-> <<>>, saved |-> 0]
                ELSE tracker[q]]
        /\ pinned' = ReferenceSaveBlocks(jobs)
        /\ refs' = Touch(Touch(kept, taken),
                         UNION {ReferencedBlocks(j) : j \in jobs})
        /\ nextJob' = nextJob + Cardinality(jobs)
        /\ meta' = [jobs |-> (IF jobs = {} THEN <<>> ELSE <<job>>) \o tails,
                    finished |-> ended, preempted |-> gone,
                    writes |-> {<<tab[i], KVKey(r, Min({i * BlockSize, end}))>> :
                                   i \in BlockOf(computed[r] + 1) .. Len(tab)}
                               \cup (IF Hybrid THEN {<<s, StateKey(r, end)>>} ELSE {})]

HasPendingPushWork == \E j \in JobId : pinned[j] # None

\* A step that schedules no request: the engine still runs it for finished
\* requests and while the connector has pending work.
IdleStep ==
    /\ ended # {} \/ HasPendingPushWork
    /\ tracker' = [q \in Req |-> IF q \in ended THEN None ELSE tracker[q]]
    /\ meta' = [jobs |-> tails, finished |-> ended, preempted |-> {}, writes |-> {}]
    /\ UNCHANGED <<life, computed, table, state, refs, pinned, nextJob>>

Step ==
    /\ meta = None
    /\ \/ \E r \in Req, n \in StepTokens, slid \in {FALSE, Sliding},
             gone \in SUBSET {q \in Req : life[q] = "running"} :
            /\ life[r] # "done" /\ r \notin gone /\ Preempts(r, n, gone)
            /\ computed[r] + n <= Len(Prompt[r])
            /\ \E new \in Injection(1 .. NeedBlocks(r, n), FreeBlocks(gone)) :
               \E s \in IF Hybrid THEN FreeBlocks(gone) \ Range(new) ELSE {Null} :
                  Schedule(r, n, new, s, slid, gone)
       \/ IdleStep
    /\ ended' = {} /\ tails' = <<>>
    /\ wpc' = [w \in Worker |-> "save"]
    /\ gpu' = [w \in Worker |-> IF meta'.writes = {} THEN "idle" ELSE "busy"]
    /\ UNCHANGED <<data, report, threadVars, store>>

\* A request ends: its blocks go back to the pool at once.  register_finished_
\* partial_tail may queue one more job for the state at its last token; it pins
\* the handed-off state block and nothing else of the block tables it carries.
Finish(r, tail) ==
    LET job == [id |-> nextJob, req |-> r, len |-> 0,
                offloads |-> {[block |-> state[r], at |-> computed[r]]},
                blocks |-> table[r], late |-> TRUE]
        held == Release(refs, Held(r))
    IN  /\ meta = None /\ life[r] \in {"running", "preempted"}
        /\ tail => /\ Hybrid /\ nextJob < MaxJobs /\ tracker[r] # None
                   /\ life[r] = "running" /\ computed[r] = Len(Prompt[r])
        /\ life' = [life EXCEPT ![r] = "done"]
        /\ table' = [table EXCEPT ![r] = <<>>] /\ state' = [state EXCEPT ![r] = Null]
        /\ ended' = ended \cup {r}
        /\ IF tail
           THEN /\ pinned' = [pinned EXCEPT ![nextJob] =
                       [blocks |-> {state[r]}, remaining |-> Cardinality(Worker)]]
                /\ refs' = Touch(held, {state[r]})
                /\ tails' = Append(tails, job) /\ nextJob' = nextJob + 1
           ELSE /\ refs' = held /\ UNCHANGED <<pinned, tails, nextJob>>
        /\ UNCHANGED <<computed, data, gpu, tracker, stepVars, threadVars, store>>

\* update_connector_output: the counts of all ranks are added up; a job every
\* rank has reported gives its references back.
Reported(j) == MapThenSumSet(LAMBDA w : report[w][j], Worker)
FreedByAny(j) ==    \* mutation: the first rank's report frees
    pinned[j] # None /\ Reported(j) > 0
Freed(j) == pinned[j] # None /\ Reported(j) > 0 /\ pinned[j].remaining = Reported(j)
EndStep ==
    /\ meta # None /\ \A w \in Worker : wpc[w] = "done" /\ gpu[w] = "idle"
    /\ pinned' = [j \in JobId |->
            IF pinned[j] = None \/ Freed(j) THEN None
            ELSE [pinned[j] EXCEPT !.remaining = @ - Reported(j)]]
    /\ refs' = [b \in Block |-> refs[b] -
            Cardinality({j \in JobId : Freed(j) /\ b \in pinned[j].blocks})]
    /\ meta' = None /\ report' = [w \in Worker |-> [j \in JobId |-> 0]]
    /\ wpc' = [w \in Worker |-> "idle"]
    /\ UNCHANGED <<life, computed, table, state, ended, data, gpu, tracker, nextJob,
                   tails, threadVars, store>>

----------------------------------------------------------------------------
\* A rank during the step: the forward pass is launched, wait_for_save queues
\* the jobs, get_finished and build_connector_worker_meta follow.

\* The kernels of the step write the GPU memory.
Kernels(w) ==
    /\ gpu[w] = "busy"
    /\ gpu' = [gpu EXCEPT ![w] = "idle"]
    /\ data' = [data EXCEPT ![w] = [b \in Block |->
            IF \E x \in meta.writes : x[1] = b
            THEN (CHOOSE x \in meta.writes : x[1] = b)[2] ELSE @[b]]]
    /\ UNCHANGED <<engineVars, schedVars, stepVars, threadVars, store>>

\* wait_for_save, add_request: the ledger before the queue.
WaitForSave(w) ==
    /\ wpc[w] = "save"
    /\ wpc' = [wpc EXCEPT ![w] = "finish"]
    /\ ledger' = [ledger EXCEPT ![w] = [r \in Req |->
            @[r] \cup {j.id : j \in {x \in Range(meta.jobs) : x.req = r}}]]
    /\ queue' = [queue EXCEPT ![w] = @ \o meta.jobs]
    /\ UNCHANGED <<engineVars, data, gpu, schedVars, meta, report, offset, skip,
                   pressure, completed, closing, cur, store>>

\* get_finished (_close_ended_store_requests), then take_completed_saves.
Closed(w) ==
    meta.preempted \cup
    {r \in meta.finished \cup closing[w] : ledger[w][r] = {} \/ r \in meta.preempted}
GetFinished(w) ==
    /\ wpc[w] = "finish"
    /\ wpc' = [wpc EXCEPT ![w] = "done"]
    /\ closing' = [closing EXCEPT ![w] = (@ \cup meta.finished) \ Closed(w)]
    /\ ledger' = [ledger EXCEPT ![w] = [r \in Req |->
            IF r \in Closed(w) THEN {} ELSE @[r]]]
    /\ skip' = [skip EXCEPT ![w] = @ \ Closed(w)]
    /\ offset' = [offset EXCEPT ![w] = [r \in Req |->
            IF r \in Closed(w) THEN 0 ELSE @[r]]]
    /\ report' = [report EXCEPT ![w] = completed[w]]
    /\ completed' = [completed EXCEPT ![w] = [j \in JobId |-> 0]]
    /\ UNCHANGED <<engineVars, data, gpu, schedVars, meta, queue, pressure, cur, store>>

----------------------------------------------------------------------------
\* KVCacheStoreSendingThread

Live(w, job) == job.id \in ledger[w][job.req]
Goto(w, pc) == cur' = [cur EXCEPT ![w].pc = pc]
\* current_event.synchronize(): the kernels of the job's own step are done.
Fenced(w, job) == job \notin (IF gpu[w] = "busy" THEN Range(meta.jobs) ELSE {})
Stored(w) == {x.key : x \in store[w]}

\* The next job: dropped when its request's generation was retired or, under
\* store pressure, when its request is being skipped.
Take(w) ==
    LET job == Head(queue[w]) IN
    /\ cur[w] = None /\ queue[w] # <<>>
    /\ queue' = [queue EXCEPT ![w] = Tail(@)]
    /\ cur' = [cur EXCEPT ![w] =
            [job |-> job, todo |-> {},
             pc |-> IF ~ Live(w, job) \/ (pressure[w] /\ job.req \in skip[w])
                    THEN "finish"
                    ELSE IF job.offloads # {} THEN "offload" ELSE "plan"]]
    /\ UNCHANGED <<engineVars, data, gpu, schedVars, stepVars, ledger, offset, skip,
                   pressure, completed, closing, store>>

\* Puts: [key, block, late].  A block-aligned boundary stores its state block; a
\* sub-block one also the KV blocks from the saved offset to the boundary, which
\* a finish-time job reads late: they are not among the blocks it pinned.
SnapshotPuts(job) ==
    {[key |-> StateKey(job.req, e.at), block |-> e.block, late |-> FALSE] :
        e \in job.offloads}
SubBlockTailPuts(w, job) ==
    UNION {LET last == BlockOf(e.at)
               first == Min({offset[w][job.req] \div BlockSize + 1, last})
           IN  {[key |-> KVKey(job.req, Min({i * BlockSize, e.at})),
                 block |-> job.blocks[i], late |-> job.late] :
                    i \in {i \in first .. last :
                              i \in DOMAIN job.blocks /\ job.blocks[i] # Null}} :
           e \in {e \in job.offloads : e.at % BlockSize # 0}}

\* The normal save: full blocks from the rank's own offset, nulls skipped.
SavePuts(w, job) ==
    {[key |-> KVKey(job.req, i * BlockSize), block |-> job.blocks[i], late |-> FALSE] :
        i \in {i \in BlockOf(offset[w][job.req]) + 1 .. job.len \div BlockSize :
                  i \in DOMAIN job.blocks /\ job.blocks[i] # Null}}
Missing(w, puts) == {x \in puts : x.key \notin Stored(w)}
Write(w, puts) ==
    store' = [store EXCEPT ![w] = @ \cup
        {[key |-> x.key, val |-> data[w][x.block], late |-> x.late] : x \in puts}]

ClearStorePressure(w) ==
    /\ pressure' = [pressure EXCEPT ![w] = FALSE]
    /\ skip' = [skip EXCEPT ![w] = {}]
MarkSkipped(w, job) ==
    /\ pressure' = [pressure EXCEPT ![w] = TRUE]
    /\ skip' = [skip EXCEPT ![w] = IF Live(w, job) THEN @ \cup {job.req} ELSE @]
RecordSaved(w, job) ==
    offset' = [offset EXCEPT ![w][job.req] = IF Live(w, job) THEN job.len ELSE @]

\* batch_put_from_multi_buffers: every key; or it raises, or some keys fail, one
\* of them perhaps for want of store space.
PutAll(w, puts) ==
    /\ Fenced(w, cur[w].job)
    /\ Write(w, puts) /\ ClearStorePressure(w)
PutSome(w, puts) ==
    /\ Fenced(w, cur[w].job)
    /\ \E ok \in SUBSET puts :
         /\ Write(w, ok)
         /\ \/ "store" \in SaveFaults /\ UNCHANGED <<pressure, skip>>
            \/ "pressure" \in SaveFaults /\ ok # puts /\ MarkSkipped(w, cur[w].job)

\* _maybe_offload_boundary_states; when it fails the normal save is not tried.
Offload(w) ==
    LET job == cur[w].job
        puts == Missing(w, SnapshotPuts(job) \cup SubBlockTailPuts(w, job))
        on == IF job.len = 0 THEN "finish" ELSE "plan"
    IN  /\ cur[w] # None /\ cur[w].pc = "offload"
        /\ \/ puts = {} /\ Goto(w, on) /\ UNCHANGED <<store, pressure, skip>>
           \/ puts # {} /\ PutAll(w, puts) /\ Goto(w, on)
           \/ puts # {} /\ PutSome(w, puts) /\ Goto(w, "finish")
           \/ /\ "store" \in SaveFaults
              /\ Goto(w, "finish") /\ UNCHANGED <<store, pressure, skip>>
        /\ UNCHANGED <<engineVars, data, gpu, schedVars, stepVars, queue, ledger,
                       offset, completed, closing>>

\* The keys to save, read from the rank's offset and the store's batch_is_exist.
Plan(w) ==
    LET job == cur[w].job
        puts == Missing(w, SavePuts(w, job))
    IN  /\ cur[w] # None /\ cur[w].pc = "plan"
        /\ \/ /\ puts = {} /\ RecordSaved(w, job) /\ Goto(w, "finish")
           \/ /\ puts # {} /\ cur' = [cur EXCEPT ![w].pc = "put", ![w].todo = puts]
              /\ UNCHANGED offset
           \/ /\ "store" \in SaveFaults
              /\ Goto(w, "finish") /\ UNCHANGED offset
        /\ UNCHANGED <<engineVars, data, gpu, schedVars, stepVars, queue, ledger,
                       skip, pressure, completed, closing, store>>

PutMutant(w) ==   \* mutation: a put that failed for some keys is recorded too
    LET job == cur[w].job IN
    /\ cur[w] # None /\ cur[w].pc = "put"
    /\ PutAll(w, cur[w].todo) \/ PutSome(w, cur[w].todo)
    /\ RecordSaved(w, job)
    /\ Goto(w, "finish")
    /\ UNCHANGED <<engineVars, data, gpu, schedVars, stepVars, queue, ledger,
                   completed, closing>>
Put(w) ==
    LET job == cur[w].job IN
    /\ cur[w] # None /\ cur[w].pc = "put"
    /\ \/ PutAll(w, cur[w].todo) /\ RecordSaved(w, job)
       \/ PutSome(w, cur[w].todo) /\ UNCHANGED offset
    /\ Goto(w, "finish")
    /\ UNCHANGED <<engineVars, data, gpu, schedVars, stepVars, queue, ledger,
                   completed, closing>>

\* The `finally` of _handle_request: finish_store_job.
FinishJob(w) ==
    LET job == cur[w].job IN
    /\ cur[w] # None /\ cur[w].pc = "finish"
    /\ ledger' = [ledger EXCEPT ![w][job.req] = @ \ {job.id}]
    /\ completed' = [completed EXCEPT ![w][job.id] = @ + 1]
    /\ cur' = [cur EXCEPT ![w] = None]
    /\ UNCHANGED <<engineVars, data, gpu, schedVars, stepVars, queue, offset, skip,
                   pressure, closing, store>>

Thread(w) == Take(w) \/ Offload(w) \/ Plan(w) \/ Put(w) \/ FinishJob(w)
Rank(w) == Kernels(w) \/ WaitForSave(w) \/ GetFinished(w)
SaveNext ==
    \/ Step \/ EndStep
    \/ \E r \in Req, tail \in BOOLEAN : Finish(r, tail)
    \/ \E w \in Worker : Rank(w) \/ Thread(w)
SaveSpec == SaveInit /\ [][SaveNext]_vars

----------------------------------------------------------------------------
\* Every value put in the store, but for the KV blocks of finish-time tails,
\* is the KV its key promises to a later reader: the block kept its content from
\* the forward pass, through preemption, the end of the request and a sliding
\* window, until the rank had copied it.
StoredFaithful ==
    \A w \in Worker : \A x \in store[w] : ~ x.late => Covers(x.val, x.key)

\* The same of every value in the store, also of the KV blocks a finish-time
\* tail adds below its boundary.
StoredAllFaithful ==
    \A w \in Worker : \A x \in store[w] : Covers(x.val, x.key)

\* The ranks that still have to report job j: it has not reached them, is queued
\* or running there, or is done and not yet handed over.
Owing(j) ==
    {w \in Worker :
        /\ report[w][j] = 0
        /\ \/ \E i \in DOMAIN tails : tails[i].id = j
           \/ wpc[w] = "save" /\ \E i \in DOMAIN meta.jobs : meta.jobs[i].id = j
           \/ \E i \in DOMAIN queue[w] : queue[w][i].id = j
           \/ cur[w] # None /\ cur[w].job.id = j
           \/ completed[w][j] > 0}

\* A block has one reference per request whose table holds it and per job that
\* pins it, and a job is pinned for exactly the ranks that have not reported it:
\* none reports twice (the assertion of update_connector_output), and no blocks
\* are given back before the last.
PinsExact ==
    /\ \A b \in Block : refs[b] =
          Cardinality({r \in Req : b \in Held(r)})
        + Cardinality({j \in JobId : pinned[j] # None /\ b \in pinned[j].blocks})
    /\ \A j \in JobId : Cardinality(Owing(j)) + Reported(j) =
          IF pinned[j] = None THEN 0 ELSE pinned[j].remaining

\* A rank's resume offset never passes a block of a running request that it has
\* neither stored nor lost to the window: what a failure or pressure skipped is
\* retried, and a job of an earlier life of the request cannot move the offset.
OffsetStored ==
    \A w \in Worker, r \in Req : life[r] = "running" =>
        \A i \in 1 .. offset[w][r] \div BlockSize :
            table[r][i] = Null \/ KVKey(r, i * BlockSize) \in Stored(w)
=============================================================================
