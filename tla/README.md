# KVServe: TLA+ models, model checking and proofs

KVServe moves the KV cache of a prompt from the engine that computed it to the
engine that decodes from it. This directory holds TLA+ modules for that path:
the threads, tasks, processes and machines that share state on it, and the
algorithms that decide which bytes go where. TLC checks them on small
instances; TLAPS proves safety of the transport and the connector on top of it, the
session helper (its protocol and its process), both pull protocols of the Mooncake
connector and the codec's workspace for every instance. `PROJECT.json` has the exact
correspondence: `map` names the source lines of every definition, `hazards` what
the properties are aimed at.

Paths below are under `src/`. `mooncake/` is `kvsfuse-vllm0.30.0/mooncake/`.

## 1. The system and what is modelled

There are two stacks.

*kvserve_v1* is an external vLLM connector. Its worker side compresses the KV
of a prefill step and hands it to a transport made of a ZMQ control channel and
a pair of NCCL streams; the decode side waits for the payloads of the requests
it has scheduled and injects them into its blocks. A controller chooses the
compression profile of a request and learns from the observed latencies.

*kvsfuse-vllm0.30.0* is a modified Mooncake connector inside vLLM. A decode
worker pulls block tables from prefill workers over RDMA: uncompressed in
batches of requests; compressed in sessions of chunks, either in the worker
process or in a helper process per rank. A second connector, the Mooncake
store, saves KV blocks under the hash of their tokens in a shared store and
loads them into other requests.

| Part | Source | Modules |
|---|---|---|
| NCCL transport | `kvserve_v1/transport/nccl_transport.py` | `NcclTransport`, abstract `KVChannel` |
| Connector, worker side | `kvserve_v1/connector/compressed_kv_connector.py` | `CompressedKVConnector` (EXTENDS `NcclTransport`) |
| Adapter, managers, wire format, bit packing | `kvserve_v1/compression/` | `KVAdapter` |
| Online controller | `kvserve_v1/compression/controller/` | `OnlineController` |
| Compression runtime of kvserve_v1 | `kvserve_v1/compression/runtime/` | `CompressionV1` with the modules of the next row |
| Compression runtime of Mooncake | `mooncake/compression/` | `CompressionLayout`, `CompressionPipeline`, `CompressionRuntime` |
| CUDA kernels of both runtimes | `*/csrc/kvs_compress.cu` | `CompressionCuda`, `CompressionV1` |
| Codec workspace | `*/memory.py`, `kvserve_v1/compression/runtime/codec.py` | `WorkspaceAllocator`, abstract `WorkspaceRanges` |
| Session helper, producer and consumer | `mooncake/session_process.py`, `session_ipc.py` | `SessionProducer`, `SessionConsumer` (EXTENDS it) |
| Session helper as a process | same, `mooncake/mooncake_connector.py` | `HelperProcess` |
| Mooncake connector, raw path | `mooncake/mooncake_connector.py` | `MooncakeRaw`, `TransferPlan` |
| Mooncake connector, in-process sessions | same | `MooncakeSession` |
| Store, save path | `mooncake/store/scheduler.py`, `worker.py`, `data.py` | `StoreSave` |
| Store, load path, asynchronous lookup, reset | same | `StoreLoad` |
| Store, lookup and load plan | `mooncake/store/coordinator.py`, `worker.py` | `StoreLookup` |
| Store, objects and namespaces | `mooncake/store/data.py`, `worker.py` | `StoreLayout` |

How they interact in the models: `CompressedKVConnector` runs on the full
`NcclTransport`; `SessionConsumer` runs against the full `SessionProducer`;
`CompressionRuntime` runs encode, transfer and decode of a session's chunks
through `CompressionLayout`, `CompressionPipeline`, `CompressionV1` and
`CompressionCuda`; `WorkspaceAllocator` implements `WorkspaceRanges`, and
`NcclTransport` implements `KVChannel`. The session modules treat encode and
decode as jobs that succeed or fail; that a job that succeeds gives the bytes
back is `RoundTrip` of `CompressionRuntime`. Likewise `MooncakeRaw` treats a
transfer as one step, and `TransferPlan` says which bytes it copies; `StoreLoad`
and `StoreSave` name a block by its number or prefix, and `StoreLookup` and
`StoreLayout` say which keys and which memory that is.

## 2. Modules and how they correspond to the code

In the modules with several actors an action is what one thread or coroutine
does between two points at which another can see its state: a lock released, an
`await`, a message sent, a stream operation posted. Payloads, blocks and requests
are model values; bytes are abstracted to the identity of what was written. In
the modules of algorithms a function of the code is an operator on a
configuration, and buffers are sequences.

**NcclTransport.** Producer: `sendQueue`, `sendInflight`, `sendPendingBytes`,
the item the send thread holds (`sendCur`) and `sendCompletions`. Consumer: the
listener (`listenPc`, `listenCur`), the credit (`reserved`, `expected`,
`priority`), `recvCompletions` and `received`. Between them one PUT or its
answer (`putMsg`, `ack`) and two NCCL streams; `landed[p]` says whose bytes are
in p's receive buffer, so a mismatch of the two streams is visible. `Send*` are
the steps of `_send_loop` and its completion thread, `Listen*` those of
`_listen_loop` (an ACK is sent before the receive is posted), `Recv*` the receive
completion thread. Faults: a consumer restart, out of memory, an error in the
listener, a failing receive, a dtype NCCL refuses. `lost` records credit that no
thread will return, so the accounting can be stated as an equation. A payload of
several tensors is posted in one step, and after an OK ack only a refused dtype fails
(section 5).

**KVChannel.** What the transport promises: one FIFO channel per transfer id,
each payload delivered at most once, replaced by a failure mark, or lost by an
error that is only logged. `NcclTransport!Channel` is the refinement mapping.

**CompressedKVConnector.** `SaveStep`, `SaveSend`, `SaveWait` are
`wait_for_save`; `LoadStart` to `LoadDone` are `start_load_kv` with its drain,
poll and timeout. Whatever fails in a load stops the decode engine, as the
exception does.

**SessionProducer / SessionConsumer.** One asyncio service answers opens, pulls
and aborts of many sessions; a `_SendState` object can outlive its dictionary
entry, so objects have names of their own. The consumer coroutine has child
tasks: the issuer, a pending receive and one decode task per chunk. `free` and
`rfree` count how often a slot is in its pool, so a double put is visible.

**HelperProcess.** The engine's main thread (start, step, shutdown), its reader
thread and its GPU worker pool; the helper's event loop with its receives and
sessions; two pipes between them. A job is submitted over the pipe, runs in the
engine and answers over the pipe; a session that waits longer than 480 s gives
its job up (`late`). The helper may crash at any step. The decode side's helper
is modelled; the sessions of a prefill helper are the subject of
`SessionProducer`.

**MooncakeRaw.** Prefill workers with a number of sender tasks and a queue,
decode workers with one receive task per prefill worker and batch; `cur` is
`reqs_need_send`, `hold` the objects a sender keeps across its wait. `freed`,
`fin` and `inv` count reports to the engine.

**TransferPlan.** The regions `register_kv_caches` gives to the transfer engine,
the prefill ranks and stages a decode worker asks, and the descriptors of
`_build_transfer_params_sync`, for any pair of tensor and pipeline
parallel sizes, hybrid models, layers without a cache of their own, engines that
number their cache groups differently, kernel blocks smaller than blocks, and tables
that are shorter on one side.

**MooncakeSession.** The tables of `MooncakeRaw` with compressed sessions in the
worker process. Aborts travel on a socket of their own and may overtake; the drain of
an abort may time out (`AbortExpired`), and `unwritten` has the chunks whose RDMA write
failed, which the code answers like any other.

**CompressionLayout, CompressionPipeline, CompressionRuntime.** Layout: which heads get
few bits, offsets of every layer in the buffers of a slot, bytes to reserve and how the
pool is cut. Pipeline: gather, rotate, quantize, pack and their inverses. Values are
exact and symbolic: a rotated value is a linear form of cache cells, a code names the
value, the set it was scaled by and its levels, so only the matching inverse gives the
value back. Runtime: `EncodeChunk`, `SendCompressedBlocks` and `DecodeChunk` for each
chunk of a session, where both slots start with the bytes of earlier owners.

**CompressionV1, CompressionCuda.** What the runtime of `kvserve_v1` does its own
way, and the kernels as their effect on buffers, thread by thread where threads
share work. The two ends of a session may use different backends.

**WorkspaceAllocator, WorkspaceRanges.** Best fit over a list, the remainder at
its end, the sort and merge of a release; and the registry that gives every codec
stream its pool behind one process-wide hook, where runtimes start and stop while
others run. `WorkspaceRanges` has the free and the lent ranges as sets.

**KVAdapter.** `compress`, `build_wire`, `restore_from_wire`, `decompress` over all
layers, with and without chunks of layers, both codec layouts, a codec that is skipped
for some layers, a layer whose exception loses the whole payload on either side, and bit
packing bit by bit. **OnlineController.** A sequence of saves of the connector, each of
which observes a latency or falls back to raw blocks, and of passing time, folded over
the state.

**StoreSave.** The engine's block pool with reference counts, GPU memory per
rank, `build_connector_meta`, `register_finished_partial_tail`,
`update_connector_output`, and on each rank `wait_for_save`, `get_finished` and
the sending thread. Content is the token prefix it was computed from; a key is
the prefix its hash stands for. Role `kv_producer`, `put_step` 1, at most one
request scheduled per step, partial-hash hits on, no eviction, no KV events.

**StoreLoad.** The lookup client and server with their cached answers, load
specifications, receiving threads that share a queue and read a rotated key list
in sub-batches, load errors, and `reset` after a weight update. An object or block
holds the epoch of the weights it was computed with. One group, one hash per
block, equal prompts.

**StoreLookup, StoreLayout.** The passes of the coordinator over groups with full
attention, sliding windows, recurrent state and speculative drops, the load plan
made from a hit; and the names, shapes and memory ranges of the objects of engines
of different sizes and cache layouts that share a namespace.

**DataLemmas, \*Proofs.** Lemmas on sequences, sums and finite sets, and the proofs
(section 6). A proof module extends the module it is about.
`CompressedKVConnectorProofs` holds the proofs about the transport too;
`SessionProducerProofs` has the steps of the producer half, and `SessionProofs` those of
the consumer half and the theorems about both.

## 3. Runs

| Run | Instance | Properties |
|---|---|---|
| `transport` | 3 payloads, 2 ids, budget 2, one refused dtype, all faults | `CreditAccounting`, `WaitForSentDrained`, `PublishedIntact`, `OverflowBounded`, `ImplementsChannel` |
| `connector` | 3 payloads of 2, 1 and 3 bytes with ids of their own, budget 2, load faults; fair | `NoMissingKV`, `CreditOwed`, `EveryRequestLoaded`, `SaveCompletes` |
| `session` | 2 sessions of 2 and 1 chunks on one block table, open, encode and decode failures. *ample*: 2 sender slots, a receiver slot per chunk. *scarce*: 1 sender slot, 1 receiver slot per session; fair | `BlocksHeld`, `SlotsKept`, `AckMeansQuiet`, `ChunksDelivered`, `SessionsEnd`, `TablesFreed` |
| `raw` | *batch*: 1 prefill and 2 decode workers, a batch of 2 requests of which one is empty, 2 sender tasks. *workers*: 2 prefill workers, 1 decode worker, 1 request. All faults in both | `PulledBlocksHeld`, `PulledMeansWritten`, `PullsNoneWaiting` |
| `inproc` | 1 decode worker pulls a request from 2 prefill workers, sessions of 2 and 0 chunks, 1 sender slot, 2 receiver slots; all faults in the first session, a failing open in the second | `InprocBlocksHeld`, `InprocSlotLease`, `InprocNoSilentLoss`, `InprocNoneWaiting` |
| `store_save` | *hybrid*: 1 rank, 4 blocks of 2 tokens, prompts of 5 and 2 tokens with a shared prefix, mamba group, sliding window, failing store. *ranks*: 2 ranks, 1 block, store pressure | `SavedFaithful`, `SavedOffset`, `SavedPins` |
| `store_load` | *split*: 1 rank, 2 threads, 1 key per sub-batch, 4 tokens, a reset, 2 puts, 1 preemption; fair. *ranks*: 2 ranks, 3 tokens read in one batch | `LoadedPrefix`, `LoadedAwaited`, `LoadedEnds` |
| `helper` | 1 receive of 2 sessions, 1 GPU worker, a crash, 1 late job; fair | `ReportTruthful`, `StoppedMeansQuiet`, `ReceivesReported`, `ShutdownEnds` |
| `algorithms` | bounded inputs of the algorithm modules, see below | `RoundTrip`, `PoolFits`, `WorkspaceServed`, `LookupLoadable`, `SharedNamespaces`, `TransferExact`, `AdapterRoundTrip`, `ControllerLearns` |
| `session_abort` | 1 session of 4 chunks, encode failures | violates `SlotLease` |
| `session_decode` | 1 session of 2 chunks, decode failures | violates `NoSilentLoss` |
| `store_tail` | as *hybrid* with a 3-token prompt | violates `StoredAllFaithful` |

A run with two named instances has a variable `shape` that picks one of them in
the initial state: the MC module extends the component with the constants of the
cfg and instantiates it again, on the same variables, with the others. A property
of such a run is the component's property of whichever instance the behaviour is.

**Nobody waits for ever.** Where the number of states leaves no room for a
temporal check, the same question is asked as an invariant: in a state in which no
loop, task or thread has a step left (`~ ENABLED` of the disjunction of everything
the code will do by itself; new requests and new faults are left out), every pull
is reported and every announced block table that is tracked is given back
(`PullsNoneWaiting`, `InprocNoneWaiting`). Each has exceptions, for what the code itself
leaves undone: a pull whose abort was not acknowledged, a table whose session was aborted
with a drain that timed out, the lease of a transfer that raised (section 7). This finds
lost wake-ups, deadlocks and forgotten reports; it says nothing of endless loops, and in
these modules every step moves a task, a request or a job forward.

**The algorithms run** picks an input in its first step and checks the result in the
state that holds it. The compression runtime and the allocator run as state machines
beside it. Inputs: 30 configurations of the compression runtimes (each stage present and
absent, head and layer splits, three axes, one and two groups, physical blocks smaller
than logical ones, a second tensor-parallel rank, both backends at either end); lookups
of prompts up to 5 tokens over every set of stored keys of up to 4 blocks, with
speculative groups flagged or only the model; pairs of engines with 1, 2 or 4 ranks and
heads and three cache layouts; raw transfers between 1, 2 and 4 ranks and 1 or 2 stages;
adapters of up to 3 layers; symbols of 1 to 8 bits; controllers with every sequence of
up to 4 saves of two requests and jumps of time past the limit at which contexts are
evicted; an allocator with two runtimes of one stream each.

**The three violations** show disagreements between the code and what the
repository says of it; the lines are quoted in `PROJECT.json` under `findings`.
Where such a disagreement breaks a strong property, the passing run checks the
weaker property that does hold: `ChunksDelivered` beside `NoSilentLoss`,
`AckMeansQuiet` beside `SlotLease`, `StoredFaithful` beside `StoredAllFaithful`.

**Why the bounds are enough.** The interesting cases need two of something: two
payloads of one transfer id and one of another (retry rotation and the overflow
marker), two sessions on one table (the last one frees), two chunks in flight
(one fails while the other is written), two ranks (the second report frees), two
sub-batches after a failed one, two sessions of one receive (one fails). The
capacity of 2 with payloads of 1 to 3 makes full staging, exact fit and an
oversized payload happen. In `store_save` the second job of the long request
re-reads the block its first one failed to store, and four blocks force preemption
and reuse. Block ids of `store_save` and receiver slots of `inproc` are
interchangeable and symmetric; runs with temporal properties use no symmetry.
Deadlock is not checked: every instance has finitely many requests and stops when
they are served. Named bounds: `MaxJobs` (save jobs), `MaxPuts`, `MaxPreempts`,
`MaxEpoch` (puts of other requests, preemptions and resets around a load),
`MaxLate` (jobs given up), `MaxChunks`, `MaxBytes`.

## 4. Fairness

Weak fairness is given to every thread and coroutine step: threads loop for
ever, event loops run ready tasks, the job pool finishes what it takes, a
transfer returns, timers fire. Strong fairness is used once: in
`CompressedKVConnector` the decode scheduler starts a load that is possible again
and again. Nothing is fair about requests arriving, being dropped, failing or
crashing; `EveryRequestLoaded` and `SaveCompletes` make an exception for a decode
engine that an error has stopped, `ReceivesReported` for a helper that crashed or
an engine that is shutting down. In `store_load` the engine builds metadata and
each rank steps; `LoadedEnds` is checked of the *split* instance, `SessionsEnd` and
`TablesFreed` of the *scarce* one. `TablesFreed` relies on the consumers going on: the
producer has no timer for a session whose consumer is gone.

## 5. Assumptions on time and failures

The code relies on durations that are far apart, and on what can fail; the models take
these as given.

- An announced table expires 480 s after its announcement while an open that waits
  for it polls every 50 ms, so `Sweep` is not taken while an open still waits on
  that object (`SessionProducer`), nor while a sender task has yet to look at it
  (`Overlooked` in `MooncakeRaw`: no single transfer outlasts the abort timeout).
- A session's timeouts are taken only when the producer works on nothing for it
  (`NothingRuns`). An abort's drain, and the wait for its answer, last 480 s; no engine
  job that ran when the abort came outlasts them (`NoJob` in `AbortExpired` and
  `AbortTimeout`: `_submit` gives up after the same 480 s), while a chunk may still wait
  for a slot. In `MooncakeSession` the drain may time out at any moment.
- After an OK ack the posting of sends and receives fails only for a dtype NCCL does not
  know, and then at both ends at the same tensor. The except clauses
  (`nccl_transport.py:280`, `755`) would catch a CUDA or NCCL error too, which makes the
  context or the communicator unusable. A bundle with such a tensor counts as not posted,
  although the tensors before it are, at both ends in the same order.
- In `MooncakeRaw` the decode side's timeout does not fire while a prefill worker
  transfers to it.
- A request's dispatch and the first segment of its task are one step, because
  asyncio starts tasks in creation order.

## 6. Proofs

| Module | Obligations | Theorems |
|---|---|---|
| `DataLemmas` | 1,020 | lemmas on sequences, queues, sums and cardinalities |
| `CompressedKVConnectorProofs` | 3,376 | `TransportInvariant`, `TypeCorrect`, `DataIntegrity`, `SentMeansDrained`, `StagingBounded`, `OnePlace`, `CreditExact`; `ConnectorInvariant`, `ConnectorUsesTransport`, `LoadedOrStopped`, `CreditReturned` |
| `HelperProcessProofs` | 1,118 | `HelperReportsTruth`, `HelperStopsQuiet` |
| `SessionProducerProofs` | 2,193 | lemmas: requests under way, chunks, sender slots, block leases |
| `SessionProofs` | 2,312 | `SessionAckQuiet`, `SessionBlocksHeld`, `SessionSlots`, `SessionDelivers` |
| `MooncakeRawProofs` | 3,721 | `RawInvariant`, `RawBlocksAreHeld`, `RawFinishedMeansWritten` |
| `MooncakeSessionProofs` | 3,499 | `InprocInvariant`, `InprocBlocksAreHeld`, `InprocSlotsLeased`, `InprocLossReported` |
| `WorkspaceRangesProofs` | 512 | `WorkspaceNeverLost` |

**Transport**, for any set of payloads, sizes, ids, budget and any combination of
faults. Assumptions: payload names differ from the special values, sizes are
positive and bounded, the capacity is positive (the named ASSUMEs of
`NcclTransport`).

- `TransportInvariant`: `Spec => []TransportInv`, where `TransportInv` is `TypeOK`,
  `Handshake`, `Aligned`, `Landed` and `SendsTracked`.
- `TypeCorrect`, `DataIntegrity` (`PublishedIntact`), `SentMeansDrained`
  (`WaitForSentDrained`) follow from it.
- `StagingBounded` (`OverflowBounded`) is proved from its own invariant
  `OverflowMarked`, under the hypothesis `UniformSizes`: the payloads of one id have
  one size. Without it TLC finds a counterexample: the release of a small sibling
  clears the overflow marker while the larger payload it was set for is still held,
  and the next overflow is admitted on top.

Why the strengthening is needed. `PublishedIntact` speaks of what the consumer
can read. It holds because NCCL matches sends and receives by order alone, so the
two streams must hold the same payloads in the same order (`Aligned`), counting
the one either side has agreed to and not yet posted. That in turn needs that only
one PUT is under way and where it is (`Handshake`), across the ACK that precedes
the posted receive and across a restart, when `comm = "lost"` empties the
consumer's stream. Each conjunct has a step lemma with one case per action.

The credit. `OnePlace` (`EachOnce`): between `send` and `release_received` a payload is in
at most one place: no queue holds it twice (`QueuesOnce`) and no two stages share it
(`StagesDisjoint`). `CreditExact`
(`CreditAccounting`) needs it: the credit is an equation between a counter and the sum of
the sizes of a set, so a step that moves a payload must know that it was in the set it
leaves and not in the one it enters. `StageMove` names the nine ways a step can move a
payload, and every action is shown to be one of them. The sum is over any finite set
of payloads: `SumRemove` in `DataLemmas` derives what a payload adds to it.

**Connector**, for any requests, keys, sizes, budget and faults, with and without
asynchronous sends and a router that waits. Assumption beside those of the transport:
`None` is not a pair of payloads (`ConnectorAssumption`). `ConnectorUsesTransport`
shows that the connector's steps are steps of `NcclTransport`, so each theorem about the
transport holds underneath it. `LoadedOrStopped` (`NoMissingKV`) and `CreditReturned`
(`CreditOwed`) follow from `ConnInv`: what the worker has buffered or in hand is
what the transport counts as held (`CreditOwed`), a buffered payload is buffered once and
under its own id (`BufferedOnce`), a scheduled request is injected, in hand or still
pending unless the engine has stopped (`LoadProgress`), and a payload that was injected is
nowhere in the transport any more (`InjectedGone`), so it cannot serve a second request.

**Helper process**, for any requests, sessions and GPU workers, any bound on late
jobs, with crashes. Assumptions: every session belongs to a request, there is a GPU
worker, `None` is not a result (`HelperAssumption`). `HelperInv` has five parts.
`ReportInv` follows a report from the pipe through the two queues of the engine to
what the engine was told, and says at each place that the sessions are decoded or
the blocks are already queued as invalid. It needs that sessions are cancelled only
after the engine has asked for a shutdown (`StopInv`): a cancelled receive answers
with an empty failure list, which is harmless only because nobody reads it any
more. `StoppedMeansQuiet` needs that a job is in one place at a time (asked for, in
the pool, or answered) and that its session waits for it there or has given it up
(`JobInv`), and that a receive starts its sessions once (`RecvInv`). The steps that
touch no pipe are one lemma (`QuietStep`); the others add at most one message, and
`Gains` says what that means for every kind of message. TLC checked `HelperInv` on
the instance of run `helper` first.

**Session helper**, for any sessions, transfers, chunks and slots and any of the job
failures, about `SessionSpec`: the producer of `SessionProducer` composed with the
consumers of `SessionConsumer`. Assumptions: names are distinct, a session has at
most `MaxChunks` chunks, a session's slots are slots of the receiver, at least one
target must be served (`NeedSend`), and `TargetAssumption`: a transfer is pulled by
finitely many sessions, at most `NeedSend`, one per rank `handshake_target_ranks`
returns. The last is about the peers: the producer counts targets and does not itself
refuse one more session. All four safety invariants of run `session` are
proved (`SlotsKept` is `SlotsConserved` of either instance): `SessionAckQuiet`
(`AckMeansQuiet`), `SessionBlocksHeld` (`BlocksHeld`),
`SessionSlots` (`SlotsConserved`), `SessionDelivers` (`ChunksDelivered`).

The inductive invariant `ConsInv` has seven parts:

- `QueueInv`: each request is in its queue at most once and before the task it starts;
  a pull only follows its open. Both halves rest on it.
- `QuietInv`: `inflight` is the number of running chunks and `completed` at most the
  number of ended ones, a running chunk keeps its session in `_producer_sessions`, an
  abort closes it, and no chunk is being encoded once the abort has found no session or
  has answered. `AckMeansQuiet` follows: the abort that drains answers when no chunk task
  is left, or after a timeout that outlasts the jobs, and a chunk that gets its slot later
  finds the operation closed.
- `SlotInv`: a sender slot is in the pool or with one chunk task, and that task holds it
  exactly between taking it and answering.
- `LeaseInv`: per `_SendState` object, `sending` is the number of sessions that have
  claimed it and `sent` at most the number of those that are over with it; the announced
  object stays in `_send_meta` until the engine has been told, and from then on nobody
  claims it or waits for it. `BlocksHeld` is not inductive without it: that the last
  target frees the blocks safely is a counting argument over the sessions of the
  transfer, and it is where `TargetAssumption` is used. It also says that the object a
  session would create is neither announced nor tracked before that session has opened.
- `AnswerInv`: which answers may be under way in which state of a coroutine; a chunk is
  pulled into a slot, answered once, and decoded after that.
- `OwnInv`: a receiver slot is in its pool or owned by one session, and a slot that a
  chunk was pulled into stays its session's until the chunk is decoded or the session
  is over, which it is only when no decode runs.
- `DeliverInv`: the consumer's count of completed chunks is the number of distinct
  answered ones, so a coroutine that leaves its loop has had all of them.

The producer's parts are preserved by whatever a client may ask (`ProdStep`), and
`IsProdStep` shows that every consumer step is such a request. TLC also found `ConsInv`
to hold in the 195,779 states of the *ample* instance of run `session`. The facts on
finite sets that the step lemmas use are `SetFacts`, which `SetFactsHold` derives in
`DataLemmas`. What is not true is not proved: `SlotLease` and `NoSilentLoss` are refuted
by the runs `session_abort` and `session_decode`.

**Raw pulls**, for any prefill and decode workers, requests and batches, with workers that
die, refused requests, transfers that fail or raise, and timeouts. Assumptions: batches
are disjoint sets of requests (`BatchAssumption`), names are distinct (`RawAssumption`),
and there are finitely many workers of which at most `NeedSend` pull from a prefill
worker (`WorkerAssumption`): `need_send` is the number of target ranks, and the prefill
worker counts them without refusing one more. `RawBlocksAreHeld` and
`RawFinishedMeansWritten` are `RawBlocksHeld` and `FinishedMeansWritten`, which the
properties `PulledBlocksHeld` and `PulledMeansWritten` of run `raw` ask of its two
instances. The inductive invariant `RawInv` has four parts beside the types:

- `TaskInv`: a channel is queued at most once, and what its sender task waits for and
  what it sends are disjoint parts of its batch.
- `EntryInv`: a task that sends a request, or would as soon as it wakes, holds the entry
  that is in `reqs_need_send`, and that entry is ready and not yet reported as sent.
- `ClaimInv`: `sending` is the number of decode workers whose task sends the request, and
  `sent` at most the number of those that are over with it. So the task that finds `sent`
  at `need_send` is the last one: every decode worker has been served. This is
  a count over the workers and uses `WorkerAssumption` and the disjointness of batches.
- `AnswerInv`: a request is answered as written at most once per channel and only after
  it was sent; the decode worker's counter is at least the number of prefill workers it
  has nothing from yet; and a report without invalid blocks means that none is missing.

TLC found `RawInv` to hold in the 369,555 states of both instances of run `raw`.

**In-process sessions**, for any sessions, transfers, pulls, chunks and slots. Assumptions:
those of `SessionAssumption` on names and bounds, and `TargetAssumption` as for the helper.
`InprocBlocksAreHeld` (`InprocBlocksHeld`), `InprocSlotsLeased` (`InprocSlotLease`) and
`InprocLossReported` (`InprocNoSilentLoss`) hold with every set of faults, lost RDMA writes
included. The code does not look at the result of the write (section 7), so
`InprocNoSilentLoss` lets a chunk lack its bytes when the write of that very chunk failed,
and only then. `InprocInv` has six parts beside the types:
the object a session uses is the tracked, ready and unfreed one (`ObjInv`); its two
counters, as in `LeaseInv` of the helper (`ClaimInv`); `inflight` and `completed` against
the pulls in hand (`ChunkInv`); an acknowledged abort, or a session that has ended by
itself, means the prefill worker writes no more for it (`AbortInv`); a receive slot is
free or leased to one chunk, and a chunk in hand has one (`LeaseInv`); and the pull's
counter is the number of its open sessions (`ReportInv`). `InprocSlotLease` relates two
machines: that the prefill worker only writes into leased slots needs `AbortInv`, because
a decode worker that has given up frees its slots after the acknowledgement.
`WrittenInv` adds what a session that ended without a failure has received. TLC found
both to hold in the 569,380 states of run `inproc`.

**Codec workspace**, for any pool and any request sizes (`PoolOk`):
`WorkspaceNeverLost` shows that the free and lent ranges always partition the pool
and that it is one range again when all is returned. The allocator of the code keeps
a list, sorts and merges it; that this list implements the ranges is
`WorkspaceServed`, which TLC checks.

Only model-checked: all liveness, and the invariants that ask who has a step left
(`PullsNoneWaiting`, `InprocNoneWaiting`), which are stated with `ENABLED`; the
refinements of `KVChannel` (its mapping filters a queue with `SelectSeq`, which is
defined by recursion) and of `WorkspaceRanges`; what the algorithm modules compute. The
library's induction theorems take an operator as a parameter and cannot be used here;
`DataLemmas` reaches what it says of sums and cardinalities by a least counterexample
among the natural numbers, but a recursive computation over sequences of bytes or layers
is a different matter. The protocols of the store (`StoreSave`, `StoreLoad`) have no
inductive invariant worked out.

## 7. Disagreements met while modelling and not kept as runs

Each was met on the models of this project; the passing runs use the weaker
statement, or the instance in which it does not occur.

NCCL transport and connector:

- `nccl_transport.py:267`: a retried item goes before the first queued item of its
  own id, so two requests that share an id at the head of the queue starve the
  payload the current step waits for ("Rotate blocked requests ...", line 263).
- `nccl_transport.py:755`: an error that only one end meets after the OK ack is logged
  there, and the send of the other end stays without its receive; every later payload
  would land in the buffer before its own. Left out by section 5.
- `compressed_kv_connector.py:520`: a decode request covered by its own prefix
  cache never loads, so its payload stays in receiver staging and synchronous
  senders wait behind it (`README.md:163`).

Session helper:

- `session_process.py:467`: `need_send` counts tensor-parallel ranks, while the
  consumer opens one session per pipeline stage; a table is freed under a session
  (left out by `TargetAssumption`).
- `session_process.py:517`: an open that times out removes the placeholder another
  open still waits on, so a timely announcement never reaches the other one.
- The forked helper keeps the parent's end of its pipe, so it sees no end of file
  when the engine is killed. After a crash of the helper the receives that are out
  are never reported.
- At shutdown the gather ends with the first cancelled session, and the ZMQ context
  then waits for the sockets of the others: the helper is stuck until it is killed.

Mooncake connector:

- `mooncake_connector.py:3325`: an ERROR after a CONTINUE reports blocks invalid
  later than their request, and in a batch also those of requests that were received
  (base class, line 441).
- `mooncake_connector.py:3359`: the first prefill worker that fails makes the
  request finished while the others still write its blocks.
- `mooncake_connector.py:3317`: with every sender task busy the decode side times
  out before the prefill side ("let P wait timeout first", line 3316).
- `mooncake_connector.py:1764`: an exception out of a transfer leaves the sending
  counters of its batch raised, and the blocks leased until the process ends (the
  exception `PullsNoneWaiting` makes).
- `mooncake_connector.py:2501`: after its wait a sender asks whether the id is
  tracked, not whether its own object is, and may read freed blocks (left out by
  `Overlooked`).
- `mooncake_connector.py:2506`: a request that expired before its sender woke is in
  no response and never reported ("just forget it").
- `mooncake_connector.py:3181`: a drop of an untracked id raises KeyError and skips
  the rest of the step's drops.
- `mooncake_connector.py:2226`: the result of the RDMA write of a compressed chunk is
  ignored, so a failed write is answered as ready (the exception `InprocNoSilentLoss`
  makes).
- `mooncake_connector.py:3796`: an abort that is not acknowledged skips the cleanup,
  so the request is never reported (the exception `InprocNoneWaiting` makes).
- `mooncake_connector.py:2358`: the error path of a chunk reads a field the message
  does not have and answers nothing.
- `mooncake_connector.py:3160`: an announcement that finds its placeholder removed
  raises KeyError, and the delayed blocks are never freed.
- A cache replicated over prefill ranks with a decode rank that needs several heads
  is outside `OneSenderEnough`: `total_num_kv_heads` is never passed.

Store:

- `store/worker.py:1467-1478`: with two or more ranks and a disk-offload budget, a
  failed sub-batch ends the load of a rotated key list, so blocks before the first
  reported one may be missing ("Mark every block", line 1392). `LoadedPrefix` covers
  sub-batches on one rank and two ranks without them.
- `store/worker.py:2503`: a reset drains the puts of rank 0 only ("Drain in-flight
  puts before wiping the master; otherwise stale puts can repopulate it
  post-reset.", 2499-2500). The reset is checked with one rank.

Compression and controller:

- `compression/csrc/kvs_compress.cu:7-10` (Mooncake): the transform of a head with an
  even number of butterfly stages leaves its result in the other buffer; the
  instances use heads for which the kernel and the pipeline agree.
- A pipeline of aggregation and quantizer has auxiliary bytes
  (`execution.py:51-58`) and no arena for them (`layout.py:305-306`); it is not
  among the instances.
- `analytical_model.py`: the predicted latency multiplies the transfer time by the
  compression ratio, where its docstring divides by it; a bandwidth outside all
  intervals gets the lowest one, and the closest bucket may be less accurate than
  asked. `ControllerLearns` is about the bookkeeping and does not depend on them.

## 8. Not modelled

- **Floating point.** Rounding of BF16 and of quantized values, and the arithmetic of
  the kernels. The models show that each value meets its own inverse, not how close
  it comes. The TileLang kernels (`tilelang_ops/`) do nothing else.
- **External code.** The entropy coder (nvCOMP, LC), Mooncake's transfer engine and
  store, NCCL, ZMQ, vLLM's scheduler and block pool appear by what the code relies
  on. The probing of the codec's peak memory is outside; the audited peak takes no
  account of fragmentation under best fit.
- **A job that outlives its task.** The encode job of a cancelled chunk task of a
  prefill helper may still run when it says Stopped; a reset that answers with an
  error is left to its caller.
- **A layer kind.** The caches of `KpoolTailSpec` layers, whose regions
  `register_kv_caches` cuts in its own way. `save_state` and `load_state` of the
  controller, which nothing calls.
- **Connector scheduler sides.** `compressed_kv_connector.py` 511-673 and the
  prefix-hit arithmetic of `mooncake_connector.py` 790-984 are represented by the
  requests they schedule.
- **Plain I/O and observers.** The bootstrap HTTP server, network device choice,
  reading of profiles and configuration, statistics, metrics and KV events: nothing
  reads them back into the protocol.
- **Sequential scripts.** Offline search, benchmarks and examples; the ZMQ tensor
  transport, a single thread per side that the connector does not use.
