---------------------------- MODULE MooncakeRaw ----------------------------
(***************************************************************************)
(* kvsfuse-vllm0.30.0/mooncake/mooncake_connector.py without compression:   *)
(* every decode (D) worker asks every prefill (P) worker for the KV blocks  *)
(* of a batch of requests; a P worker waits until the prefill of a request  *)
(* is finished, writes its blocks into D's memory and answers; D reports    *)
(* the request finished, or its blocks invalid, to the engine.              *)
(*                                                                          *)
(* A P worker is one asyncio loop with SenderTasks tasks that take requests *)
(* from a queue; an action is what a task does between two awaits.  A       *)
(* channel is one receive_kv_from_single_worker task: <<p, d, b>>.          *)
(*                                                                          *)
(* A SendBlockMeta is an object that outlives its entry in reqs_need_send.  *)
(* The object of request r at p is named after its creator: the D worker    *)
(* whose request came first, or Engine for record_send_reqs.                *)
(***************************************************************************)
EXTENDS Integers, Sequences, FiniteSets

CONSTANTS
    PW, DW,        \* prefill and decode workers
    Req,           \* requests (a transfer_id each)
    Batch, ReqsOf, \* ReqsOf[b]: the requests of one reqs_to_recv entry
    EmptyReq,      \* requests D wants no blocks for (full prefix cache hit)
    NeedSend,      \* len(handshake_target_ranks(...))
    SenderTasks,   \* num_sender_tasks
    RawFaults,     \* which of "transfer", "raise", "config", "bootstrap",
                   \* "crash" may happen
    Engine, None

ASSUME BatchAssumption ==
    /\ ReqsOf \in [Batch -> SUBSET Req]
    /\ \A b, c \in Batch : b # c => ReqsOf[b] \cap ReqsOf[c] = {}
ASSUME RawAssumption ==
    /\ Engine \notin DW /\ None \notin DW \cup {Engine}
    /\ NeedSend \in Nat \ {0} /\ SenderTasks \in Nat \ {0}
    /\ EmptyReq \subseteq Req
\* A P worker serves one D worker per target rank, or fewer.
ASSUME WorkerAssumption ==
    /\ IsFiniteSet(PW) /\ IsFiniteSet(DW)
    /\ Cardinality(DW) <= NeedSend

Ch == PW \X DW \X Batch
Obj == DW \cup {Engine}
Key == PW \X Req \X Obj      \* the objects: <<p, r, creator>>

VARIABLES
    sched,      \* what the P scheduler decided about a request
    seen,       \* what P worker p has applied of it
    up,         \* the P worker is running
    \* SendBlockMeta objects and reqs_need_send
    cur, ready, sent, sending,
    freed,      \* how often p put the request in _finished_sending
    \* sender tasks and their queue
    queue, task, pend, hold, cohort,
    late,       \* the channel's request found every sender task busy
    resp,       \* responses on the wire
    \* D workers
    dpc, count, failed,
    fin,        \* how often d put the request in _finished_recving
    inv         \* how often d put its blocks in _invalid_block_ids

objVars == <<cur, ready, sent, sending, freed>>
taskVars == <<queue, task, pend, hold, cohort, late>>
dVars == <<dpc, count, failed, fin, inv>>
rawVars == <<sched, seen, up, objVars, taskVars, resp, dVars>>

RawInit ==
    /\ sched = [r \in Req |-> "idle"]
    /\ seen = [p \in PW |-> [r \in Req |-> "idle"]]
    /\ up = [p \in PW |-> TRUE]
    /\ cur = [p \in PW |-> [r \in Req |-> None]]
    /\ ready = {}
    /\ sent = [k \in Key |-> 0]
    /\ sending = [k \in Key |-> 0]
    /\ freed = [p \in PW |-> [r \in Req |-> 0]]
    /\ queue = [p \in PW |-> <<>>]
    /\ task = [ch \in Ch |-> "none"]
    /\ pend = [ch \in Ch |-> {}]
    /\ hold = [ch \in Ch |-> [r \in Req |-> None]]
    /\ cohort = [ch \in Ch |-> {}]
    /\ late = [ch \in Ch |-> FALSE]
    /\ resp = [ch \in Ch |-> <<>>]
    /\ dpc = [ch \in Ch |-> "none"]
    /\ count = [d \in DW |-> [r \in Req |-> 0]]
    /\ failed = [d \in DW |-> {}]
    /\ fin = [d \in DW |-> [r \in Req |-> 0]]
    /\ inv = [d \in DW |-> [r \in Req |-> 0]]

-----------------------------------------------------------------------------
\* The P scheduler: update_state_after_alloc publishes a request when its
\* blocks are allocated; request_finished announces the blocks of a finished
\* prefill and drops a request that ended otherwise, scheduled or not.

SchedPublish(r) ==
    /\ sched[r] = "idle"
    /\ sched' = [sched EXCEPT ![r] = "published"]
    /\ UNCHANGED <<seen, up, objVars, taskVars, resp, dVars>>

SchedAnnounce(r) ==
    /\ sched[r] = "published"
    /\ sched' = [sched EXCEPT ![r] = "announced"]
    /\ UNCHANGED <<seen, up, objVars, taskVars, resp, dVars>>

SchedDrop(r) ==
    /\ sched[r] \in {"idle", "published"}
    /\ sched' = [sched EXCEPT ![r] = IF @ = "idle" THEN "aborted" ELSE "dropped"]
    /\ UNCHANGED <<seen, up, objVars, taskVars, resp, dVars>>

\* record_send_reqs on P worker p.  An entry D's request made is kept.
RecordPublish(p, r) ==
    /\ up[p] /\ sched[r] \in {"published", "announced", "dropped"}
    /\ seen[p][r] = "idle"
    /\ seen' = [seen EXCEPT ![p][r] = "published"]
    /\ cur' = [cur EXCEPT ![p][r] = IF @ = None THEN Engine ELSE @]
    /\ UNCHANGED <<sched, up, ready, sent, sending, freed, taskVars, resp, dVars>>

\* A transfer_id that is not in reqs_need_send raises KeyError.
RecordAnnounce(p, r) ==
    /\ up[p] /\ sched[r] = "announced" /\ seen[p][r] = "published"
    /\ seen' = [seen EXCEPT ![p][r] = "announced"]
    /\ ready' = ready \cup {k \in Key : k = <<p, r, cur[p][r]>>}
    /\ UNCHANGED <<sched, up, cur, sent, sending, freed, taskVars, resp, dVars>>

\* reqs_not_processed = N, a set: popping an entry that is not there raises
\* KeyError and leaves the entries not visited before it.
RecordDrop(p, N, popped) ==
    /\ up[p] /\ N # {}
    /\ \A r \in N : \/ sched[r] = "dropped" /\ seen[p][r] = "published"
                    \/ sched[r] = "aborted" /\ seen[p][r] = "idle"
    /\ LET present == {r \in N : cur[p][r] # None} IN
       /\ popped \subseteq present
       /\ present = N => popped = N
    /\ seen' = [seen EXCEPT ![p] = [r \in Req |-> IF r \in N THEN "dropped" ELSE @[r]]]
    /\ cur' = [cur EXCEPT ![p] = [r \in Req |-> IF r \in popped THEN None ELSE @[r]]]
    /\ UNCHANGED <<sched, up, ready, sent, sending, freed, taskVars, resp, dVars>>

\* A task that waits for object k has it in pend and wakes as soon as the
\* object is ready, and no transfer outlasts the abort timeout: an object that
\* expires is one no task waits for.
Overlooked(p, k) ==
    \A d \in DW, b \in Batch : LET ch == <<p, d, b>> IN
        ~ (k[2] \in pend[ch] /\ hold[ch][k[2]] = k[3])

\* Mutation: a request that is being sent may expire.
ExpiresMutant(k) == TRUE

Expires(k) == sending[k] = 0

\* _sweep_expired_sends: p_req_id and a finite expire_time are set together
\* with ready.
Sweep(p, r) == LET k == <<p, r, cur[p][r]>> IN
    /\ up[p] /\ k \in ready /\ Expires(k)
    /\ Overlooked(p, k)
    /\ freed' = [freed EXCEPT ![p][r] = @ + 1]
    /\ cur' = [cur EXCEPT ![p][r] = None]
    /\ UNCHANGED <<sched, seen, up, ready, sent, sending, taskVars, resp, dVars>>

-----------------------------------------------------------------------------
\* _sender_worker and send_kv_to_decode on P worker ch[1].

Respond(ch, status, ok, err) ==
    resp' = [resp EXCEPT ![ch] = Append(@, [status |-> status, ok |-> ok, err |-> err])]

Busy(p) == {ch \in Ch : ch[1] = p /\ task[ch] \in {"wait", "xfer"}}

Dequeue(p, ch) ==
    /\ up[p] /\ queue[p] # <<>> /\ ch = Head(queue[p])
    /\ Cardinality(Busy(p)) < SenderTasks
    /\ queue' = [queue EXCEPT ![p] = Tail(@)]

\* Every request of the batch gets the entry of its transfer, a new one if
\* the engine has not published it.
TakeRequest(p) == \E ch \in Ch :
    /\ Dequeue(p, ch)
    /\ LET entry == [r \in Req |-> IF r \in ReqsOf[ch[3]] /\ cur[p][r] = None
                                   THEN ch[2] ELSE cur[p][r]] IN
       /\ cur' = [cur EXCEPT ![p] = entry]
       /\ hold' = [hold EXCEPT ![ch] = entry]
    /\ pend' = [pend EXCEPT ![ch] = ReqsOf[ch[3]]]
    /\ task' = [task EXCEPT ![ch] = "wait"]
    /\ UNCHANGED <<sched, seen, up, ready, sent, sending, freed, cohort, late,
                   resp, dVars>>

\* The D worker is not paired with p, or the regions do not align.
RefuseRequest(p) == \E ch \in Ch :
    /\ "config" \in RawFaults
    /\ Dequeue(p, ch)
    /\ task' = [task EXCEPT ![ch] = "done"]
    /\ Respond(ch, "ERROR", {}, {})
    /\ UNCHANGED <<sched, seen, up, objVars, pend, hold, cohort, late, dVars>>

ReadyOf(ch) == {r \in pend[ch] : <<ch[1], r, hold[ch][r]>> \in ready}

\* The keys of the objects ch holds for the requests R.
Held(ch, R) == {<<ch[1], r, hold[ch][r]>> : r \in R}

\* asyncio.wait returns: claim the requests whose transfer_id is still in
\* reqs_need_send, forget the others, build the transfer and start it.
Wake(ch) == LET still == {r \in ReadyOf(ch) : cur[ch[1]][r] # None} IN
    /\ up[ch[1]] /\ task[ch] = "wait" /\ ReadyOf(ch) # {}
    /\ pend' = [pend EXCEPT ![ch] = @ \ ReadyOf(ch)]
    /\ cohort' = [cohort EXCEPT ![ch] = still]
    /\ sending' = [k \in Key |-> sending[k] + IF k \in Held(ch, still) THEN 1 ELSE 0]
    /\ task' = [task EXCEPT ![ch] = "xfer"]
    /\ UNCHANGED <<sched, seen, up, cur, ready, sent, freed, queue, hold, late,
                   resp, dVars>>

\* The requests whose sending is decremented, whatever became of them.
Unmarked(ch, E) == cohort[ch]

\* The transfer is over; the requests E have a block count that does not
\* match, or the engine returned an error.
XferEnd(ch, E) ==
    LET p == ch[1]
        ok == cohort[ch] \ E
        last == {r \in ok : /\ sent[<<p, r, hold[ch][r]>>] + 1 = NeedSend
                            /\ cur[p][r] # None}
    IN
    /\ up[p] /\ task[ch] = "xfer"
    /\ E \subseteq cohort[ch] /\ (E # {} => "transfer" \in RawFaults)
    /\ sending' = [k \in Key |->
                      sending[k] - IF k \in Held(ch, Unmarked(ch, E)) THEN 1 ELSE 0]
    /\ sent' = [k \in Key |-> sent[k] + IF k \in Held(ch, ok) THEN 1 ELSE 0]
    /\ freed' = [freed EXCEPT ![p] =
                    [r \in Req |-> @[r] + IF r \in last THEN 1 ELSE 0]]
    /\ cur' = [cur EXCEPT ![p] = [r \in Req |-> IF r \in last THEN None ELSE @[r]]]
    /\ Respond(ch, IF pend[ch] = {} THEN "FINISH" ELSE "CONTINUE", ok, E)
    /\ cohort' = [cohort EXCEPT ![ch] = {}]
    /\ task' = [task EXCEPT ![ch] = IF pend[ch] = {} THEN "done" ELSE "wait"]
    /\ UNCHANGED <<sched, seen, up, ready, queue, pend, hold, late, dVars>>

\* An exception in the transfer leaves send_kv_to_decode: sending keeps its
\* claims, the waiting tasks are abandoned, _sender_worker answers ERROR.
XferRaise(ch) ==
    /\ "raise" \in RawFaults
    /\ up[ch[1]] /\ task[ch] = "xfer" /\ cohort[ch] # {}
    /\ pend' = [pend EXCEPT ![ch] = {}]
    /\ task' = [task EXCEPT ![ch] = "raised"]
    /\ Respond(ch, "ERROR", {}, {})
    /\ UNCHANGED <<sched, seen, up, objVars, queue, hold, cohort, late, dVars>>

\* Mutation: the answer does not name the requests that timed out.
TimedOutMutant(ch) == {}

TimedOut(ch) == pend[ch]

\* Nothing became ready within VLLM_MOONCAKE_ABORT_REQUEST_TIMEOUT.
WaitTimeout(ch) ==
    /\ up[ch[1]] /\ task[ch] = "wait" /\ ReadyOf(ch) = {}
    /\ pend' = [pend EXCEPT ![ch] = {}]
    /\ task' = [task EXCEPT ![ch] = "done"]
    /\ Respond(ch, "FINISH", {}, TimedOut(ch))
    /\ UNCHANGED <<sched, seen, up, objVars, queue, hold, cohort, late, dVars>>

\* The P worker's process dies.
Crash(p) ==
    /\ "crash" \in RawFaults /\ up[p]
    /\ up' = [up EXCEPT ![p] = FALSE]
    /\ UNCHANGED <<sched, seen, objVars, taskVars, resp, dVars>>

-----------------------------------------------------------------------------
\* D worker d.

\* The requests of R that _handle_failed_recv reports.
NewlyFailed(d, R) == (R \ failed[d]) \ EmptyReq

\* _handle_failed_recv(pull_metas, R).
FailRecv(d, R) ==
    LET report == NewlyFailed(d, R) IN
    /\ failed' = [failed EXCEPT ![d] = @ \cup R]
    /\ inv' = [inv EXCEPT ![d] = [r \in Req |-> @[r] + IF r \in report THEN 1 ELSE 0]]
    /\ fin' = [fin EXCEPT ![d] = [r \in Req |-> @[r] + IF r \in report THEN 1 ELSE 0]]

Idle(d, b) == \A p \in PW : dpc[<<p, d, b>>] = "none"
To(d, b, pc) == dpc' = [ch \in Ch |-> IF ch[2] = d /\ ch[3] = b THEN pc ELSE dpc[ch]]

\* Mutation: only one worker is counted.
PullTasksOne(d) == 1

\* pull_tasks_count: len(worker_addrs).
PullTasks(d) == Cardinality(PW)

\* receive_kv: one task per P worker sends the batch's metadata.
ReceiveKv(d, b) ==
    /\ Idle(d, b)
    /\ To(d, b, "recv")
    /\ count' = [count EXCEPT ![d] =
          [r \in Req |-> IF r \in ReqsOf[b] THEN PullTasks(d) ELSE @[r]]]
    /\ queue' = [p \in PW |-> Append(queue[p], <<p, d, b>>)]
    /\ late' = [ch \in Ch |->
          \/ late[ch]
          \/ /\ ch[2] = d /\ ch[3] = b
             /\ Cardinality(Busy(ch[1])) + Len(queue[ch[1]]) >= SenderTasks]
    /\ task' = [ch \in Ch |-> IF ch[2] = d /\ ch[3] = b THEN "queued" ELSE task[ch]]
    /\ UNCHANGED <<sched, seen, up, objVars, pend, hold, cohort, resp, failed, fin, inv>>

\* handle_new_engine_id: the bootstrap server does not know the engine.
EngineUnknown(d, b) ==
    /\ "bootstrap" \in RawFaults
    /\ Idle(d, b)
    /\ To(d, b, "done")
    /\ FailRecv(d, ReqsOf[b])
    /\ UNCHANGED <<sched, seen, up, objVars, taskVars, resp, count>>

\* process_pulling_result: the requests that finish with response ok.
Completed(d, ok) == {r \in ok \ failed[d] : count[d][r] = 1}

\* The requests a response fails: an ERROR fails the batch.
FailedBy(ch, m) == IF m.status = "ERROR" THEN ReqsOf[ch[3]] ELSE m.err

\* receive_kv_from_single_worker reads a response.
OnResponse(ch) ==
    LET d == ch[2]
        m == Head(resp[ch])
        err == FailedBy(ch, m)
        report == NewlyFailed(d, err)
    IN
    /\ dpc[ch] = "recv" /\ resp[ch] # <<>>
    /\ resp' = [resp EXCEPT ![ch] = Tail(@)]
    /\ count' = [count EXCEPT ![d] =
          [r \in Req |-> @[r] - IF r \in m.ok \ failed[d] THEN 1 ELSE 0]]
    /\ failed' = [failed EXCEPT ![d] = @ \cup err]
    /\ inv' = [inv EXCEPT ![d] = [r \in Req |-> @[r] + IF r \in report THEN 1 ELSE 0]]
    /\ fin' = [fin EXCEPT ![d] = [r \in Req |->
          @[r] + IF r \in report \cup Completed(d, m.ok) THEN 1 ELSE 0]]
    /\ dpc' = [dpc EXCEPT ![ch] = IF m.status = "CONTINUE" THEN "recv" ELSE "done"]
    /\ late' = [late EXCEPT ![ch] = FALSE]
    /\ UNCHANGED <<sched, seen, up, objVars, queue, task, pend, hold, cohort>>

\* RCVTIMEO is 60 seconds longer than P's wait, so it passes only when P is
\* gone or had no sender task for the request in time.
OnTimeout(ch) ==
    /\ dpc[ch] = "recv" /\ resp[ch] = <<>>
    /\ ~up[ch[1]] \/ late[ch]
    /\ FailRecv(ch[2], ReqsOf[ch[3]])
    /\ dpc' = [dpc EXCEPT ![ch] = "done"]
    /\ UNCHANGED <<sched, seen, up, objVars, taskVars, resp, count>>

-----------------------------------------------------------------------------
RawNext ==
    \/ \E r \in Req : SchedPublish(r) \/ SchedAnnounce(r) \/ SchedDrop(r)
    \/ \E p \in PW :
          \/ \E r \in Req : RecordPublish(p, r) \/ RecordAnnounce(p, r) \/ Sweep(p, r)
          \/ \E N \in SUBSET Req : \E popped \in SUBSET N : RecordDrop(p, N, popped)
          \/ TakeRequest(p) \/ RefuseRequest(p) \/ Crash(p)
    \/ \E ch \in Ch :
          \/ Wake(ch) \/ XferRaise(ch) \/ WaitTimeout(ch)
          \/ \E E \in SUBSET Req : XferEnd(ch, E)
          \/ OnResponse(ch) \/ OnTimeout(ch)
    \/ \E d \in DW, b \in Batch : ReceiveKv(d, b) \/ EngineUnknown(d, b)

RawSpec == RawInit /\ [][RawNext]_rawVars

\* What the event loops and the timers do when nothing fails: a loop runs its
\* ready tasks, a prefill ends, a transfer returns, a timeout passes.
RawProgress ==
    \/ \E r \in Req : SchedPublish(r) \/ SchedAnnounce(r)
    \/ \E p \in PW :
          \/ TakeRequest(p)
          \/ \E r \in Req : RecordPublish(p, r) \/ RecordAnnounce(p, r) \/ Sweep(p, r)
    \/ \E ch \in Ch :
          \/ Wake(ch) \/ WaitTimeout(ch) \/ OnResponse(ch) \/ OnTimeout(ch)
          \/ \E E \in SUBSET Req : XferEnd(ch, E)

-----------------------------------------------------------------------------
\* A P worker reports a request as sent at most once, and only when no task
\* transfers its blocks: the engine frees them then.
RawBlocksHeld ==
    /\ \A p \in PW, r \in Req : freed[p][r] <= 1
    /\ \A ch \in Ch : task[ch] = "xfer" => \A r \in cohort[ch] : freed[ch[1]][r] = 0

\* A request reported finished without invalid blocks has been written by
\* every P worker, and none still writes it.
FinishedMeansWritten == \A d \in DW, r \in Req :
    (fin[d][r] > 0 /\ inv[d][r] = 0) =>
        /\ \A p \in PW : \E o \in Obj : sent[<<p, r, o>>] > 0
        /\ \A ch \in Ch : ch[2] = d /\ task[ch] = "xfer" => r \notin cohort[ch]

\* Nobody waits for ever: when no loop has a step left, every request D asked
\* for is reported as finished receiving (get_block_ids_with_load_errors: even if
\* failures occur), and blocks P keeps for D are given back, pulled or not, unless
\* the P worker is gone or a sender task was ended by an exception.
RawNoneWaiting ==
    ~ ENABLED RawProgress =>
        /\ \A d \in DW, b \in Batch : \A r \in ReqsOf[b] \ EmptyReq : ~ Idle(d, b) => fin[d][r] > 0
        /\ \A p \in PW, r \in Req : seen[p][r] = "announced" =>
              \/ freed[p][r] > 0 \/ ~ up[p]
              \/ \E ch \in Ch : ch[1] = p /\ task[ch] = "raised"
=============================================================================
