-------------------------- MODULE SessionProducer --------------------------
(***************************************************************************)
(* kvsfuse-vllm0.30.0/mooncake/session_process.py, the producer half of the *)
(* helper process: one asyncio service that answers SessionOpen, ChunkPull  *)
(* and Abort requests, sends encode jobs to the engine process, and tells   *)
(* the engine when the KV blocks of a request may be freed (FinalEvent).    *)
(*                                                                          *)
(* A session is one operation key (transfer_id, d_req_id, nonce) with its   *)
(* own DEALER socket.  The requests of a session arrive in order.  An       *)
(* action is what a task does between two awaits; asyncio starts tasks in   *)
(* the order they are created, so a request's dispatch and the first        *)
(* segment of its task are one action.                                      *)
(*                                                                          *)
(* A _SendState is an object that outlives its entry in _send_meta.  Object *)
(* s is the placeholder the open of session s creates, object t the one the *)
(* engine's metadata creates for transfer t.                                *)
(***************************************************************************)
EXTENDS Integers, Sequences, FiniteSets

CONSTANTS
    Session, Transfer,
    TransferOf,    \* TransferOf[s]: the transfer session s pulls
    TotalChunks,   \* TotalChunks[s]: what the open job of s computes
    MaxChunks,     \* a bound on TotalChunks
    NeedSend,      \* len(handshake_target_ranks(...))
    SenderSlot,    \* ids of the producer's compression slots
    JobFaults,     \* which of "open", "encode", "decode" jobs may fail
    None

Chunk == 0 .. (MaxChunks - 1)
Obj == Session \cup Transfer
\* Requests on the wire: a ChunkPull is its chunk id.
OpenReq == -1
AbortReq == -2

ASSUME SessionAssumption ==
    /\ Session \cap Transfer = {}
    /\ None \notin Session \cup Transfer \cup SenderSlot
    /\ TransferOf \in [Session -> Transfer]
ASSUME ChunkAssumption ==
    /\ MaxChunks \in Nat
    /\ TotalChunks \in [Session -> 0 .. MaxChunks]
ASSUME NeedSendAssumption == NeedSend \in Nat \ {0}
\* A transfer is pulled by one session per target rank, or by fewer.
ASSUME TargetAssumption ==
    \A t \in Transfer :
        /\ IsFiniteSet({s \in Session : TransferOf[s] = t})
        /\ Cardinality({s \in Session : TransferOf[s] = t}) <= NeedSend

VARIABLES
    \* engine process
    eng,        \* what the engine has told the helper about a transfer
    finals,     \* FinalEvents received for a transfer
    \* _SendState objects and the _send_meta dictionary
    meta, named, ready, need, sent, sending,
    \* tasks, sessions and sender slots
    openPc, openObj,
    inSess,     \* the session is in _producer_sessions
    state,      \* _ProducerSession.state
    completed, inflight,
    pull, slotOf,
    abortPc, closed,
    free,       \* how many times a slot id is in _sender_slots
    \* the wire
    req, resp

engVars == <<eng, finals>>
objVars == <<meta, named, ready, need, sent, sending>>
sessVars == <<inSess, state, completed, inflight>>
slotVars == <<pull, slotOf, free>>
prodVars == <<engVars, objVars, openPc, openObj, sessVars, slotVars, abortPc,
              closed, req, resp>>

TOf(o) == IF o \in Session THEN TransferOf[o] ELSE o

Opened(ok) == [kind |-> "opened", chunk |-> 0, ok |-> ok]
ChunkReady(c, ok) == [kind |-> "ready", chunk |-> c, ok |-> ok]
AbortAck(ok) == [kind |-> "ack", chunk |-> 0, ok |-> ok]

Reply(s, m) == resp' = [resp EXCEPT ![s] = Append(@, m)]
NextRequest(s) == req' = [req EXCEPT ![s] = Tail(@)]

ProdInit ==
    /\ eng = [t \in Transfer |-> "idle"]
    /\ finals = [t \in Transfer |-> 0]
    /\ meta = [t \in Transfer |-> None]
    /\ named = [o \in Obj |-> FALSE]
    /\ ready = [o \in Obj |-> FALSE]
    /\ need = [o \in Obj |-> 0]
    /\ sent = [o \in Obj |-> 0]
    /\ sending = [o \in Obj |-> 0]
    /\ openPc = [s \in Session |-> "none"]
    /\ openObj = [s \in Session |-> None]
    /\ inSess = [s \in Session |-> FALSE]
    /\ state = [s \in Session |-> "none"]
    /\ completed = [s \in Session |-> 0]
    /\ inflight = [s \in Session |-> 0]
    /\ pull = [s \in Session |-> [c \in Chunk |-> "none"]]
    /\ slotOf = [s \in Session |-> [c \in Chunk |-> None]]
    /\ abortPc = [s \in Session |-> "none"]
    /\ closed = [s \in Session |-> FALSE]
    /\ free = [k \in SenderSlot |-> 1]
    /\ req = [s \in Session |-> <<>>]
    /\ resp = [s \in Session |-> <<>>]

-----------------------------------------------------------------------------
\* _apply_producer_metadata.  The scheduler publishes a request when it is
\* allocated and later announces its blocks or drops it, once.

\* The object an announcement or a publication of t lands in.
MetaObj(t) == IF meta[t] = None THEN t ELSE meta[t]

Publish(t) ==
    /\ eng[t] = "idle"
    /\ eng' = [eng EXCEPT ![t] = "published"]
    /\ meta' = [meta EXCEPT ![t] = MetaObj(t)]
    /\ named' = [named EXCEPT ![MetaObj(t)] = TRUE]
    /\ UNCHANGED <<finals, ready, need, sent, sending, openPc, openObj, sessVars,
                   slotVars, abortPc, closed, req, resp>>

Announce(t) ==
    /\ eng[t] \in {"idle", "published"}
    /\ eng' = [eng EXCEPT ![t] = "announced"]
    /\ meta' = [meta EXCEPT ![t] = MetaObj(t)]
    /\ named' = [named EXCEPT ![MetaObj(t)] = TRUE]
    /\ ready' = [ready EXCEPT ![MetaObj(t)] = TRUE]
    /\ UNCHANGED <<finals, need, sent, sending, openPc, openObj, sessVars,
                   slotVars, abortPc, closed, req, resp>>

Drop(t) ==
    /\ eng[t] \in {"idle", "published"}
    /\ eng' = [eng EXCEPT ![t] = "dropped"]
    /\ meta' = [meta EXCEPT ![t] = None]
    /\ UNCHANGED <<finals, named, ready, need, sent, sending, openPc, openObj,
                   sessVars, slotVars, abortPc, closed, req, resp>>

\* Mutation: a transfer that is being sent may expire.
SweepMutant(t) ==
    /\ meta[t] # None
    /\ named[meta[t]] /\ ready[meta[t]]
    /\ finals' = [finals EXCEPT ![t] = @ + 1]
    /\ meta' = [meta EXCEPT ![t] = None]
    /\ UNCHANGED <<eng, named, ready, need, sent, sending, openPc, openObj,
                   sessVars, slotVars, abortPc, closed, req, resp>>

\* _sweep_sends: an announced transfer that nobody is pulling has expired.
\* expire_time is finite from the announcement on.  It lies 480 s ahead and an
\* open that waits for the announcement polls every 50 ms, so none is waiting
\* on an announced object any more.
Sweep(t) ==
    /\ meta[t] # None
    /\ named[meta[t]] /\ ready[meta[t]]
    /\ \A s \in Session : openPc[s] = "wait" => openObj[s] # meta[t]
    /\ sending[meta[t]] = 0
    /\ finals' = [finals EXCEPT ![t] = @ + 1]
    /\ meta' = [meta EXCEPT ![t] = None]
    /\ UNCHANGED <<eng, named, ready, need, sent, sending, openPc, openObj,
                   sessVars, slotVars, abortPc, closed, req, resp>>

-----------------------------------------------------------------------------
\* Session bookkeeping

\* _finish_send_meta: one target is done; snd is what sending was before, and
\* n is the object's need_send.
FinishSendMeta(o, snd, n) ==
    /\ sending' = [snd EXCEPT ![o] = @ - 1]
    /\ sent' = [sent EXCEPT ![o] = @ + 1]
    /\ IF sent[o] + 1 = n /\ meta[TOf(o)] # None
       THEN /\ meta' = [meta EXCEPT ![TOf(o)] = None]
            /\ finals' = [finals EXCEPT ![TOf(o)] = @ + 1]
       ELSE UNCHANGED <<meta, finals>>

\* _complete_producer_session and _discard_producer_session: only the task
\* that takes the session out of _producer_sessions finishes its target.
EndSession(s) ==
    IF inSess[s]
    THEN /\ inSess' = [inSess EXCEPT ![s] = FALSE]
         /\ FinishSendMeta(openObj[s], sending, need[openObj[s]])
    ELSE UNCHANGED <<inSess, sending, sent, meta, finals>>

\* Mutation: a failed session stays in _producer_sessions.
DiscardIdleMutant(s, st, n) == UNCHANGED <<inSess, sending, sent, meta, finals>>

\* _discard_producer_session as the last chunk task or an abort calls it: st
\* is the session's state and n its chunks in flight.
DiscardIdle(s, st, n) ==
    IF n = 0 /\ st \in {"CANCELLED", "FAILED"}
    THEN EndSession(s)
    ELSE UNCHANGED <<inSess, sending, sent, meta, finals>>

-----------------------------------------------------------------------------
\* SessionOpen

\* _open_producer_session up to _wait_ready
DispatchOpen(s) ==
    /\ req[s] # <<>> /\ Head(req[s]) = OpenReq
    /\ NextRequest(s)
    /\ LET o == IF meta[TransferOf[s]] = None THEN s ELSE meta[TransferOf[s]]
       IN  /\ meta' = [meta EXCEPT ![TransferOf[s]] = o]
           /\ openObj' = [openObj EXCEPT ![s] = o]
    /\ openPc' = [openPc EXCEPT ![s] = "wait"]
    /\ UNCHANGED <<engVars, named, ready, need, sent, sending, sessVars, slotVars,
                   abortPc, closed, resp>>

\* The block table is announced: claim a target, then submit the open job
\* unless the session was aborted meanwhile.
OpenReady(s) ==
    /\ openPc[s] = "wait"
    /\ ready[openObj[s]]
    /\ LET claimed == [sending EXCEPT ![openObj[s]] = @ + 1]
           n == IF need[openObj[s]] = 0 THEN NeedSend ELSE need[openObj[s]]
       IN  /\ need' = [need EXCEPT ![openObj[s]] = n]
           /\ IF closed[s]
              THEN /\ openPc' = [openPc EXCEPT ![s] = "done"]
                   /\ FinishSendMeta(openObj[s], claimed, n)
                   /\ Reply(s, Opened(FALSE))
              ELSE /\ openPc' = [openPc EXCEPT ![s] = "job"]
                   /\ sending' = claimed
                   /\ UNCHANGED <<sent, meta, finals, resp>>
    /\ UNCHANGED <<eng, named, ready, openObj, sessVars, slotVars, abortPc, closed, req>>

\* The session was aborted, or the announcement did not come in time: an
\* unannounced placeholder of this open is removed.
OpenAbandon(s) ==
    /\ openPc[s] = "wait"
    /\ ~ ready[openObj[s]]
    /\ openPc' = [openPc EXCEPT ![s] = "done"]
    /\ meta' = IF /\ openObj[s] = s /\ meta[TransferOf[s]] = s
                  /\ ~ named[s] /\ sending[s] = 0
               THEN [meta EXCEPT ![TransferOf[s]] = None]
               ELSE meta
    /\ Reply(s, Opened(FALSE))
    /\ UNCHANGED <<engVars, named, ready, need, sent, sending, openObj, sessVars,
                   slotVars, abortPc, closed, req>>

\* The open job is done.  A session without chunks completes at once.
OpenDone(s) ==
    /\ openPc[s] = "job"
    /\ openPc' = [openPc EXCEPT ![s] = "done"]
    /\ Reply(s, Opened(TRUE))
    /\ IF TotalChunks[s] = 0
       THEN /\ state' = [state EXCEPT ![s] = "COMPLETE"]
            /\ closed' = [closed EXCEPT ![s] = TRUE]
            /\ FinishSendMeta(openObj[s], sending, need[openObj[s]])
            /\ UNCHANGED inSess
       ELSE /\ inSess' = [inSess EXCEPT ![s] = TRUE]
            /\ state' = [state EXCEPT ![s] = "ACTIVE"]
            /\ UNCHANGED <<closed, sending, sent, meta, finals>>
    /\ UNCHANGED <<eng, named, ready, need, openObj, completed, inflight, slotVars,
                   abortPc, req>>

OpenFailed(s) ==
    /\ openPc[s] = "job"
    /\ "open" \in JobFaults
    /\ openPc' = [openPc EXCEPT ![s] = "done"]
    /\ Reply(s, Opened(FALSE))
    /\ FinishSendMeta(openObj[s], sending, need[openObj[s]])
    /\ UNCHANGED <<eng, named, ready, need, openObj, sessVars, slotVars, abortPc,
                   closed, req>>

-----------------------------------------------------------------------------
\* ChunkPull: _serve_producer_chunk

SetPull(s, c, v) == pull' = [pull EXCEPT ![s][c] = v]

DispatchPull(s) ==
    /\ req[s] # <<>> /\ Head(req[s]) \in Chunk
    /\ inSess[s] /\ state[s] = "ACTIVE"
    /\ NextRequest(s)
    /\ SetPull(s, Head(req[s]), "slot")
    /\ inflight' = [inflight EXCEPT ![s] = @ + 1]
    /\ UNCHANGED <<engVars, objVars, openPc, openObj, inSess, state, completed, slotOf,
                   free, abortPc, closed, resp>>

\* Unknown session, or one that is not ACTIVE any more: answered with an error.
RefusePull(s) ==
    /\ req[s] # <<>> /\ Head(req[s]) \in Chunk
    /\ ~ (inSess[s] /\ state[s] = "ACTIVE")
    /\ NextRequest(s)
    /\ Reply(s, ChunkReady(Head(req[s]), FALSE))
    /\ IF inSess[s]
       THEN /\ state' = [state EXCEPT ![s] = "FAILED"]
            /\ DiscardIdle(s, "FAILED", inflight[s])
       ELSE UNCHANGED <<state, inSess, sending, sent, meta, finals>>
    /\ SetPull(s, Head(req[s]), "done")
    /\ UNCHANGED <<eng, named, ready, need, openPc, openObj, completed, inflight, slotOf,
                   free, abortPc, closed>>

\* The task gets slot k.  When the session ended meanwhile the slot is drained
\* and goes back, otherwise the encode job is submitted.
PullSlot(s, c, k) ==
    /\ pull[s][c] = "slot"
    /\ free[k] > 0
    /\ free' = [free EXCEPT ![k] = @ - 1]
    /\ slotOf' = [slotOf EXCEPT ![s][c] = k]
    /\ IF state[s] = "ACTIVE" /\ ~ closed[s]
       THEN SetPull(s, c, "job") /\ UNCHANGED state
       ELSE SetPull(s, c, "drain") /\ state' = [state EXCEPT ![s] = "FAILED"]
    /\ UNCHANGED <<engVars, objVars, openPc, openObj, inSess, completed, inflight,
                   abortPc, closed, req, resp>>

\* The finally of _serve_producer_chunk
ReleaseSlot(s, c) ==
    /\ free' = [free EXCEPT ![slotOf[s][c]] = @ + 1]
    /\ slotOf' = [slotOf EXCEPT ![s][c] = None]
    /\ SetPull(s, c, "done")
    /\ inflight' = [inflight EXCEPT ![s] = @ - 1]

\* The chunk is encoded and written into the receiver's slot.
EncodeDone(s, c) ==
    /\ pull[s][c] = "job"
    /\ ReleaseSlot(s, c)
    /\ completed' = [completed EXCEPT ![s] = @ + 1]
    /\ Reply(s, ChunkReady(c, TRUE))
    /\ IF state[s] = "ACTIVE" /\ completed[s] + 1 = TotalChunks[s]
       THEN /\ EndSession(s)
            /\ state' = [state EXCEPT ![s] = IF inSess[s] THEN "COMPLETE" ELSE @]
            /\ closed' = [closed EXCEPT ![s] = @ \/ inSess[s]]
       ELSE /\ DiscardIdle(s, state[s], inflight[s] - 1)
            /\ UNCHANGED <<state, closed>>
    /\ UNCHANGED <<eng, named, ready, need, openPc, openObj, abortPc, req>>

EncodeFailed(s, c) ==
    /\ pull[s][c] = "job"
    /\ "encode" \in JobFaults
    /\ state' = [state EXCEPT ![s] = "FAILED"]
    /\ SetPull(s, c, "drain")
    /\ UNCHANGED <<engVars, objVars, openPc, openObj, inSess, completed, inflight,
                   slotOf, free, abortPc, closed, req, resp>>

\* Mutation: the failed chunk's slot is not put back.
DrainDoneMutant(s, c) ==
    /\ pull[s][c] = "drain"
    /\ SetPull(s, c, "done")
    /\ slotOf' = [slotOf EXCEPT ![s][c] = None]
    /\ inflight' = [inflight EXCEPT ![s] = @ - 1]
    /\ Reply(s, ChunkReady(c, FALSE))
    /\ DiscardIdle(s, state[s], inflight[s] - 1)
    /\ UNCHANGED <<free, eng, named, ready, need, openPc, openObj, state, completed,
                   abortPc, closed, req>>

\* The slot's stream is drained (or draining it failed, which is only logged):
\* the slot goes back and the error is answered.
DrainDone(s, c) ==
    /\ pull[s][c] = "drain"
    /\ ReleaseSlot(s, c)
    /\ Reply(s, ChunkReady(c, FALSE))
    /\ DiscardIdle(s, state[s], inflight[s] - 1)
    /\ UNCHANGED <<eng, named, ready, need, openPc, openObj, state, completed,
                   abortPc, closed, req>>

-----------------------------------------------------------------------------
\* Abort: _abort_producer

\* The abort waits for the tasks the operation has now and, when the session
\* exists, for its chunks in flight.
DispatchAbort(s) ==
    /\ req[s] # <<>> /\ Head(req[s]) = AbortReq
    /\ NextRequest(s)
    /\ closed' = [closed EXCEPT ![s] = TRUE]
    /\ abortPc' = [abortPc EXCEPT ![s] = IF inSess[s] THEN "drain" ELSE "open"]
    /\ IF inSess[s]
       THEN /\ state' = [state EXCEPT ![s] = "CANCELLED"]
            /\ DiscardIdle(s, "CANCELLED", inflight[s])
       ELSE UNCHANGED <<state, inSess, sending, sent, meta, finals>>
    /\ UNCHANGED <<eng, named, ready, need, openPc, openObj, completed, inflight,
                   slotVars, resp>>

\* No chunk task of the session is left.
ChunksDone(s) == \A c \in Chunk : pull[s][c] \in {"none", "done"}

\* Mutation: the chunks in flight are not waited for.
DrainOverMutant(s) ==
    /\ abortPc[s] \in {"drain", "open"}
    /\ openPc[s] \notin {"wait", "job"}

\* What drain() waits for is over.  Without a session the only task an abort
\* can have found is the open.
DrainOver(s) ==
    /\ abortPc[s] \in {"drain", "open"}
    /\ openPc[s] \notin {"wait", "job"}
    /\ abortPc[s] = "drain" => ChunksDone(s)

\* The abort is answered; a session that an open task in flight created is
\* cancelled now.
AbortAnswer(s, ok) ==
    /\ abortPc' = [abortPc EXCEPT ![s] = "done"]
    /\ IF inSess[s]
       THEN /\ state' = [state EXCEPT ![s] = "CANCELLED"]
            /\ DiscardIdle(s, "CANCELLED", inflight[s])
       ELSE UNCHANGED <<state, inSess, sending, sent, meta, finals>>
    /\ Reply(s, AbortAck(ok))
    /\ UNCHANGED <<eng, named, ready, need, openPc, openObj, completed, inflight,
                   slotVars, closed, req>>

AbortDrained(s) == DrainOver(s) /\ AbortAnswer(s, TRUE)

\* The engine runs no job of the session.
NoJob(s) == openPc[s] \notin {"wait", "job"} /\ \A c \in Chunk : pull[s][c] # "job"

\* The drain has lasted 480 s.  A closed session submits no job, and a job that
\* ran when the abort came has ended; a chunk may still wait for a slot that
\* other sessions hold, or for the stream of its own.
AbortExpired(s) ==
    /\ abortPc[s] = "drain" /\ ~ DrainOver(s) /\ NoJob(s)
    /\ AbortAnswer(s, FALSE)

-----------------------------------------------------------------------------
\* The consumers, seen from the producer: a session is opened once, pulls a
\* chunk at most once and is aborted at most once.  Answers are read in order.

Ask(s, m) == req' = [req EXCEPT ![s] = Append(@, m)]
Unasked(s, m) == m \notin {req[s][i] : i \in DOMAIN req[s]}

ClientOpen(s) ==
    /\ openPc[s] = "none" /\ req[s] = <<>>
    /\ Ask(s, OpenReq)
    /\ UNCHANGED <<engVars, objVars, openPc, openObj, sessVars, slotVars, abortPc,
                   closed, resp>>

ClientPull(s, c) ==
    /\ openPc[s] = "done" /\ c < TotalChunks[s]
    /\ pull[s][c] = "none" /\ Unasked(s, c)
    /\ Ask(s, c)
    /\ UNCHANGED <<engVars, objVars, openPc, openObj, sessVars, slotVars, abortPc,
                   closed, resp>>

ClientAbort(s) ==
    /\ openPc[s] # "none"
    /\ abortPc[s] = "none" /\ Unasked(s, AbortReq)
    /\ Ask(s, AbortReq)
    /\ UNCHANGED <<engVars, objVars, openPc, openObj, sessVars, slotVars, abortPc,
                   closed, resp>>

ClientRead(s) ==
    /\ resp[s] # <<>>
    /\ resp' = [resp EXCEPT ![s] = Tail(@)]
    /\ UNCHANGED <<engVars, objVars, openPc, openObj, sessVars, slotVars, abortPc,
                   closed, req>>

-----------------------------------------------------------------------------
Engine(t) == Publish(t) \/ Announce(t) \/ Drop(t)

OpenTask(s) ==
    DispatchOpen(s) \/ OpenReady(s) \/ OpenAbandon(s) \/ OpenDone(s) \/ OpenFailed(s)

ChunkTask(s) ==
    \/ DispatchPull(s) \/ RefusePull(s)
    \/ \E c \in Chunk :
          \/ \E k \in SenderSlot : PullSlot(s, c, k)
          \/ EncodeDone(s, c) \/ EncodeFailed(s, c) \/ DrainDone(s, c)

AbortTask(s) == DispatchAbort(s) \/ AbortDrained(s) \/ AbortExpired(s)

Producer ==
    \/ \E t \in Transfer : Engine(t) \/ Sweep(t)
    \/ \E s \in Session : OpenTask(s) \/ ChunkTask(s) \/ AbortTask(s)

-----------------------------------------------------------------------------
\* Properties

\* Sessions in whose name the engine reads the KV blocks of transfer t: the
\* open job sends the raw groups, an encode job compresses a chunk.
Reading(t) ==
    {s \in Session : /\ TransferOf[s] = t
                     /\ \/ openPc[s] = "job"
                        \/ \E c \in Chunk : pull[s][c] = "job"}

\* The engine is told that a request was sent (or expired), and so frees its KV
\* blocks, at most once, only for a request that was announced, and only when no
\* job reads them and none will: sweep, completion, failure and abort race for
\* the one entry of _send_meta.
BlocksHeld ==
    \A t \in Transfer :
        /\ finals[t] <= 1
        /\ finals[t] = 1 => eng[t] = "announced" /\ Reading(t) = {}

Holders(k) == {sc \in Session \X Chunk : slotOf[sc[1]][sc[2]] = k}

\* Every sender slot is in the pool once or held by one chunk task.
SenderSlotsConserved ==
    \A k \in SenderSlot : free[k] + Cardinality(Holders(k)) = 1

\* After an answered abort, drained or not, no job of the session writes into the
\* receiver's memory and none will: a chunk task that still waits for a slot finds
\* the operation closed.
AckMeansQuiet == \A s \in Session : abortPc[s] = "done" => NoJob(s)
=============================================================================
