-------------------------- MODULE SessionConsumer --------------------------
(***************************************************************************)
(* kvsfuse-vllm0.30.0/mooncake/session_process.py, the consumer half of the *)
(* helper (_run_consumer_session) composed with the producer half it talks  *)
(* to.  Each session is one coroutine with child tasks that run beside it:  *)
(* the issuer (issue_all), the pending receive (recv_one) and one decode    *)
(* task per answered chunk.  Receiver slots are taken by the issuer, named  *)
(* in the ChunkPull, written by the remote encode job, read by the decode   *)
(* job and put back by the decode task or by the session's finally.         *)
(***************************************************************************)
EXTENDS SessionProducer

CONSTANTS
    RecvSlot,    \* ids of the receivers' compression slots
    SlotsOf      \* SlotsOf[s]: the slots of the rank that runs session s

ASSUME RecvSlotAssumption ==
    /\ None \notin RecvSlot
    /\ SlotsOf \in [Session -> SUBSET RecvSlot]

VARIABLES
    cpc,        \* where the session coroutine is
    next,       \* the next chunk issue_all will pull
    target,     \* target[s][c]: the slot named in the pull of chunk c
    owned,      \* the coroutine's set of slots it must put back
    completedC, \* answered chunks
    decode,     \* the decode task of a chunk
    outcome,    \* failed_blocks of RecvDone: none or all
    rfree       \* how many times a slot id is in _receiver_slots

consVars == <<cpc, next, target, owned, completedC, decode, outcome, rfree>>
sessionVars == <<prodVars, consVars>>

\* The producer works on nothing for s.
NothingRuns(s) == openPc[s] \notin {"wait", "job"} /\ ChunksDone(s)

ConsInit ==
    /\ ProdInit
    /\ cpc = [s \in Session |-> "idle"]
    /\ next = [s \in Session |-> 0]
    /\ target = [s \in Session |-> [c \in Chunk |-> None]]
    /\ owned = [s \in Session |-> {}]
    /\ completedC = [s \in Session |-> 0]
    /\ decode = [s \in Session |-> [c \in Chunk |-> "none"]]
    /\ outcome = [s \in Session |-> "none"]
    /\ rfree = [k \in RecvSlot |-> 1]

GoTo(s, pc) == cpc' = [cpc EXCEPT ![s] = pc]
NoDecode(s) == \A c \in Chunk : decode[s][c] # "job"

-----------------------------------------------------------------------------
\* sock.send(open_request)
SessionStart(s) ==
    /\ cpc[s] = "idle"
    /\ GoTo(s, "opening")
    /\ ClientOpen(s)
    /\ UNCHANGED <<next, target, owned, completedC, decode, outcome, rfree>>

\* CompressionSessionOpened arrives; without chunks the session is over.  A
\* refused session has no issuer, so it has nothing left to pull.
SessionOpened(s) ==
    /\ cpc[s] = "opening"
    /\ resp[s] # <<>>
    /\ ClientRead(s)
    /\ IF Head(resp[s]).ok
       THEN /\ GoTo(s, IF TotalChunks[s] = 0 THEN "cleanup" ELSE "stream")
            /\ UNCHANGED next
       ELSE /\ GoTo(s, "failing")
            /\ next' = [next EXCEPT ![s] = TotalChunks[s]]
    /\ UNCHANGED <<target, owned, completedC, decode, outcome, rfree>>

\* issue_all pulls the next chunk into slot k.  It runs until the finally
\* cancels it, during an abort too.
IssueChunk(s, k) ==
    /\ cpc[s] \in {"stream", "aborting"}
    /\ next[s] < TotalChunks[s]
    /\ k \in SlotsOf[s] /\ rfree[k] > 0
    /\ rfree' = [rfree EXCEPT ![k] = @ - 1]
    /\ owned' = [owned EXCEPT ![s] = @ \cup {k}]
    /\ target' = [target EXCEPT ![s][next[s]] = k]
    /\ ClientPull(s, next[s])
    /\ next' = [next EXCEPT ![s] = @ + 1]
    /\ UNCHANGED <<cpc, completedC, decode, outcome>>

\* Mutation: an answer that carries an error counts as a completed chunk.
RecvReadyMutant(s) ==
    /\ cpc[s] = "stream"
    /\ resp[s] # <<>>
    /\ ClientRead(s)
    /\ decode' = IF Head(resp[s]).ok
                 THEN [decode EXCEPT ![s][Head(resp[s]).chunk] = "job"]
                 ELSE decode
    /\ completedC' = [completedC EXCEPT ![s] = @ + 1]
    /\ GoTo(s, IF completedC[s] + 1 = TotalChunks[s] THEN "leave" ELSE "stream")
    /\ UNCHANGED <<next, target, owned, outcome, rfree>>

\* recv_one returns a ChunkReady: its decode job is submitted.
RecvReady(s) ==
    /\ cpc[s] = "stream"
    /\ resp[s] # <<>>
    /\ ClientRead(s)
    /\ IF Head(resp[s]).ok
       THEN /\ decode' = [decode EXCEPT ![s][Head(resp[s]).chunk] = "job"]
            /\ completedC' = [completedC EXCEPT ![s] = @ + 1]
            /\ GoTo(s, IF completedC[s] + 1 = TotalChunks[s] THEN "leave" ELSE "stream")
       ELSE /\ GoTo(s, "failing")
            /\ UNCHANGED <<decode, completedC>>
    /\ UNCHANGED <<next, target, owned, outcome, rfree>>

\* Mutation: the socket has no RCVTIMEO.
RecvTimeoutMutant(s) == FALSE /\ UNCHANGED sessionVars

\* RCVTIMEO: nothing is under way for this session and no slot is free.
RecvTimeout(s) ==
    /\ cpc[s] = "stream"
    /\ resp[s] = <<>> /\ req[s] = <<>> /\ NothingRuns(s)
    /\ \A k \in SlotsOf[s] : rfree[k] = 0
    /\ GoTo(s, "failing")
    /\ UNCHANGED <<prodVars, next, target, owned, completedC, decode, outcome,
                   rfree>>

-----------------------------------------------------------------------------
\* _decode_and_release

DecodeDone(s, c) ==
    /\ decode[s][c] = "job"
    /\ decode' = [decode EXCEPT ![s][c] = "ok"]
    /\ owned' = [owned EXCEPT ![s] = @ \ {target[s][c]}]
    /\ rfree' = [rfree EXCEPT ![target[s][c]] = @ + 1]
    /\ UNCHANGED <<prodVars, cpc, next, target, completedC, outcome>>

\* The exception is seen only by the gather after the loop: in the loop the
\* task's own done callback has taken it out of decode_tasks before the loop
\* asks whether it is there.
DecodeFailed(s, c) ==
    /\ decode[s][c] = "job"
    /\ "decode" \in JobFaults
    /\ decode' = [decode EXCEPT ![s][c] = "failed"]
    /\ GoTo(s, IF cpc[s] = "gather" THEN "failing" ELSE cpc[s])
    /\ UNCHANGED <<prodVars, next, target, owned, completedC, outcome, rfree>>

\* The loop is over and recv_task is cancelled: gather what still decodes.
GatherStart(s) ==
    /\ cpc[s] = "leave"
    /\ GoTo(s, IF NoDecode(s) THEN "cleanup" ELSE "gather")
    /\ UNCHANGED <<prodVars, next, target, owned, completedC, decode, outcome,
                   rfree>>

GatherDone(s) ==
    /\ cpc[s] = "gather"
    /\ NoDecode(s)
    /\ GoTo(s, "cleanup")
    /\ UNCHANGED <<prodVars, next, target, owned, completedC, decode, outcome,
                   rfree>>

-----------------------------------------------------------------------------
\* The except branch: _send_abort, on the session's own socket

SendAbort(s) ==
    /\ cpc[s] = "failing"
    /\ GoTo(s, "aborting")
    /\ ClientAbort(s)
    /\ outcome' = [outcome EXCEPT ![s] = "failed"]
    /\ UNCHANGED <<next, target, owned, completedC, decode, rfree>>

\* The abort receives once.  The recv_one that the loop has started has not run
\* yet, so the abort's own receive takes the first message, whatever it is: an
\* acknowledgement, a refused one or a late ChunkReady.  That it is not the
\* acknowledgement is only logged, and the session goes on to its finally.
AbortRecv(s) ==
    /\ cpc[s] = "aborting"
    /\ resp[s] # <<>>
    /\ ClientRead(s)
    /\ GoTo(s, "cleanup")
    /\ UNCHANGED <<next, target, owned, completedC, decode, outcome, rfree>>

\* The wait for the acknowledgement times out while the abort still drains: 480 s
\* after the abort no job that was running then is, but its chunk may still wait
\* for a slot or for its slot's stream.
AbortTimeout(s) ==
    /\ cpc[s] = "aborting"
    /\ resp[s] = <<>>
    /\ abortPc[s] = "drain" /\ NoJob(s)
    /\ GoTo(s, "cleanup")
    /\ UNCHANGED <<prodVars, next, target, owned, completedC, decode, outcome,
                   rfree>>

-----------------------------------------------------------------------------
\* The finally: child tasks are cancelled or awaited, then the slots that are
\* still owned are drained and put back; _recv_request reports RecvDone.

Cleanup(s) ==
    /\ cpc[s] = "cleanup"
    /\ NoDecode(s)
    /\ GoTo(s, IF owned[s] = {} THEN "done" ELSE "drain")
    /\ outcome' = [outcome EXCEPT ![s] = IF @ = "none" THEN "ok" ELSE @]
    /\ UNCHANGED <<prodVars, next, target, owned, completedC, decode, rfree>>

SlotsDrained(s) ==
    /\ cpc[s] = "drain"
    /\ GoTo(s, "done")
    /\ rfree' = [k \in RecvSlot |-> rfree[k] + (IF k \in owned[s] THEN 1 ELSE 0)]
    /\ owned' = [owned EXCEPT ![s] = {}]
    /\ UNCHANGED <<prodVars, next, target, completedC, decode, outcome>>

-----------------------------------------------------------------------------
SessionCoroutine(s) ==
    \/ SessionOpened(s) \/ RecvReady(s) \/ RecvTimeout(s)
    \/ GatherStart(s) \/ GatherDone(s)
    \/ SendAbort(s) \/ AbortRecv(s) \/ AbortTimeout(s)
    \/ Cleanup(s) \/ SlotsDrained(s)
Issuer(s) == \E k \in RecvSlot : IssueChunk(s, k)
Decoder(s) == \E c \in Chunk : DecodeDone(s, c) \/ DecodeFailed(s, c)
HelperProducer == Producer /\ UNCHANGED consVars

ConsNext ==
    \/ HelperProducer
    \/ \E s \in Session : SessionStart(s) \/ SessionCoroutine(s) \/ Issuer(s) \/ Decoder(s)

SessionSpec == ConsInit /\ [][ConsNext]_sessionVars
-----------------------------------------------------------------------------
\* Fairness: both event loops keep running their ready tasks, the engine's job
\* pool finishes every job it takes, the sweep runs ten times a second, and the
\* timeouts of the two sides are finite.  Whether the engine announces, drops
\* or starts anything is up to the requests.
FairSessionSpec ==
    /\ SessionSpec
    /\ \A s \in Session :
          /\ WF_sessionVars(SessionCoroutine(s))
          /\ WF_sessionVars(Issuer(s))
          /\ WF_sessionVars(Decoder(s))
          /\ WF_sessionVars(OpenTask(s) /\ UNCHANGED consVars)
          /\ WF_sessionVars(ChunkTask(s) /\ UNCHANGED consVars)
          /\ WF_sessionVars(AbortTask(s) /\ UNCHANGED consVars)
    /\ \A t \in Transfer : WF_sessionVars(Sweep(t) /\ UNCHANGED consVars)

-----------------------------------------------------------------------------
\* On both sides every slot is in its pool once or has one owner: no error path
\* of _serve_producer_chunk, of a decode task, of an abort or of a session's
\* finally loses a slot or puts one back twice.
SlotsConserved ==
    /\ SenderSlotsConserved
    /\ \A k \in RecvSlot : rfree[k] + Cardinality({s \in Session : k \in owned[s]}) = 1

\* A request that is reported as received without failed blocks has had every
\* chunk delivered and every decode job of it has ended; a slot that a decode
\* job reads is still its session's.
ChunksDelivered ==
    \A s \in Session :
        /\ cpc[s] = "done" /\ outcome[s] = "ok" =>
              \A c \in 0 .. (TotalChunks[s] - 1) : decode[s][c] \in {"ok", "failed"}
        /\ \A c \in Chunk : decode[s][c] = "job" => target[s][c] \in owned[s]

\* A receiver slot stays with its session as long as a remote encode job may
\* write into it.
SlotLease ==
    \A s \in Session, c \in Chunk : pull[s][c] = "job" => target[s][c] \in owned[s]

\* A request that is reported as received without failed blocks has every chunk
\* decoded into its blocks.
NoSilentLoss ==
    \A s \in Session :
        cpc[s] = "done" /\ outcome[s] = "ok"
            => \A c \in 0 .. (TotalChunks[s] - 1) : decode[s][c] = "ok"

\* Every session that is started is reported to the engine.
SessionEnds == \A s \in Session : cpc[s] = "opening" ~> cpc[s] = "done"

\* The blocks of every announced request are given back to the engine, pulled
\* or not.
BlocksFreed == \A t \in Transfer : eng[t] = "announced" ~> finals[t] > 0
=============================================================================
