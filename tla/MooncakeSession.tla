-------------------------- MODULE MooncakeSession --------------------------
(***************************************************************************)
(* kvsfuse-vllm0.30.0/mooncake/mooncake_connector.py with compression and   *)
(* no helper process: the sender loop of a prefill worker answers           *)
(* SessionOpen, ChunkPull and Abort; a task of the decode worker's receiver *)
(* loop runs each session, leases it receiver slots, decodes the chunks and *)
(* reports the request.                                                     *)
(*                                                                          *)
(* Session s pulls transfer TransferOf[s] (a request at one prefill worker) *)
(* for PullOf[s] (a request at one decode worker).  An action is what a     *)
(* task does between two awaits.  The abort of a session travels on a       *)
(* socket of its own, so it may overtake the session's other requests.      *)
(*                                                                          *)
(* A SendBlockMeta outlives its entry in reqs_need_send: object s is the    *)
(* placeholder the open of session s creates, object t the one              *)
(* record_send_reqs creates.                                                *)
(***************************************************************************)
EXTENDS Integers, Sequences, FiniteSets

CONSTANTS
    Session, Transfer, Pull,
    TransferOf, PullOf,
    TotalChunks,      \* TotalChunks[s]: what the open of s computes
    MaxChunks,        \* a bound on TotalChunks
    NeedSend,         \* len(handshake_target_ranks(...))
    SenderSlot, ReceiverSlot,
    SendSlots, RecvSlots,   \* the slots of a session's prefill and decode worker
    Faults,           \* Faults[s]: which of "open", "encode", "write", "decode",
                      \* "writeback", "timeout", "noack" may happen to s
    None

Chunk == 0 .. (MaxChunks - 1)
Obj == Session \cup Transfer
SC == Session \X Chunk

ASSUME SessionAssumption ==
    /\ Session \cap Transfer = {}
    /\ None \notin Obj \cup SenderSlot \cup ReceiverSlot
    /\ TransferOf \in [Session -> Transfer] /\ PullOf \in [Session -> Pull]
    /\ MaxChunks \in Nat /\ TotalChunks \in [Session -> 0 .. MaxChunks]
    /\ NeedSend \in Nat \ {0}
    /\ SendSlots \in [Session -> SUBSET SenderSlot]
    /\ RecvSlots \in [Session -> SUBSET ReceiverSlot]
\* A transfer is pulled by one session per target rank, or by fewer; a pull has
\* one session per prefill worker it reads from.
ASSUME TargetAssumption ==
    /\ \A t \in Transfer :
          /\ IsFiniteSet({s \in Session : TransferOf[s] = t})
          /\ Cardinality({s \in Session : TransferOf[s] = t}) <= NeedSend
    /\ \A q \in Pull : IsFiniteSet({s \in Session : PullOf[s] = q})

VARIABLES
    \* prefill worker: requests, SendBlockMeta objects, reqs_need_send
    seen, cur, named, ready, sent, sending,
    freed,        \* how often a request was put in _finished_sending
    \* prefill worker: sessions and tasks
    openPc, obj,
    inMap,        \* the session is in _compression_producer_sessions
    state, completed, inflight,
    pull, slotOf, sfree,
    closed, abortPc,
    abortOps,     \* the operations the abort waits for
    written,      \* chunks whose bytes reached the receiver slot
    unwritten,    \* chunks whose write failed
    \* answers on the wire
    opened, answer,
    \* decode worker
    dpc, rc, rslot, rfree, decoded,
    count, failed,
    fin, inv      \* _finished_recving and _invalid_block_ids

objVars == <<cur, named, ready, sent, sending, freed>>
sessVars == <<inMap, state, completed, inflight>>
prodVars == <<seen, objVars, openPc, obj, sessVars, pull, slotOf, sfree, closed,
              abortPc, abortOps, written, unwritten>>
consVars == <<dpc, rc, rslot, rfree, decoded, count, failed, fin, inv>>
vars == <<prodVars, opened, answer, consVars>>

Init ==
    /\ seen = [t \in Transfer |-> "idle"]
    /\ cur = [t \in Transfer |-> None]
    /\ named = {} /\ ready = {}
    /\ sent = [o \in Obj |-> 0] /\ sending = [o \in Obj |-> 0]
    /\ freed = [t \in Transfer |-> 0]
    /\ openPc = [s \in Session |-> "none"]
    /\ obj = [s \in Session |-> None]
    /\ inMap = {}
    /\ state = [s \in Session |-> "PLANNED"]
    /\ completed = [s \in Session |-> 0] /\ inflight = [s \in Session |-> 0]
    /\ pull = [x \in SC |-> "none"]
    /\ slotOf = [x \in SC |-> None]
    /\ sfree = SenderSlot
    /\ closed = {}
    /\ abortPc = [s \in Session |-> "none"]
    /\ abortOps = [s \in Session |-> {}]
    /\ written = {} /\ unwritten = {}
    /\ opened = [s \in Session |-> "none"]
    /\ answer = [x \in SC |-> "none"]
    /\ dpc = [s \in Session |-> "none"]
    /\ rc = [x \in SC |-> "none"]
    /\ rslot = [x \in SC |-> None]
    /\ rfree = ReceiverSlot
    /\ decoded = [s \in Session |-> 0]
    /\ count = [q \in Pull |-> Cardinality({s \in Session : PullOf[s] = q})]
    /\ failed = {}
    /\ fin = [q \in Pull |-> 0] /\ inv = [q \in Pull |-> 0]

-----------------------------------------------------------------------------
\* record_send_reqs.  A published request that has an entry keeps it as it is.

RecordPublish(t) ==
    /\ seen[t] = "idle"
    /\ seen' = [seen EXCEPT ![t] = "published"]
    /\ cur' = [cur EXCEPT ![t] = IF @ = None THEN t ELSE @]
    /\ named' = IF cur[t] = None THEN named \cup {t} ELSE named
    /\ UNCHANGED <<ready, sent, sending, freed, openPc, obj, sessVars, pull, slotOf,
                   sfree, closed, abortPc, abortOps, written, unwritten, opened, answer, consVars>>

\* Without an entry the announcement raises KeyError and is lost.
RecordAnnounce(t) ==
    /\ seen[t] = "published"
    /\ seen' = [seen EXCEPT ![t] = "announced"]
    /\ named' = named \cup ({cur[t]} \ {None})
    /\ ready' = ready \cup ({cur[t]} \ {None})
    /\ UNCHANGED <<cur, sent, sending, freed, openPc, obj, sessVars, pull, slotOf,
                   sfree, closed, abortPc, abortOps, written, unwritten, opened, answer, consVars>>

RecordDrop(t) ==
    /\ seen[t] \in {"idle", "published"}
    /\ seen' = [seen EXCEPT ![t] = "dropped"]
    /\ cur' = [cur EXCEPT ![t] = None]
    /\ UNCHANGED <<named, ready, sent, sending, freed, openPc, obj, sessVars, pull,
                   slotOf, sfree, closed, abortPc, abortOps, written, unwritten, opened, answer,
                   consVars>>

\* Mutation: a request that is being sent may expire.
ExpiresMutant(o) == o \in ready \cap named

Expires(o) == o \in ready \cap named /\ sending[o] = 0

\* _sweep_expired_sends.  An open that waits for the object sees it ready
\* within a millisecond, long before it expires.
Sweep(t) ==
    /\ Expires(cur[t])
    /\ \A s \in Session : ~(openPc[s] = "wait" /\ obj[s] = cur[t])
    /\ freed' = [freed EXCEPT ![t] = @ + 1]
    /\ cur' = [cur EXCEPT ![t] = None]
    /\ UNCHANGED <<seen, named, ready, sent, sending, openPc, obj, sessVars, pull,
                   slotOf, sfree, closed, abortPc, abortOps, written, unwritten, opened, answer,
                   consVars>>

-----------------------------------------------------------------------------
\* Ends of a claim on a SendBlockMeta.

\* _finish_compression_send_meta for the object of s: a failed or cancelled
\* session counts as sent.  d is what becomes of sending.
FinishSend(s, d) ==
    LET o == obj[s]
        t == TransferOf[s]
        last == sent[o] + 1 = NeedSend /\ cur[t] # None
    IN
    /\ sending' = [sending EXCEPT ![o] = @ + d]
    /\ sent' = [sent EXCEPT ![o] = @ + 1]
    /\ freed' = [freed EXCEPT ![t] = @ + IF last THEN 1 ELSE 0]
    /\ cur' = [cur EXCEPT ![t] = IF last THEN None ELSE @]

\* _complete_compression_session, _discard_compression_session: the session
\* leaves the map, once.
EndSession(s, ends) ==
    IF ends /\ s \in inMap
    THEN inMap' = inMap \ {s} /\ FinishSend(s, -1)
    ELSE UNCHANGED <<inMap, sending, sent, freed, cur>>

-----------------------------------------------------------------------------
\* _open_compression_session.

OpenArrive(s) == LET t == TransferOf[s] IN
    /\ openPc[s] = "sent"
    /\ openPc' = [openPc EXCEPT ![s] = "wait"]
    /\ obj' = [obj EXCEPT ![s] = IF cur[t] = None THEN s ELSE cur[t]]
    /\ cur' = [cur EXCEPT ![t] = IF @ = None THEN s ELSE @]
    /\ UNCHANGED <<seen, named, ready, sent, sending, freed, sessVars, pull, slotOf,
                   sfree, closed, abortPc, abortOps, written, unwritten, opened, answer, consVars>>

\* sending is incremented before the session is looked up in closed.
Taken(s) == 1

\* The prefill is finished: claim the object, unless the session was closed.
OpenReady(s) ==
    /\ openPc[s] = "wait" /\ obj[s] \in ready
    /\ IF s \in closed
       THEN /\ FinishSend(s, Taken(s) - 1)
            /\ openPc' = [openPc EXCEPT ![s] = "done"]
            /\ opened' = [opened EXCEPT ![s] = "error"]
       ELSE /\ sending' = [sending EXCEPT ![obj[s]] = @ + 1]
            /\ openPc' = [openPc EXCEPT ![s] = "xfer"]
            /\ UNCHANGED <<cur, sent, freed, opened>>
    /\ UNCHANGED <<seen, named, ready, obj, sessVars, pull, slotOf, sfree, closed,
                   abortPc, abortOps, written, unwritten, answer, consVars>>

\* The session was closed, or the wait timed out, before the prefill was
\* finished: remove the placeholder this open created.
OpenAbandon(s) == LET t == TransferOf[s] IN
    /\ openPc[s] = "wait" /\ obj[s] \notin ready
    /\ openPc' = [openPc EXCEPT ![s] = "done"]
    /\ opened' = [opened EXCEPT ![s] = "error"]
    /\ cur' = [cur EXCEPT ![t] = IF @ = s /\ s \notin named /\ sending[s] = 0
                                 THEN None ELSE @]
    /\ UNCHANGED <<seen, named, ready, sent, sending, freed, obj, sessVars, pull,
                   slotOf, sfree, closed, abortPc, abortOps, written, unwritten, answer, consVars>>

\* The raw groups are written; a session without chunks is complete.
OpenDone(s) == LET empty == TotalChunks[s] = 0 IN
    /\ openPc[s] = "xfer"
    /\ openPc' = [openPc EXCEPT ![s] = "done"]
    /\ opened' = [opened EXCEPT ![s] = "ok"]
    /\ state' = [state EXCEPT ![s] = IF empty THEN "COMPLETE" ELSE "ACTIVE"]
    /\ closed' = IF empty THEN closed \cup {s} ELSE closed
    /\ IF empty
       THEN FinishSend(s, -1) /\ UNCHANGED inMap
       ELSE inMap' = inMap \cup {s} /\ UNCHANGED <<sending, sent, freed, cur>>
    /\ UNCHANGED <<seen, named, ready, obj, completed, inflight, pull, slotOf, sfree,
                   abortPc, abortOps, written, unwritten, answer, consVars>>

OpenFailed(s) ==
    /\ "open" \in Faults[s]
    /\ openPc[s] = "xfer"
    /\ openPc' = [openPc EXCEPT ![s] = "done"]
    /\ opened' = [opened EXCEPT ![s] = "error"]
    /\ FinishSend(s, -1)
    /\ UNCHANGED <<seen, named, ready, obj, sessVars, pull, slotOf, sfree, closed,
                   abortPc, abortOps, written, unwritten, answer, consVars>>

-----------------------------------------------------------------------------
\* _serve_compression_chunk.  Its exception handler reads a field ChunkPull
\* does not have, so a chunk that fails is not answered and the session keeps
\* its state.

PullArrive(s, c) == LET x == <<s, c>> IN
    /\ pull[x] = "sent"
    /\ IF s \in inMap /\ state[s] = "ACTIVE"
       THEN /\ inflight' = [inflight EXCEPT ![s] = @ + 1]
            /\ pull' = [pull EXCEPT ![x] = "wait"]
       ELSE pull' = [pull EXCEPT ![x] = "end"] /\ UNCHANGED inflight
    /\ answer' = IF s \in inMap THEN answer ELSE [answer EXCEPT ![x] = "error"]
    /\ EndSession(s, state[s] = "CANCELLED" /\ inflight[s] = 0)
    /\ UNCHANGED <<seen, named, ready, openPc, obj, state, completed, slotOf, sfree,
                   closed, abortPc, abortOps, written, unwritten, opened, consVars>>

PullSlot(s, c, k) == LET x == <<s, c>> IN
    /\ pull[x] = "wait" /\ k \in sfree \cap SendSlots[s]
    /\ sfree' = sfree \ {k}
    /\ slotOf' = [slotOf EXCEPT ![x] = k]
    /\ pull' = [pull EXCEPT ![x] = IF state[s] # "ACTIVE" \/ s \in closed
                                   THEN "failed" ELSE "job"]
    /\ UNCHANGED <<seen, objVars, openPc, obj, sessVars, closed, abortPc, abortOps,
                   written, unwritten, opened, answer, consVars>>

\* Encode and write the chunk.  What _send_blocks returns is not looked at:
\* ok says whether the bytes arrived.
PullDone(s, c, ok) == LET x == <<s, c>>
                          last == state[s] = "ACTIVE" /\ completed[s] + 1 = TotalChunks[s] IN
    /\ pull[x] = "job"
    /\ ok \/ "write" \in Faults[s]
    /\ written' = IF ok THEN written \cup {x} ELSE written
    /\ unwritten' = IF ok THEN unwritten ELSE unwritten \cup {x}
    /\ completed' = [completed EXCEPT ![s] = @ + 1]
    /\ state' = [state EXCEPT ![s] = IF last THEN "COMPLETE" ELSE @]
    /\ closed' = IF last THEN closed \cup {s} ELSE closed
    /\ EndSession(s, last)
    /\ pull' = [pull EXCEPT ![x] = "sending"]
    /\ UNCHANGED <<seen, named, ready, openPc, obj, inflight, slotOf, sfree, abortPc,
                   abortOps, opened, answer, consVars>>

PullFailed(s, c) ==
    /\ "encode" \in Faults[s]
    /\ pull[<<s, c>>] = "job"
    /\ pull' = [pull EXCEPT ![<<s, c>>] = "failed"]
    /\ UNCHANGED <<seen, objVars, openPc, obj, sessVars, slotOf, sfree, closed, abortPc,
                   abortOps, written, unwritten, opened, answer, consVars>>

\* Mutation: inflight_chunks is decremented on success only.
UncountedMutant(x) == IF pull[x] = "sending" THEN 1 ELSE 0

Uncounted(x) == 1

\* The finally block, then the answer.
PullEnd(s, c) == LET x == <<s, c>> IN
    /\ pull[x] \in {"sending", "failed"}
    /\ pull' = [pull EXCEPT ![x] = "end"]
    /\ sfree' = sfree \cup {slotOf[x]}
    /\ slotOf' = [slotOf EXCEPT ![x] = None]
    /\ inflight' = [inflight EXCEPT ![s] = @ - Uncounted(x)]
    /\ EndSession(s, inflight[s] = Uncounted(x) /\ state[s] = "CANCELLED")
    /\ answer' = IF pull[x] = "sending" THEN [answer EXCEPT ![x] = "ok"] ELSE answer
    /\ UNCHANGED <<seen, named, ready, openPc, obj, state, completed, closed, abortPc,
                   abortOps, written, unwritten, opened, consVars>>

-----------------------------------------------------------------------------
\* _handle_compression_request, CompressionAbort.

\* _compression_operations of s: open is -1, a pull its chunk.
Running(s) ==
    (IF openPc[s] \in {"wait", "xfer"} THEN {-1} ELSE {}) \cup
    {c \in Chunk : pull[<<s, c>>] \in {"wait", "job", "sending", "failed"}}

AbortArrive(s) ==
    /\ abortPc[s] = "sent"
    /\ abortPc' = [abortPc EXCEPT ![s] = "drain"]
    /\ abortOps' = [abortOps EXCEPT ![s] = Running(s)]
    /\ closed' = closed \cup {s}
    /\ state' = [state EXCEPT ![s] = IF s \in inMap THEN "CANCELLED" ELSE @]
    /\ EndSession(s, inflight[s] = 0)
    /\ UNCHANGED <<seen, named, ready, openPc, obj, completed, inflight, pull, slotOf,
                   sfree, written, unwritten, opened, answer, consVars>>

Drained(s) == abortOps[s] \cap Running(s) = {} /\ inflight[s] = 0

\* The abort is answered: a session that was opened meanwhile is cancelled too.
AbortAnswer(s, ans) ==
    /\ abortPc[s] = "drain"
    /\ abortPc' = [abortPc EXCEPT ![s] = ans]
    /\ state' = [state EXCEPT ![s] = IF s \in inMap THEN "CANCELLED" ELSE @]
    /\ EndSession(s, inflight[s] = 0)
    /\ UNCHANGED <<seen, named, ready, openPc, obj, completed, inflight, pull, slotOf,
                   sfree, closed, abortOps, written, unwritten, opened, answer, consVars>>

\* The operations are over.
AbortDone(s) == Drained(s) /\ AbortAnswer(s, "ack")

\* They outlast the timeout of the drain: the acknowledgement carries an error.
AbortExpired(s) == "noack" \in Faults[s] /\ ~ Drained(s) /\ AbortAnswer(s, "error")

-----------------------------------------------------------------------------
\* The decode worker: _receive_compressed_request.

\* The last session of a pull reports it.
Reports(s, bad) == count[PullOf[s]] = 1

\* Mutation: only the last session decides.
FailedBlocksMutant(s, bad) == IF bad THEN failed \cup {PullOf[s]} ELSE failed \ {PullOf[s]}

FailedBlocks(s, bad) == IF bad THEN failed \cup {PullOf[s]} ELSE failed

\* _finish_compression_receive.
FinishReceive(s, bad) == LET q == PullOf[s]
                             fails == FailedBlocks(s, bad) IN
    /\ count' = [count EXCEPT ![q] = @ - 1]
    /\ failed' = fails
    /\ fin' = [fin EXCEPT ![q] = @ + IF Reports(s, bad) THEN 1 ELSE 0]
    /\ inv' = [inv EXCEPT ![q] = @ + IF Reports(s, bad) /\ q \in fails THEN 1 ELSE 0]

reported == <<count, failed, fin, inv>>

Start(s) ==
    /\ dpc[s] = "none"
    /\ dpc' = [dpc EXCEPT ![s] = "open"]
    /\ openPc' = [openPc EXCEPT ![s] = "sent"]
    /\ UNCHANGED <<seen, objVars, obj, sessVars, pull, slotOf, sfree, closed, abortPc,
                   abortOps, written, unwritten, opened, answer, rc, rslot, rfree, decoded, reported>>

OnOpened(s) ==
    /\ dpc[s] = "open" /\ opened[s] = "ok"
    /\ IF TotalChunks[s] = 0
       THEN dpc' = [dpc EXCEPT ![s] = "done"] /\ FinishReceive(s, FALSE)
       ELSE dpc' = [dpc EXCEPT ![s] = "active"] /\ UNCHANGED reported
    /\ UNCHANGED <<prodVars, opened, answer, rc, rslot, rfree, decoded>>

\* issue_all: lease a slot for the next chunk and ask for it.
IssueChunk(s, c, k) == LET x == <<s, c>> IN
    /\ dpc[s] \in {"active", "decode"}
    /\ c < TotalChunks[s] /\ rc[x] = "none"
    /\ \A b \in Chunk : b < c => rc[<<s, b>>] # "none"
    /\ k \in rfree \cap RecvSlots[s]
    /\ rfree' = rfree \ {k}
    /\ rslot' = [rslot EXCEPT ![x] = k]
    /\ rc' = [rc EXCEPT ![x] = "granted"]
    /\ pull' = [pull EXCEPT ![x] = "sent"]
    /\ UNCHANGED <<seen, objVars, openPc, obj, sessVars, slotOf, sfree, closed, abortPc,
                   abortOps, written, unwritten, opened, answer, dpc, decoded, reported>>

\* A ChunkReady starts the decode, which the session's loop awaits.
OnReady(s, c) == LET x == <<s, c>> IN
    /\ dpc[s] = "active" /\ answer[x] = "ok"
    /\ answer' = [answer EXCEPT ![x] = "read"]
    /\ dpc' = [dpc EXCEPT ![s] = "decode"]
    /\ rc' = [rc EXCEPT ![x] = "decode"]
    /\ UNCHANGED <<prodVars, opened, rslot, rfree, decoded, reported>>

DecodeDone(s, c) == LET x == <<s, c>> IN
    /\ dpc[s] = "decode" /\ rc[x] = "decode"
    /\ dpc' = [dpc EXCEPT ![s] = "active"]
    /\ rc' = [rc EXCEPT ![x] = "writeback"]
    /\ UNCHANGED <<prodVars, opened, answer, rslot, rfree, decoded, reported>>

\* The chunk is in the cache: return the slot; the last one ends the session.
WritebackDone(s, c) == LET x == <<s, c>> IN
    /\ dpc[s] = "active" /\ rc[x] = "writeback"
    /\ rc' = [rc EXCEPT ![x] = "done"]
    /\ rfree' = rfree \cup {rslot[x]}
    /\ rslot' = [rslot EXCEPT ![x] = None]
    /\ decoded' = [decoded EXCEPT ![s] = @ + 1]
    /\ IF decoded[s] + 1 = TotalChunks[s]
       THEN dpc' = [dpc EXCEPT ![s] = "done"] /\ FinishReceive(s, FALSE)
       ELSE UNCHANGED <<dpc, reported>>
    /\ UNCHANGED <<prodVars, opened, answer>>

\* The ways a session fails.
Failing(s) ==
    \/ dpc[s] = "open" /\ opened[s] = "error"
    \/ dpc[s] = "active" /\ \E c \in Chunk : answer[<<s, c>>] = "error"
    \/ "decode" \in Faults[s] /\ dpc[s] = "decode"

\* RCVTIMEO: nothing to read.  A chunk that failed is never answered.
Silent(s) ==
    \/ dpc[s] = "open" /\ opened[s] = "none" /\ "timeout" \in Faults[s]
    \/ /\ dpc[s] = "active"
       /\ \A c \in Chunk : answer[<<s, c>>] \notin {"ok", "error"} /\ rc[<<s, c>>] # "writeback"
       /\ \/ "timeout" \in Faults[s]
          \/ \E c \in Chunk : rc[<<s, c>>] = "granted" /\ pull[<<s, c>>] = "end"

\* The slots session s leases.
Leased(s) == {rslot[<<s, c>>] : c \in Chunk} \ {None}

\* Mutation: the leases end with the session's failure.
KeepLeasesMutant(s) ==
    /\ rfree' = rfree \cup Leased(s)
    /\ rslot' = [x \in SC |-> IF x[1] = s THEN None ELSE rslot[x]]

\* A cancelled pull may already have granted remote writes: the leases are kept
\* until the abort is acknowledged.
KeepLeases(s) == UNCHANGED <<rslot, rfree>>

\* The issuer is stopped and the abort sent on a new socket.
SendAbort(s) ==
    /\ Failing(s) \/ Silent(s)
    /\ dpc' = [dpc EXCEPT ![s] = "abort"]
    /\ abortPc' = [abortPc EXCEPT ![s] = "sent"]
    /\ KeepLeases(s)
    /\ UNCHANGED <<seen, objVars, openPc, obj, sessVars, pull, slotOf, sfree, closed,
                   abortOps, written, unwritten, opened, answer, rc, decoded, reported>>

\* The writeback of chunk c raises.
WritebackFailed(s, c) ==
    /\ "writeback" \in Faults[s]
    /\ dpc[s] = "active" /\ rc[<<s, c>>] = "writeback"
    /\ rc' = [rc EXCEPT ![<<s, c>>] = "broken"]
    /\ dpc' = [dpc EXCEPT ![s] = "abort"]
    /\ abortPc' = [abortPc EXCEPT ![s] = "sent"]
    /\ UNCHANGED <<seen, objVars, openPc, obj, sessVars, pull, slotOf, sfree, closed,
                   abortOps, written, unwritten, opened, answer, rslot, rfree, decoded, reported>>

\* _send_compression_abort returns: the abort is acknowledged.
Acked(s) == abortPc[s] = "ack"

\* Acknowledged: cleanup_consumer_resources waits for the writebacks and
\* returns every slot; the request is reported with its blocks invalid.
Cleanup(s) ==
    /\ dpc[s] = "abort" /\ Acked(s)
    /\ dpc' = [dpc EXCEPT ![s] = "done"]
    /\ rfree' = rfree \cup Leased(s)
    /\ rslot' = [x \in SC |-> IF x[1] = s THEN None ELSE rslot[x]]
    /\ FinishReceive(s, TRUE)
    /\ UNCHANGED <<prodVars, opened, answer, rc, decoded>>

\* Another writeback raises during the cleanup: the slots stay leased.
CleanupFailed(s) ==
    /\ "writeback" \in Faults[s]
    /\ dpc[s] = "abort" /\ Acked(s)
    /\ \E c \in Chunk : rc[<<s, c>>] = "writeback"
    /\ dpc' = [dpc EXCEPT ![s] = "done"]
    /\ FinishReceive(s, TRUE)
    /\ UNCHANGED <<prodVars, opened, answer, rc, rslot, rfree, decoded>>

\* The acknowledgement carries an error, or none comes within the timeout: the
\* exception leaves the handler.
NoAck(s) ==
    /\ dpc[s] = "abort"
    /\ abortPc[s] = "error" \/ ("noack" \in Faults[s] /\ abortPc[s] # "ack")
    /\ dpc' = [dpc EXCEPT ![s] = "lost"]
    /\ UNCHANGED <<prodVars, opened, answer, rc, rslot, rfree, decoded, reported>>

-----------------------------------------------------------------------------
Next ==
    \/ \E t \in Transfer :
          RecordPublish(t) \/ RecordAnnounce(t) \/ RecordDrop(t) \/ Sweep(t)
    \/ \E s \in Session :
          \/ OpenArrive(s) \/ OpenReady(s) \/ OpenAbandon(s) \/ OpenDone(s)
          \/ OpenFailed(s) \/ AbortArrive(s) \/ AbortDone(s) \/ AbortExpired(s)
          \/ Start(s) \/ OnOpened(s) \/ SendAbort(s)
          \/ Cleanup(s) \/ CleanupFailed(s) \/ NoAck(s)
    \/ \E s \in Session, c \in Chunk :
          \/ PullArrive(s, c) \/ PullFailed(s, c) \/ PullEnd(s, c)
          \/ \E k \in SenderSlot : PullSlot(s, c, k)
          \/ \E ok \in BOOLEAN : PullDone(s, c, ok)
          \/ \E k \in ReceiverSlot : IssueChunk(s, c, k)
          \/ OnReady(s, c) \/ DecodeDone(s, c)
          \/ WritebackDone(s, c) \/ WritebackFailed(s, c)

Spec == Init /\ [][Next]_vars

\* What the event loops and job threads do for a session when nothing fails.
ProducerStep(s) ==
    \/ OpenArrive(s) \/ OpenReady(s) \/ OpenAbandon(s) \/ OpenDone(s)
    \/ AbortArrive(s) \/ AbortDone(s)
    \/ \E c \in Chunk : PullArrive(s, c) \/ PullEnd(s, c) \/ PullDone(s, c, TRUE)
                        \/ \E k \in SenderSlot : PullSlot(s, c, k)
ConsumerStep(s) ==
    \/ OnOpened(s) \/ SendAbort(s) \/ Cleanup(s)
    \/ abortPc[s] = "error" /\ NoAck(s)
    \/ \E c \in Chunk : OnReady(s, c) \/ DecodeDone(s, c) \/ WritebackDone(s, c)
                        \/ \E k \in ReceiverSlot : IssueChunk(s, c, k)
EngineStep(t) == RecordPublish(t) \/ RecordAnnounce(t) \/ Sweep(t)

-----------------------------------------------------------------------------
\* The prefill worker writes into the decode worker's memory for session s.
Writes(s) == openPc[s] = "xfer" \/ \E c \in Chunk : pull[<<s, c>>] = "job"

\* A request is put in _finished_sending at most once, and only when no session
\* reads its blocks: the engine frees them then.
InprocBlocksHeld ==
    /\ \A t \in Transfer : freed[t] <= 1
    /\ \A s \in Session : Writes(s) => freed[TransferOf[s]] = 0

\* A chunk is written only into the slot that is still leased for it: the
\* decode worker keeps the lease until AbortAck.  A request reported as received
\* is not written any more.
InprocSlotLease ==
    /\ \A x \in SC : pull[x] = "job" =>
          /\ rslot[x] # None /\ rslot[x] \notin rfree
          /\ \A y \in SC : y # x => rslot[y] # rslot[x]
    /\ \A s \in Session : fin[PullOf[s]] > 0 => ~Writes(s)

\* A request reported as received without invalid blocks has every chunk of every
\* session decoded, from the bytes the prefill worker encoded unless the RDMA
\* write of that very chunk failed: _send_compressed_blocks does not look at its
\* result, and nothing else of a request is lost unreported.
InprocNoSilentLoss == \A q \in Pull : (fin[q] > 0 /\ inv[q] = 0) =>
    \A s \in Session : PullOf[s] = q =>
        /\ opened[s] = "ok"
        /\ \A c \in 0 .. (TotalChunks[s] - 1) :
              <<s, c>> \in written \cup unwritten /\ rc[<<s, c>>] = "done"

\* Nobody waits for anybody for ever: when no side has a step left but for new
\* failures, every request whose sessions were started is reported, unless its
\* abort was not acknowledged, and every tracked and announced block table is
\* given back, unless the drain of an abort ran into its timeout: then a session
\* that was opened after that keeps the table.
InprocNoneWaiting ==
    ~ (\/ \E s \in Session : ENABLED ProducerStep(s) \/ ENABLED ConsumerStep(s)
       \/ \E t \in Transfer : ENABLED EngineStep(t)) =>
        /\ \A q \in Pull : (\A s \in Session : PullOf[s] = q => dpc[s] # "none") =>
              fin[q] > 0 \/ \E s \in Session : PullOf[s] = q /\ dpc[s] = "lost"
        /\ \A t \in Transfer : cur[t] \in ready =>
              freed[t] > 0 \/ \E s \in Session : TransferOf[s] = t /\ abortPc[s] = "error"
=============================================================================
