--------------------------- MODULE NcclTransport ---------------------------
(***************************************************************************)
(* kvserve_v1/transport/nccl_transport.py: one producer and one consumer    *)
(* endpoint, the ZMQ control channel between them and the pair of ordered   *)
(* NCCL streams that carries the data.                                      *)
(*                                                                          *)
(* The producer has a send thread (_send_loop) and a completion thread; the *)
(* consumer has a listener thread (_listen_loop) and a completion thread.   *)
(* Each thread is a set of actions; an action is what the thread does       *)
(* between two points where another thread can observe it (a lock released, *)
(* a message sent, a stream operation posted).  The vLLM worker threads     *)
(* that call the two endpoints are the client actions at the end: Send,     *)
(* DrainReceived, ReleaseReceived, SetExpectedRequests.                     *)
(***************************************************************************)
EXTENDS Integers, Sequences, FiniteSets, Functions

CONSTANTS
    Payload,      \* the PUTs of one run; one raw tensor or one bundle each
    Rid,          \* wire keys (transfer ids)
    RidOf,        \* RidOf[p]: the key payload p is sent under
    Bytes,        \* Bytes[p]: the size both ends compute for p
    MaxBytes,     \* a bound on the size of a payload
    Capacity,     \* _recv_capacity_bytes
    Unsupported,  \* payloads with a dtype NCCL refuses, at both ends
    Faults,       \* which of "restart", "oom", "listen", "recv" may happen
    None,         \* no payload, no key
    Failed        \* FAILED_PAYLOAD

ASSUME PayloadAssumption ==
    /\ None \notin Payload /\ Failed \notin Payload /\ None \notin Rid
    /\ None # Failed /\ None \notin {"OK", "OOM", "RETRY"}
    /\ RidOf \in [Payload -> Rid]
    /\ Unsupported \subseteq Payload
ASSUME BytesAssumption ==
    /\ MaxBytes \in Nat
    /\ Bytes \in [Payload -> 1..MaxBytes]
ASSUME CapacityAssumption == Capacity \in Nat \ {0}

VARIABLES
    \* producer endpoint
    sendQueue,         \* _send_queue
    sendInflight,      \* _send_inflight
    sendPendingBytes,  \* _send_pending_bytes
    sendCur,           \* the item _send_loop holds while it waits for an ack
    sendCompletions,   \* _send_completions
    \* control channel: at most one PUT, or its answer, is under way
    putMsg, ack,
    \* the two NCCL streams, and whose data each receive buffer holds
    sendStream, recvStream, landed,
    \* consumer endpoint
    comm,              \* "none" before INIT, "up", "lost" after a restart
    listenPc, listenCur,
    reserved,          \* _recv_reserved_bytes
    expected,          \* _expected_requests
    priority,          \* _priority_request
    recvCompletions,   \* _recv_completions
    received,          \* _received
    \* clients and bookkeeping of the model
    submitted,         \* payloads handed to send / send_bundle
    held,              \* payloads drained and not released yet
    lost               \* payloads whose credit no thread will ever return

sendVars == <<sendQueue, sendInflight, sendPendingBytes, sendCur, sendCompletions>>
ncclVars == <<sendStream, recvStream, landed>>
creditVars == <<reserved, expected, priority>>
listenVars == <<listenPc, listenCur, comm>>
vars == <<sendVars, putMsg, ack, ncclVars, listenVars, creditVars,
          recvCompletions, received, submitted, held, lost>>

-----------------------------------------------------------------------------
\* Helpers

\* Mutation: a retried item always goes to the back.
RetryIndexMutant(q, p) == Len(q) + 1

\* The deque.insert of a retried item: before the first queued item of the
\* same request, at the end when there is none.
RetryIndex(q, p) ==
    LET same == {i \in DOMAIN q : RidOf[q[i]] = RidOf[p]}
    IN  IF same = {} THEN Len(q) + 1
        ELSE CHOOSE i \in same : \A j \in same : i <= j

InsertRetry(q, p) ==
    LET i == RetryIndex(q, p)
    IN  SubSeq(q, 1, i - 1) \o <<p>> \o SubSeq(q, i, Len(q))

Monus(a, b) == IF a >= b THEN a - b ELSE 0

-----------------------------------------------------------------------------
Init ==
    /\ sendQueue = <<>> /\ sendInflight = 0 /\ sendPendingBytes = 0
    /\ sendCur = None /\ sendCompletions = <<>>
    /\ putMsg = None /\ ack = None
    /\ sendStream = <<>> /\ recvStream = <<>>
    /\ landed = [p \in Payload |-> None]
    /\ comm = "none" /\ listenPc = "idle" /\ listenCur = None
    /\ reserved = 0 /\ expected = {} /\ priority = None
    /\ recvCompletions = <<>>
    /\ received = [r \in Rid |-> <<>>]
    /\ submitted = {} /\ held = {} /\ lost = {}

-----------------------------------------------------------------------------
\* Producer endpoint

\* send / send_bundle, called by the producer's worker thread.  The producer's
\* constructor returns only once the collective ncclCommInitRank has.
Send(p) ==
    /\ comm # "none"
    /\ p \notin submitted
    /\ submitted' = submitted \cup {p}
    /\ sendPendingBytes' = sendPendingBytes + Bytes[p]
    /\ sendQueue' = Append(sendQueue, p)
    /\ UNCHANGED <<sendInflight, sendCur, sendCompletions, putMsg, ack, ncclVars,
                   listenVars, creditVars, recvCompletions, received, held, lost>>

\* _send_loop takes the next item and _send_one / _send_bundle_one puts it on
\* the wire.
SendPop ==
    /\ sendCur = None
    /\ sendQueue # <<>>
    /\ sendCur' = Head(sendQueue)
    /\ sendQueue' = Tail(sendQueue)
    /\ sendInflight' = sendInflight + 1
    /\ putMsg' = Head(sendQueue)
    /\ UNCHANGED <<sendPendingBytes, sendCompletions, ack, ncclVars, listenVars,
                   creditVars, recvCompletions, received, submitted, held, lost>>

\* Mutation: the item's bytes are retired and it stays in flight.
FinishSendItemLeak(p) ==
    /\ sendPendingBytes' = sendPendingBytes - Bytes[p]
    /\ UNCHANGED sendInflight

\* _finish_send_item
FinishSendItem(p) ==
    /\ sendPendingBytes' = sendPendingBytes - Bytes[p]
    /\ sendInflight' = sendInflight - 1

\* The ack was RETRY: the item goes back behind the other requests.
SendRetry ==
    /\ ack = "RETRY"
    /\ ack' = None
    /\ sendInflight' = sendInflight - 1
    /\ sendQueue' = InsertRetry(sendQueue, sendCur)
    /\ sendCur' = None
    /\ UNCHANGED <<sendPendingBytes, sendCompletions, putMsg, ncclVars, listenVars,
                   creditVars, recvCompletions, received, submitted, held, lost>>

\* The ack was OOM, or it was OK and posting the send raised: the item is
\* retired without a transfer.  Posting is taken to raise only for a dtype that
\* NCCL does not know, which both ends refuse; the except clause catches any
\* error, and a CUDA or NCCL error of one end alone is not modelled.
SendRetire ==
    /\ \/ ack = "OOM"
       \/ ack = "OK" /\ sendCur \in Unsupported
    /\ ack' = None
    /\ FinishSendItem(sendCur)
    /\ sendCur' = None
    /\ UNCHANGED <<sendQueue, sendCompletions, putMsg, ncclVars, listenVars,
                   creditVars, recvCompletions, received, submitted, held, lost>>

\* Mutation: the item is retired as soon as its send is posted.
SendPostMutant ==
    /\ ack = "OK"
    /\ sendCur \notin Unsupported
    /\ ack' = None
    /\ sendStream' = Append(sendStream, sendCur)
    /\ FinishSendItem(sendCur)
    /\ sendCur' = None
    /\ UNCHANGED <<sendQueue, sendCompletions, putMsg, recvStream, landed, listenVars,
                   creditVars, recvCompletions, received, submitted, held, lost>>

\* The ack was OK: the sends of the payload's tensors are posted, in one step,
\* and the item waits for its event.  A payload with a tensor of an unknown dtype
\* counts as not posted at all, although the code has posted the tensors before
\* that one (both ends stop at the same tensor, so their streams still match).
SendPost ==
    /\ ack = "OK"
    /\ sendCur \notin Unsupported
    /\ ack' = None
    /\ sendStream' = Append(sendStream, sendCur)
    /\ sendCompletions' = Append(sendCompletions, sendCur)
    /\ sendCur' = None
    /\ UNCHANGED <<sendQueue, sendInflight, sendPendingBytes, putMsg, recvStream,
                   landed, listenVars, creditVars, recvCompletions, received,
                   submitted, held, lost>>

\* _send_completion_loop: the oldest posted send has left the stream.  An
\* exception of the event retires the item all the same.
SendComplete ==
    /\ sendCompletions # <<>>
    /\ Head(sendCompletions) \notin Range(sendStream)
    /\ FinishSendItem(Head(sendCompletions))
    /\ sendCompletions' = Tail(sendCompletions)
    /\ UNCHANGED <<sendQueue, sendCur, putMsg, ack, ncclVars, listenVars,
                   creditVars, recvCompletions, received, submitted, held, lost>>

-----------------------------------------------------------------------------
\* NCCL (external): the k-th send of a communicator meets its k-th receive.
NcclTransfer ==
    /\ sendStream # <<>> /\ recvStream # <<>>
    /\ landed' = [landed EXCEPT ![Head(recvStream)] = Head(sendStream)]
    /\ sendStream' = Tail(sendStream)
    /\ recvStream' = Tail(recvStream)
    /\ UNCHANGED <<sendVars, putMsg, ack, listenVars, creditVars,
                   recvCompletions, received, submitted, held, lost>>

-----------------------------------------------------------------------------
\* Consumer endpoint

\* Mutation: the overflow mark is never cleared.
ReleaseMutant(p) ==
    /\ reserved' = Monus(reserved, Bytes[p])
    /\ UNCHANGED <<priority, expected>>

\* release_received
Release(p) ==
    /\ reserved' = Monus(reserved, Bytes[p])
    /\ priority' = IF priority = RidOf[p] THEN None ELSE priority
    /\ UNCHANGED expected

\* _mark_failed
MarkFailed(p) ==
    received' = [received EXCEPT ![RidOf[p]] = Append(@, Failed)]

\* _reserve_received(rid, bytes, wait=False)
Blocked(p) == reserved > 0 /\ reserved + Bytes[p] > Capacity
\* Mutation: every scheduled payload may pass the budget.
MayOverflowMutant(p) == RidOf[p] \in expected
MayOverflow(p) == RidOf[p] \in expected /\ priority = None

Reserve(p) ==
    /\ Blocked(p) => MayOverflow(p)
    /\ priority' = IF Blocked(p) THEN RidOf[p] ELSE priority
    /\ reserved' = reserved + Bytes[p]
    /\ UNCHANGED expected

\* _listen_loop, command INIT
ListenInit ==
    /\ comm = "none"
    /\ comm' = "up"
    /\ UNCHANGED <<sendVars, putMsg, ack, ncclVars, listenPc, listenCur, creditVars,
                   recvCompletions, received, submitted, held, lost>>

\* PUT / PUT_BUNDLE before INIT: only a restarted consumer can see one.
ListenPutBeforeInit ==
    /\ listenPc = "idle" /\ putMsg # None
    /\ comm = "lost"
    /\ putMsg' = None
    /\ ack' = "OOM"
    /\ MarkFailed(putMsg)
    /\ UNCHANGED <<sendVars, ncclVars, listenVars, creditVars, recvCompletions,
                   submitted, held, lost>>

\* PUT / PUT_BUNDLE that finds no credit
ListenPutRetry ==
    /\ listenPc = "idle" /\ putMsg # None
    /\ comm = "up"
    /\ Blocked(putMsg) /\ ~ MayOverflow(putMsg)
    /\ putMsg' = None
    /\ ack' = "RETRY"
    /\ UNCHANGED <<sendVars, ncclVars, listenVars, creditVars, recvCompletions,
                   received, submitted, held, lost>>

\* PUT / PUT_BUNDLE that gets credit; the buffers are still to be allocated
ListenPutReserve ==
    /\ listenPc = "idle" /\ putMsg # None
    /\ comm = "up"
    /\ Reserve(putMsg)
    /\ putMsg' = None
    /\ listenPc' = "reserved"
    /\ listenCur' = putMsg
    /\ UNCHANGED <<sendVars, ack, ncclVars, comm, recvCompletions, received,
                   submitted, held, lost>>

\* Mutation: the reservation is kept when the allocation fails.
ListenOomMutant ==
    /\ listenPc = "reserved"
    /\ "oom" \in Faults
    /\ MarkFailed(listenCur)
    /\ ack' = "OOM"
    /\ listenPc' = "idle"
    /\ listenCur' = None
    /\ UNCHANGED <<sendVars, putMsg, ncclVars, comm, creditVars, recvCompletions,
                   submitted, held, lost>>

\* torch.empty raised OutOfMemoryError
ListenOom ==
    /\ listenPc = "reserved"
    /\ "oom" \in Faults
    /\ Release(listenCur)
    /\ MarkFailed(listenCur)
    /\ ack' = "OOM"
    /\ listenPc' = "idle"
    /\ listenCur' = None
    /\ UNCHANGED <<sendVars, putMsg, ncclVars, comm, recvCompletions, submitted,
                   held, lost>>

\* The buffers exist: ACK OK goes out before ncclRecv is posted.
ListenAck ==
    /\ listenPc = "reserved"
    /\ ack' = "OK"
    /\ listenPc' = "acked"
    /\ UNCHANGED <<sendVars, putMsg, ncclVars, comm, listenCur, creditVars,
                   recvCompletions, received, submitted, held, lost>>

\* ncclRecv is posted and the payload waits for its event.
ListenPost ==
    /\ listenPc = "acked"
    /\ listenCur \notin Unsupported
    /\ recvStream' = Append(recvStream, listenCur)
    /\ recvCompletions' = Append(recvCompletions, listenCur)
    /\ listenPc' = "idle"
    /\ listenCur' = None
    /\ UNCHANGED <<sendVars, putMsg, ack, sendStream, landed, comm, creditVars,
                   received, submitted, held, lost>>

\* The handler's outer except: after the reservation but before the ack (any
\* error but OutOfMemoryError), or after the ack when NCCL refuses the dtype, the
\* one error after the ack that is modelled (see SendRetire).  Nothing is
\* answered, released or marked.
ListenError ==
    /\ \/ listenPc = "reserved" /\ "listen" \in Faults
       \/ listenPc = "acked" /\ listenCur \in Unsupported
    /\ lost' = lost \cup {listenCur}
    /\ listenPc' = "idle"
    /\ listenCur' = None
    /\ UNCHANGED <<sendVars, putMsg, ack, ncclVars, comm, creditVars,
                   recvCompletions, received, submitted, held>>

\* Mutation: the receive event is not waited for.
RecvDoneMutant == recvCompletions # <<>>

\* _recv_completion_loop waits for the event of the oldest receive.
RecvDone ==
    /\ recvCompletions # <<>>
    /\ Head(recvCompletions) \notin Range(recvStream)

\* _recv_completion_loop: the oldest receive is complete and is published.
RecvComplete ==
    /\ RecvDone
    /\ LET p == Head(recvCompletions)
       IN  received' = [received EXCEPT ![RidOf[p]] = Append(@, p)]
    /\ recvCompletions' = Tail(recvCompletions)
    /\ UNCHANGED <<sendVars, putMsg, ack, ncclVars, listenVars, creditVars,
                   submitted, held, lost>>

\* _recv_completion_loop: the event of the oldest receive raised.
RecvError ==
    /\ "recv" \in Faults
    /\ RecvDone
    /\ Release(Head(recvCompletions))
    /\ MarkFailed(Head(recvCompletions))
    /\ recvCompletions' = Tail(recvCompletions)
    /\ UNCHANGED <<sendVars, putMsg, ack, ncclVars, listenVars, submitted, held, lost>>

\* The consumer process dies and comes back; the producer does not notice and
\* never sends INIT again.  A PUT the dead process had not read is delivered to
\* the new one or dropped with the connection.
ConsumerRestart ==
    /\ "restart" \in Faults
    /\ comm = "up"
    /\ comm' = "lost"
    /\ putMsg' \in {putMsg, None}
    /\ listenPc' = "idle" /\ listenCur' = None
    /\ recvStream' = <<>> /\ recvCompletions' = <<>>
    /\ received' = [r \in Rid |-> <<>>]
    /\ reserved' = 0 /\ expected' = {} /\ priority' = None
    /\ held' = {} /\ lost' = {}
    /\ UNCHANGED <<sendVars, ack, sendStream, landed, submitted>>

-----------------------------------------------------------------------------
\* Calls of the consumer's worker thread

\* drain_received
DrainReceived ==
    /\ held' = held \cup
               {p \in Payload : \E r \in Rid : p \in Range(received[r])}
    /\ received' = [r \in Rid |-> <<>>]
    /\ UNCHANGED <<sendVars, putMsg, ack, ncclVars, listenVars, creditVars,
                   recvCompletions, submitted, lost>>

\* release_received, after the payload was injected (or its load failed)
ReleaseReceived(p) ==
    /\ p \in held
    /\ held' = held \ {p}
    /\ Release(p)
    /\ UNCHANGED <<sendVars, putMsg, ack, ncclVars, listenVars, recvCompletions,
                   received, submitted, lost>>

\* set_expected_requests
SetExpectedRequests(S) ==
    /\ expected' = S
    /\ UNCHANGED <<sendVars, putMsg, ack, ncclVars, listenVars, reserved, priority,
                   recvCompletions, received, submitted, held, lost>>

-----------------------------------------------------------------------------
ProducerThreads ==
    \/ SendPop \/ SendRetry \/ SendRetire \/ SendPost \/ SendComplete

ConsumerThreads ==
    \/ ListenInit \/ ListenPutBeforeInit \/ ListenPutRetry \/ ListenPutReserve
    \/ ListenAck \/ ListenPost \/ RecvComplete

ConsumerFaults ==
    \/ ListenOom \/ ListenError \/ RecvError \/ ConsumerRestart

Clients ==
    \/ \E p \in Payload : Send(p) \/ ReleaseReceived(p)
    \/ DrainReceived
    \/ \E S \in SUBSET Rid : SetExpectedRequests(S)

Next == ProducerThreads \/ NcclTransfer \/ ConsumerThreads \/ ConsumerFaults \/ Clients

Spec == Init /\ [][Next]_vars
-----------------------------------------------------------------------------
\* Properties

TypeOK ==
    /\ sendQueue \in Seq(Payload) /\ sendCompletions \in Seq(Payload)
    /\ sendInflight \in Int /\ sendPendingBytes \in Int
    /\ sendCur \in Payload \cup {None}
    /\ putMsg \in Payload \cup {None}
    /\ ack \in {"OK", "OOM", "RETRY", None}
    /\ sendStream \in Seq(Payload) /\ recvStream \in Seq(Payload)
    /\ landed \in [Payload -> Payload \cup {None}]
    /\ comm \in {"none", "up", "lost"}
    /\ listenPc \in {"idle", "reserved", "acked"}
    /\ listenCur \in Payload \cup {None}
    /\ reserved \in Nat
    /\ expected \subseteq Rid /\ priority \in Rid \cup {None}
    /\ recvCompletions \in Seq(Payload)
    /\ received \in [Rid -> Seq(Payload \cup {Failed})]
    /\ submitted \subseteq Payload /\ held \subseteq Payload /\ lost \subseteq Payload

\* Payloads that are published and not drained yet
Published == {p \in Payload : \E r \in Rid : p \in Range(received[r])}

\* Payloads the consumer has published and its worker has not released.
Delivered == held \cup Published

\* The payload the listener is working on
Current == IF listenPc = "idle" THEN {} ELSE {listenCur}

\* Payloads that occupy receiver staging: from the reservation to the release.
Staged == Current \cup Range(recvCompletions) \cup Delivered \cup lost

\* The staging credit (_recv_reserved_bytes) is the size of exactly the staged
\* payloads: no reservation is returned twice, none is forgotten except where
\* the listener only logs an error, and the clamp at zero in release_received
\* never hides a difference.
CreditAccounting == reserved = SumFunctionOnSet(Bytes, Staged)

\* When wait_for_sent returns, nothing is left on the wire or on the send
\* stream: every payload was received into its buffer or refused.
WaitForSentDrained ==
    (sendQueue = <<>> /\ sendInflight = 0)
        => sendStream = <<>> /\ putMsg = None /\ ack = None

\* Every payload the consumer can read was received into its own buffer: the
\* k-th ncclSend and the k-th ncclRecv always belong to the same PUT, although
\* the acknowledgement is sent before the receive is posted.
PublishedIntact == \A p \in Delivered : landed[p] = p

\* The budget, or the size of one oversized payload where that is larger.
Budget == IF Capacity >= MaxBytes THEN Capacity ELSE MaxBytes

\* Staging stays within the budget, or one oversized payload admitted into an
\* empty buffer, plus one payload admitted past it for the scheduled step
\* (_reserve_received).
OverflowBounded ==
    reserved <= Budget + MaxBytes

\* The control channel carries one PUT at a time: what the send thread waits
\* for is on the wire, with the listener, or answered; a listener that has
\* acknowledged and not yet posted its receive may see the next PUT waiting.
Handshake ==
    /\ putMsg # None => sendCur = putMsg /\ ack = None /\ listenPc # "reserved"
    /\ ack # None => sendCur # None /\ listenPc # "reserved"
    /\ listenPc = "reserved" => sendCur = listenCur
    /\ listenPc = "idle" <=> listenCur = None
    /\ listenPc = "acked" /\ ack # None => ack = "OK" /\ sendCur = listenCur
    /\ comm = "lost" => listenPc = "idle" /\ recvStream = <<>>

\* The sends and the receives under way are the same payloads in the same
\* order, counting what either side has agreed to and not posted yet.
Aligned ==
    comm # "lost" =>
        (IF ack = "OK" /\ sendCur \notin Unsupported
           THEN Append(sendStream, sendCur) ELSE sendStream)
        = (IF listenPc = "acked" /\ listenCur \notin Unsupported
             THEN Append(recvStream, listenCur) ELSE recvStream)

\* A receive buffer holds nothing or its own payload; a payload whose receive
\* left the stream has landed, and so has every published one.
Landed ==
    /\ \A p \in Payload : landed[p] \in {None, p}
    /\ \A p \in Range(recvCompletions) : p \in Range(recvStream) \/ landed[p] = p
    /\ PublishedIntact

\* A send still on the stream still waits for its completion.
SendsTracked ==
    /\ Range(sendStream) \subseteq Range(sendCompletions)
    /\ sendInflight = Len(sendCompletions) + (IF sendCur = None THEN 0 ELSE 1)

\* A payload that may still be put: queued, in the message on the wire, or
\* refused with RETRY and about to be queued again.
Upstream ==
    Range(sendQueue)
        \cup (IF putMsg = None THEN {} ELSE {putMsg})
        \cup (IF ack = "RETRY" THEN {sendCur} ELSE {})

\* No payload stands twice in a queue; a failure mark may.
NoRepeat(q) == \A i, j \in DOMAIN q : q[i] = q[j] /\ q[i] # Failed => i = j

\* No queue holds a payload twice, and a published one is under its own key.
QueuesOnce ==
    /\ NoRepeat(sendQueue) /\ NoRepeat(recvCompletions)
    /\ \A k \in Rid : NoRepeat(received[k])
    /\ \A k \in Rid : \A p \in Payload \cap Range(received[k]) : RidOf[p] = k
    /\ sendCur \notin Range(sendQueue)
    /\ sendCur \in submitted \cup {None}
    /\ Range(recvStream) \subseteq Range(recvCompletions)

\* A payload is in one place of the pipeline at a time.
StagesDisjoint ==
    /\ Upstream \cup Staged \subseteq submitted
    /\ Upstream \cap Staged = {}
    /\ Current \cap (Range(recvCompletions) \cup Delivered \cup lost) = {}
    /\ Range(recvCompletions) \cap (Delivered \cup lost) = {}
    /\ Delivered \cap lost = {}
    /\ held \cap Published = {}

EachOnce == QueuesOnce /\ StagesDisjoint

\* The part of the overflow argument that is inductive: without the marker the
\* budget (or one oversized payload) holds, with it only one payload of the
\* marked key is beyond it.
OverflowMarked ==
    /\ priority = None => reserved <= Budget
    /\ \A p \in Payload : priority = RidOf[p] => reserved - Bytes[p] <= Budget
    /\ priority # None => \E p \in Payload : priority = RidOf[p]

\* The inductive invariant of the transport.
TransportInv == TypeOK /\ Handshake /\ Aligned /\ Landed /\ SendsTracked

\* The payloads of one key have one size, as when the children of one prompt
\* are sent under its transfer id.
UniformSizes ==
    \A p, q \in Payload : RidOf[p] = RidOf[q] => Bytes[p] = Bytes[q]

\* The transport implements one FIFO channel per key (KVChannel): what is
\* outstanding for a key is, oldest first, what waits for its receive event,
\* what the listener is working on, what is being put and what is queued.
Outstanding ==
    recvCompletions
        \o (IF listenPc = "idle" THEN <<>> ELSE <<listenCur>>)
        \o (IF sendCur # None /\ (putMsg = sendCur \/ ack = "RETRY")
              THEN <<sendCur>> ELSE <<>>)
        \o sendQueue

OutstandingOf(r) == SelectSeq(Outstanding, LAMBDA p : RidOf[p] = r)

Channel == INSTANCE KVChannel WITH
               fresh <- Payload \ submitted,
               queue <- [r \in Rid |-> OutstandingOf(r)],
               inbox <- received

ImplementsChannel == Channel!ChanSpec
=============================================================================
