----------------------- MODULE CompressedKVConnector -----------------------
(***************************************************************************)
(* kvserve_v1/connector/compressed_kv_connector.py, the worker side, on top *)
(* of the transport: the prefill engine saves the KV of a step's requests   *)
(* (wait_for_save) and the decode engine loads the KV of the requests it    *)
(* has scheduled (start_load_kv) before its forward pass.                   *)
(*                                                                          *)
(* A request is named by the payload its prefill produces: request r is     *)
(* saved as payload r and loaded by the decode request with r's key.        *)
(* Requests that share a transfer id may load each other's payload.         *)
(***************************************************************************)
EXTENDS NcclTransport

CONSTANTS
    AsyncSend,         \* KVSERVE_ASYNC_SEND
    MaxInflightBytes,  \* KVSERVE_MAX_INFLIGHT_BYTES
    PrefixCached,      \* requests the decode engine never loads: its own
                       \* prefix cache covers them (get_num_new_matched_tokens)
    RouterWaits        \* the router starts a decode request only after its
                       \* prefill has handed the KV to the transport

ASSUME ConnectorAssumption ==
    /\ AsyncSend \in BOOLEAN /\ RouterWaits \in BOOLEAN
    /\ MaxInflightBytes \in Nat
    /\ PrefixCached \subseteq Payload
    /\ None \notin Payload \X Payload

VARIABLES
    savePc,     \* "run" (scheduler, forward pass) or "save" (wait_for_save)
    toSave,     \* requests of this prefill step that are not sent yet
    loadPc,     \* "run", "start", "loop", "inject", or "stopped" by an error
    pending,    \* requests of this decode step that are not loaded yet
    buffered,   \* _worker_received_kv
    loading,    \* the request and the payload being injected
    scheduled,  \* requests some decode step has scheduled
    injected    \* injected[r]: the payload in r's KV blocks

saveVars == <<savePc, toSave>>
loadVars == <<loadPc, pending, buffered, loading, scheduled, injected>>
connVars == <<vars, saveVars, loadVars>>

ConnInit ==
    /\ Init
    /\ savePc = "run" /\ toSave = {}
    /\ loadPc = "run" /\ pending = {} /\ scheduled = {} /\ loading = None
    /\ buffered = [r \in Rid |-> <<>>]
    /\ injected = [r \in Payload |-> None]

-----------------------------------------------------------------------------
\* Prefill engine

\* A prefill step that completes the prompts of S reaches wait_for_save.
SaveStep(S) ==
    /\ comm # "none"
    /\ savePc = "run"
    /\ S \cap submitted = {} /\ S # {}
    /\ savePc' = "save"
    /\ toSave' = S
    /\ UNCHANGED <<vars, loadVars>>

\* wait_for_save hands one request's KV, compressed or raw, to the transport.
SaveSend(r) ==
    /\ r \in toSave
    /\ toSave' = toSave \ {r}
    /\ Send(r)
    /\ UNCHANGED <<savePc, loadVars>>

\* The end of wait_for_save: wait_for_below or wait_for_sent returns.
SaveWait ==
    /\ savePc = "save" /\ toSave = {}
    /\ IF AsyncSend THEN sendPendingBytes <= MaxInflightBytes
                    ELSE sendQueue = <<>> /\ sendInflight = 0
    /\ savePc' = "run"
    /\ UNCHANGED <<vars, toSave, loadVars>>

-----------------------------------------------------------------------------
\* Decode engine

\* What _worker_received_kv holds once the transport is drained
Drained == [k \in Rid |-> buffered[k] \o received[k]]

\* start_load_kv begins, for a step whose metadata lists S (often nothing):
\* the transport is drained.
LoadStart(S) ==
    /\ loadPc = "run"
    /\ S \cap (scheduled \cup PrefixCached) = {}
    /\ RouterWaits => S \subseteq submitted
    /\ DrainReceived
    /\ buffered' = Drained
    /\ pending' = S
    /\ scheduled' = scheduled \cup S
    /\ loadPc' = "start"
    /\ UNCHANGED <<saveVars, loading, injected>>

\* The step's transfer ids are announced to the transport.
LoadExpect ==
    /\ loadPc = "start"
    /\ SetExpectedRequests({RidOf[r] : r \in pending})
    /\ loadPc' = "loop"
    /\ UNCHANGED <<saveVars, pending, buffered, loading, scheduled, injected>>

\* Some payload is buffered for the request's transfer id.
Ready(r) == Drained[RidOf[r]] # <<>>

\* Mutation: a failure mark is skipped and the request goes on without its KV.
LoadOutcomeMutant(x) == IF x = Failed THEN "loop" ELSE "inject"

\* A failure mark raises RuntimeError, which stops the engine.
LoadOutcome(x) == IF x = Failed THEN "stopped" ELSE "inject"

\* One turn of the loop that finds a payload: any scheduled request with one
\* will do.  The release of a failure mark is for zero bytes and does nothing.
LoadTake(r) ==
    /\ loadPc = "loop" /\ r \in pending /\ Ready(r)
    /\ DrainReceived
    /\ LET x == Head(Drained[RidOf[r]])
       IN  /\ loading' = IF x = Failed THEN None ELSE <<r, x>>
           /\ loadPc' = LoadOutcome(x)
    /\ buffered' = [Drained EXCEPT ![RidOf[r]] = Tail(@)]
    /\ pending' = pending \ {r}
    /\ UNCHANGED <<saveVars, scheduled, injected>>

\* One turn that finds none
LoadPoll ==
    /\ loadPc = "loop" /\ pending # {}
    /\ \A r \in pending : ~ Ready(r)
    /\ DrainReceived
    /\ buffered' = Drained
    /\ UNCHANGED <<saveVars, loadPc, pending, loading, scheduled, injected>>

\* The same turn after the deadline: TimeoutError
LoadTimeout ==
    /\ "timeout" \in Faults
    /\ loadPc = "loop" /\ pending # {}
    /\ \A r \in pending : ~ Ready(r)
    /\ SetExpectedRequests({})
    /\ loadPc' = "stopped"
    /\ UNCHANGED <<saveVars, pending, buffered, loading, scheduled, injected>>

\* The payload is injected and its credit returned.
LoadInject ==
    /\ loadPc = "inject"
    /\ injected' = [injected EXCEPT ![loading[1]] = loading[2]]
    /\ ReleaseReceived(loading[2])
    /\ loading' = None
    /\ loadPc' = "loop"
    /\ UNCHANGED <<saveVars, pending, buffered, scheduled>>

\* Mutation: the credit is returned on success only.
LoadInjectErrorMutant ==
    /\ "decompress" \in Faults
    /\ loadPc = "inject"
    /\ loading' = None
    /\ loadPc' = "stopped"
    /\ UNCHANGED <<vars, saveVars, pending, buffered, scheduled, injected>>

\* Decompression or injection raises; the credit is returned all the same.
LoadInjectError ==
    /\ "decompress" \in Faults
    /\ loadPc = "inject"
    /\ ReleaseReceived(loading[2])
    /\ loading' = None
    /\ loadPc' = "stopped"
    /\ UNCHANGED <<saveVars, pending, buffered, scheduled, injected>>

\* start_load_kv returns and the forward pass runs.
LoadDone ==
    /\ loadPc = "loop" /\ pending = {}
    /\ SetExpectedRequests({})
    /\ loadPc' = "run"
    /\ UNCHANGED <<saveVars, pending, buffered, loading, scheduled, injected>>

-----------------------------------------------------------------------------
Transport ==
    /\ ProducerThreads \/ NcclTransfer \/ ConsumerThreads
         \/ ListenOom \/ ListenError \/ RecvError
    /\ UNCHANGED <<saveVars, loadVars>>

Prefill ==
    \/ \E S \in SUBSET Payload : SaveStep(S)
    \/ \E r \in Payload : SaveSend(r)
    \/ SaveWait

Decode ==
    \/ \E S \in SUBSET Payload : LoadStart(S)
    \/ LoadExpect
    \/ \E r \in Payload : LoadTake(r)
    \/ LoadPoll \/ LoadTimeout \/ LoadInject \/ LoadInjectError \/ LoadDone

ConnNext == Transport \/ Prefill \/ Decode

ConnSpec == ConnInit /\ [][ConnNext]_connVars

\* Every thread runs: the four transport threads and NCCL make progress when
\* they can, both engines finish the call they are in, and the decode
\* scheduler, which serves waiting requests in turn, does not pass over a
\* request for ever.  Nothing is assumed of the prefill scheduler.
Idle == UNCHANGED <<saveVars, loadVars>>
SendThread == (SendPop \/ SendRetry \/ SendRetire \/ SendPost) /\ Idle
SendCompletionThread == SendComplete /\ Idle
Nccl == NcclTransfer /\ Idle
ListenThread ==
    /\ ListenInit \/ ListenPutRetry \/ ListenPutReserve \/ ListenAck
         \/ ListenPost \/ ListenError
    /\ Idle
RecvCompletionThread == RecvComplete /\ Idle

Fairness ==
    /\ WF_connVars(SendThread)
    /\ WF_connVars(SendCompletionThread)
    /\ WF_connVars(Nccl)
    /\ WF_connVars(ListenThread)
    /\ WF_connVars(RecvCompletionThread)
    /\ WF_connVars(\E r \in Payload : SaveSend(r))
    /\ WF_connVars(SaveWait)
    /\ WF_connVars(LoadExpect \/ LoadInject \/ LoadDone
                     \/ \E r \in Payload : LoadTake(r))
    /\ SF_connVars(\E S \in SUBSET Payload : S # {} /\ LoadStart(S))

FairConnSpec == ConnSpec /\ Fairness

-----------------------------------------------------------------------------
\* Properties

\* A decode step whose start_load_kv returned has the KV of every request it
\* ever scheduled, each from an intact payload of the request's own key, and no
\* payload twice: missing or failed transfers stop inference, they never let it
\* continue without the cache data.
NoMissingKV ==
    /\ loadPc = "run" => \A r \in scheduled : injected[r] # None
    /\ \A r \in Payload : injected[r] # None =>
          /\ RidOf[injected[r]] = RidOf[r]
          /\ landed[injected[r]] = injected[r]
          /\ \A q \in Payload : injected[q] = injected[r] => q = r

\* The credit the connector owes the transport is that of the payloads it has
\* buffered and of the one it is injecting: every path of start_load_kv, also
\* the ones that raise, gives the credit of what it took back.
CreditOwed ==
    held = {p \in Payload : \E k \in Rid : p \in Range(buffered[k])}
             \cup (IF loading = None THEN {} ELSE {loading[2]})

\* A failed load stops the engine.
Stopped == loadPc = "stopped"

\* The types of the two engines' state
ConnTypeOK ==
    /\ savePc \in {"run", "save"} /\ toSave \subseteq Payload
    /\ loadPc \in {"run", "start", "loop", "inject", "stopped"}
    /\ pending \subseteq Payload /\ scheduled \subseteq Payload
    /\ buffered \in [Rid -> Seq(Payload \cup {Failed})]
    /\ loading \in (Payload \X Payload) \cup {None}
    /\ injected \in [Payload -> Payload \cup {None}]

\* What is buffered stands once, under its own key, and is not what is being
\* injected.
BufferedOnce ==
    \A k \in Rid :
        /\ NoRepeat(buffered[k])
        /\ \A p \in Payload \cap Range(buffered[k]) :
              RidOf[p] = k /\ (loading # None => loading[2] # p)

\* A scheduled request is loaded, is being loaded, still waits, or has stopped
\* the engine.
LoadProgress ==
    /\ loadPc = "inject" <=> loading # None
    /\ loading # None => RidOf[loading[2]] = RidOf[loading[1]]
    /\ loadPc = "run" => pending = {}
    /\ \A r \in scheduled :
          \/ injected[r] # None \/ r \in pending \/ Stopped
          \/ loading # None /\ loading[1] = r

\* A payload that was injected is intact, of the request's key, in no other
\* request and nowhere in the transport any more.
InjectedGone ==
    \A r \in Payload : injected[r] # None =>
        /\ RidOf[injected[r]] = RidOf[r]
        /\ landed[injected[r]] = injected[r]
        /\ injected[r] \in submitted /\ injected[r] \notin Upstream \cup Staged
        /\ \A q \in Payload : injected[q] = injected[r] => q = r

\* The inductive invariant of the connector on top of the transport
ConnInv ==
    /\ TransportInv /\ EachOnce
    /\ ConnTypeOK /\ CreditOwed /\ BufferedOnce /\ LoadProgress /\ InjectedGone

\* Every request that was handed to the transport and is not served from the
\* decode engine's own prefix cache is loaded in the end, or stops the engine.
EveryRequestLoaded ==
    \A r \in Payload \ PrefixCached : r \in submitted ~> injected[r] # None \/ Stopped

\* wait_for_save returns: as long as the decode engine lives, backpressure never
\* stops the prefill engine for good.
SaveCompletes == savePc = "save" ~> savePc = "run" \/ Stopped
=============================================================================
