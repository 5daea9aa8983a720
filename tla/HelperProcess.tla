--------------------------- MODULE HelperProcess ---------------------------
(***************************************************************************)
(* The life of the out-of-process session helper on a consumer rank: the    *)
(* engine's handle (SessionProcess: main thread, writer, reader and job     *)
(* pool), the pipe, the helper's event loop (_SessionService), and the      *)
(* shutdown of both.                                                        *)
(*                                                                          *)
(* What a session says to its producer is SessionConsumer's subject.  Here  *)
(* a request has a few sessions; each needs one decode job, may fail, and   *)
(* ends with a job that drains its slots unless the decode went well.       *)
(***************************************************************************)
EXTENDS Naturals, Sequences, Functions, FiniteSets

CONSTANTS Req, Session, Of,   \* Of: Session -> Req
          Workers,            \* threads of the job pool
          MayCrash, MaxLate,  \* bounds on faults
          None
ASSUME HelperAssumption ==
    Of \in [Session -> Req] /\ Workers \in Nat \ {0} /\ None \notin {"ok", "failed"}

VARIABLES
    \* engine process
    eng,        \* main thread: start, run, errors (between two calls of a step),
                \* raised; wait, joinWriter, joinHelper, closed, released
    published, job, ready, stopped,
    puts,       \* what the reader still has to put for its message
    finQ, invQ, taken, invalid, reported,
    \* pipe
    toHelper, toEngine,
    \* helper process
    helper,     \* boot, serving, stopping, terming, exited, crashed
    stop, recv, ses, cancelled, late
engVars == <<eng, published, job, ready, stopped>>
repVars == <<puts, finQ, invQ, taken, invalid, reported>>
pipeVars == <<toHelper, toEngine>>
helperVars == <<helper, stop, recv, ses, cancelled, late>>
procVars == <<engVars, repVars, pipeVars, helperVars>>

Job == Session \X {"decode", "drain"}
Gone == {"exited", "crashed"}
Alive == helper \notin Gone
SessionsOf(r) == {s \in Session : Of[s] = r}
\* A pool that is shut down takes no job.
Submitted == IF eng \in {"joinHelper", "closed", "released"} THEN "dropped" ELSE "queued"
Closed == {"ok", "failed", "cancelled"}

HelperInit ==
    /\ eng = "start" /\ published = {}
    /\ ready = FALSE /\ stopped = FALSE
    /\ job = [j \in Job |-> "none"]
    /\ puts = <<>> /\ finQ = <<>> /\ invQ = <<>> /\ taken = {} /\ invalid = {}
    /\ reported = [r \in Req |-> None]
    /\ toHelper = <<>> /\ toEngine = <<>>
    /\ helper = "boot" /\ stop = FALSE
    /\ recv = [r \in Req |-> "none"]
    /\ ses = [s \in Session |-> "none"]
    /\ cancelled = {} /\ late = {}

-----------------------------------------------------------------------------
\* Engine: start, publish and the two calls of a step

\* _out, _writer_loop and the pipe are one queue.  Nothing that is put after the
\* None of shutdown, or for a helper that is gone, gets through.
Send(m) ==
    toHelper' = IF Alive /\ eng \in {"start", "run", "errors", "raised", "wait"}
                THEN Append(toHelper, m) ELSE toHelper

\* start() returns when the reader has seen HelperReady, or raises.
StartReturns ==
    /\ eng = "start"
    /\ eng' = IF ready THEN "run" ELSE "raised"
    /\ UNCHANGED <<published, job, ready, stopped, repVars, pipeVars, helperVars>>

\* start_load_kv publishes the receives of a step.
StartLoadKV(r) ==
    /\ eng = "run" /\ r \notin published
    /\ published' = published \cup {r}
    /\ Send(<<"recv", r>>)
    /\ UNCHANGED <<eng, job, ready, stopped, repVars, toEngine, helperVars>>

GetFinished ==
    /\ eng = "run"
    /\ finQ # <<>> \/ invQ # <<>>
    /\ taken' = Range(finQ)
    /\ finQ' = <<>>
    /\ eng' = "errors"
    /\ UNCHANGED <<published, job, ready, stopped, puts, invQ, invalid, reported,
                   pipeVars, helperVars>>

\* A request's outcome for the engine is what it has been told by the end of the
\* step in which the request is reported.
GetBlockIdsWithLoadErrors ==
    /\ eng = "errors"
    /\ invalid' = invalid \cup Range(invQ)
    /\ reported' = [r \in Req |-> IF r \notin taken THEN reported[r]
                                  ELSE IF r \in invalid' THEN "failed" ELSE "ok"]
    /\ invQ' = <<>> /\ taken' = {}
    /\ eng' = "run"
    /\ UNCHANGED <<published, job, ready, stopped, puts, finQ, pipeVars, helperVars>>

-----------------------------------------------------------------------------
\* Engine: the threads of SessionProcess

\* _handle_recv_done.  Mutation: the request is put before its blocks.
HandleRecvDoneMutant(r, failed) ==
    IF failed THEN << <<"finished", r>>, <<"invalid", r>> >> ELSE << <<"finished", r>> >>

HandleRecvDone(r, failed) ==
    IF failed THEN << <<"invalid", r>>, <<"finished", r>> >> ELSE << <<"finished", r>> >>

\* _reader_loop takes one message; at the end of the pipe it just returns.
ReaderLoop ==
    LET m == Head(toEngine)
    IN  /\ puts = <<>> /\ toEngine # <<>>
        /\ toEngine' = Tail(toEngine)
        /\ ready' = (ready \/ m[1] = "ready")
        /\ stopped' = (stopped \/ m[1] = "stopped")
        /\ puts' = IF m[1] = "recvDone" THEN HandleRecvDone(m[2], m[3]) ELSE <<>>
        /\ job' = IF m[1] = "job" THEN [job EXCEPT ![m[2]] = Submitted] ELSE job
        /\ UNCHANGED <<eng, published, finQ, invQ, taken, invalid, reported,
                       toHelper, helperVars>>

\* The engine's step may come between two puts of the reader.
ReaderPut ==
    /\ puts # <<>>
    /\ puts' = Tail(puts)
    /\ finQ' = IF Head(puts)[1] = "finished" THEN Append(finQ, Head(puts)[2]) ELSE finQ
    /\ invQ' = IF Head(puts)[1] = "invalid" THEN Append(invQ, Head(puts)[2]) ELSE invQ
    /\ UNCHANGED <<engVars, taken, invalid, reported, pipeVars, helperVars>>

\* A pool thread takes a job up, and _run_job sends its result, an error too.
TakeJob(j) ==
    /\ job[j] = "queued" /\ Cardinality({i \in Job : job[i] = "running"}) < Workers
    /\ job' = [job EXCEPT ![j] = "running"]
    /\ UNCHANGED <<eng, published, ready, stopped, repVars, pipeVars, helperVars>>

\* Mutation: an exception of the handler is lost with its thread.
RunJobMutant(j, err) ==
    /\ job[j] = "running"
    /\ job' = [job EXCEPT ![j] = "over"]
    /\ IF err THEN UNCHANGED toHelper ELSE Send(<<"jobDone", j, err>>)
    /\ UNCHANGED <<eng, published, ready, stopped, repVars, toEngine, helperVars>>

RunJob(j, err) ==
    /\ job[j] = "running"
    /\ job' = [job EXCEPT ![j] = "over"]
    /\ Send(<<"jobDone", j, err>>)
    /\ UNCHANGED <<eng, published, ready, stopped, repVars, toEngine, helperVars>>

-----------------------------------------------------------------------------
\* Engine: shutdown.  Every wait of the main thread ends by a timeout, too.

\* Publishes EngineStop.  The worker is shut down between two steps, or after
\* start() has raised.
Shutdown ==
    /\ eng \in {"run", "raised"}
    /\ Send(<<"stop">>)
    /\ eng' = "wait"
    /\ UNCHANGED <<published, job, ready, stopped, repVars, toEngine, helperVars>>

\* _stopped.wait(30), then the writer is told to end (None).
StoppedWaited ==
    /\ eng = "wait"
    /\ eng' = "joinWriter"
    /\ UNCHANGED <<published, job, ready, stopped, repVars, pipeVars, helperVars>>

\* The pool drops what no thread has taken up and is not waited for.
WriterJoined ==
    /\ eng = "joinWriter"
    /\ job' = [j \in Job |-> IF job[j] = "queued" THEN "dropped" ELSE job[j]]
    /\ eng' = "joinHelper"
    /\ UNCHANGED <<published, ready, stopped, repVars, pipeVars, helperVars>>

\* Mutation: a helper that outlives the join is left alone.
KilledMutant(h) == h
\* join(5); terminate, join(2) and kill when it is still alive.
Killed(h) == IF h \in Gone THEN h ELSE "crashed"

HelperJoined ==
    /\ eng = "joinHelper"
    /\ helper' = Killed(helper)
    /\ eng' = "closed"
    /\ toHelper' = <<>> /\ toEngine' = <<>>     \* conn.close()
    /\ UNCHANGED <<published, job, ready, stopped, repVars,
                   stop, recv, ses, cancelled, late>>

\* The worker's own shutdown goes on to the manager's, which gives the pool back.
CompressionShutdown ==
    /\ eng = "closed"
    /\ eng' = "released"
    /\ UNCHANGED <<published, job, ready, stopped, repVars, pipeVars, helperVars>>

-----------------------------------------------------------------------------
\* Helper

\* The state of a session after its job.
JobOver(s, kind, err) ==
    IF kind = "decode"
    THEN IF err THEN "undecoded" ELSE IF s \in cancelled THEN "cancelled" ELSE "ok"
    ELSE IF s \in cancelled THEN "cancelled" ELSE "failed"

ToEngine(m) == toEngine' = Append(toEngine, m)

\* run(): the slots are there, HelperReady is sent.  A producer's helper first
\* registers with the bootstrap server, as often as that takes.
Boot ==
    /\ helper = "boot"
    /\ ToEngine(<<"ready">>)
    /\ helper' = "serving"
    /\ UNCHANGED <<engVars, repVars, toHelper, stop, recv, ses, cancelled, late>>

\* _on_engine_message for one message of the pipe.  The result of a job nobody
\* waits for any more is dropped.
OnEngineMessage ==
    LET m == Head(toHelper)
        awaited == m[1] = "jobDone" /\ m[2] \notin late
        s == m[2][1]
    IN  /\ helper \in {"boot", "serving", "stopping"} /\ toHelper # <<>>
        /\ toHelper' = Tail(toHelper)
        /\ stop' = (stop \/ m[1] = "stop")
        /\ recv' = IF m[1] = "recv" THEN [recv EXCEPT ![m[2]] = "run"] ELSE recv
        /\ ses' = [x \in Session |->
              IF m[1] = "recv" /\ Of[x] = m[2] THEN "open"
              ELSE IF awaited /\ x = s THEN JobOver(x, m[2][2], m[3])
              ELSE ses[x]]
        /\ UNCHANGED <<engVars, repVars, toEngine, helper, cancelled, late>>

\* _ensure_remote_agent: the query of the bootstrap server failed or does not know
\* the engine.  All blocks of the request have failed before a session began.
AgentMissing(r) ==
    /\ helper \in {"serving", "stopping"} /\ recv[r] = "run"
    /\ \A s \in SessionsOf(r) : ses[s] = "open" /\ s \notin cancelled
    /\ ToEngine(<<"recvDone", r, TRUE>>)
    /\ recv' = [recv EXCEPT ![r] = "over"]
    /\ ses' = [s \in Session |-> IF Of[s] = r THEN "failed" ELSE ses[s]]
    /\ UNCHANGED <<engVars, repVars, toHelper, helper, stop, cancelled, late>>

Submit(s, kind) == ToEngine(<<"job", <<s, kind>>>>)

\* A chunk is there: its decode job is submitted by a task of its own.
SubmitDecode(s) ==
    /\ helper \in {"serving", "stopping"} /\ ses[s] = "open" /\ s \notin cancelled
    /\ Submit(s, "decode")
    /\ ses' = [ses EXCEPT ![s] = "decode"]
    /\ UNCHANGED <<engVars, repVars, toHelper, helper, stop, recv, cancelled, late>>

\* The session fails before its chunk is there, or is cancelled there: its slot
\* is drained.
SessionFails(s) ==
    /\ helper \in {"serving", "stopping"} /\ ses[s] = "open"
    /\ Submit(s, "drain")
    /\ ses' = [ses EXCEPT ![s] = "drain"]
    /\ UNCHANGED <<engVars, repVars, toHelper, helper, stop, recv, cancelled, late>>

\* The decode job has ended badly or its 480 s are over; a session that was
\* cancelled has waited for it.
DrainSlots(s) ==
    /\ helper \in {"serving", "stopping"} /\ ses[s] = "undecoded"
    /\ Submit(s, "drain")
    /\ ses' = [ses EXCEPT ![s] = "drain"]
    /\ UNCHANGED <<engVars, repVars, toHelper, helper, stop, recv, cancelled, late>>

\* wait_for in _submit gives up.
JobTimeout(s) ==
    /\ helper \in {"serving", "stopping"} /\ ses[s] \in {"decode", "drain"}
    /\ Cardinality(late) < MaxLate
    /\ late' = late \cup {<<s, ses[s]>>}
    /\ ses' = [ses EXCEPT ![s] = JobOver(s, ses[s], TRUE)]
    /\ UNCHANGED <<engVars, repVars, pipeVars, helper, stop, recv, cancelled>>

\* The end of _recv_request.  A session that fails returns its blocks; one that
\* is cancelled ends the gather at once, and nothing is added to failed.
RecvRequestEnds(r) ==
    /\ helper \in {"serving", "stopping"} /\ recv[r] = "run"
    /\ \/ /\ \A s \in SessionsOf(r) : ses[s] \in {"ok", "failed"}
          /\ ToEngine(<<"recvDone", r, \E s \in SessionsOf(r) : ses[s] = "failed">>)
       \/ /\ \E s \in SessionsOf(r) : ses[s] = "cancelled"
          /\ ToEngine(<<"recvDone", r, FALSE>>)
    /\ recv' = [recv EXCEPT ![r] = "over"]
    /\ UNCHANGED <<engVars, repVars, toHelper, helper, stop, ses, cancelled, late>>

\* _shutdown: every receive that still runs is cancelled and awaited.
BeginShutdown ==
    /\ helper = "serving" /\ stop
    /\ cancelled' = {s \in Session : recv[Of[s]] = "run" /\ ses[s] \notin Closed}
    /\ helper' = "stopping"
    /\ UNCHANGED <<engVars, repVars, pipeVars, stop, recv, ses, late>>

\* term() blocks the loop until every socket is closed; a session that is still
\* open then stays so.
Gathered ==
    /\ helper = "stopping" /\ \A r \in Req : recv[r] # "run"
    /\ helper' = "terming"
    /\ UNCHANGED <<engVars, repVars, pipeVars, stop, recv, ses, cancelled, late>>

\* Mutation: the context is not terminated.
TermMutant == TRUE
Term == \A s \in Session : ses[s] \in Closed \cup {"none"}

Exit ==
    /\ helper = "terming" /\ Term
    /\ ToEngine(<<"stopped">>)
    /\ helper' = "exited"
    /\ UNCHANGED <<engVars, repVars, toHelper, stop, recv, ses, cancelled, late>>

\* The process dies.
Crash ==
    /\ Alive /\ MayCrash
    /\ helper' = "crashed"
    /\ UNCHANGED <<engVars, repVars, pipeVars, stop, recv, ses, cancelled, late>>

-----------------------------------------------------------------------------
EngineStep == GetFinished \/ GetBlockIdsWithLoadErrors
Stopping == StoppedWaited \/ WriterJoined \/ HelperJoined \/ CompressionShutdown
Reader == ReaderLoop \/ ReaderPut
SessionStep(s) == SubmitDecode(s) \/ SessionFails(s) \/ DrainSlots(s)
Loop == BeginShutdown \/ Gathered \/ Exit

HelperNext ==
    \/ StartReturns \/ EngineStep \/ Shutdown \/ Stopping \/ Reader
    \/ \E r \in Req : StartLoadKV(r) \/ AgentMissing(r) \/ RecvRequestEnds(r)
    \/ \E j \in Job : TakeJob(j) \/ \E err \in BOOLEAN : RunJob(j, err)
    \/ \E s \in Session : SessionStep(s) \/ JobTimeout(s)
    \/ Boot \/ OnEngineMessage \/ Loop \/ Crash

HelperSpec == HelperInit /\ [][HelperNext]_procVars

\* Fairness: threads and the event loop run, jobs and sessions end; the engine
\* steps while requests are out.  Nobody has to boot, shut down, fail or crash.
FairHelperSpec ==
    /\ HelperSpec
    /\ WF_procVars(EngineStep) /\ WF_procVars(Stopping)
    /\ WF_procVars(Reader)
    /\ WF_procVars(OnEngineMessage) /\ WF_procVars(Loop)
    /\ \A r \in Req : WF_procVars(RecvRequestEnds(r))
    /\ \A j \in Job : WF_procVars(TakeJob(j)) /\ WF_procVars(\E err \in BOOLEAN : RunJob(j, err))
    /\ \A s \in Session : WF_procVars(SessionStep(s))

-----------------------------------------------------------------------------
\* Properties

\* What the engine is told is so: a request reported without failed blocks has
\* had every session's chunk decoded, and a failed one's blocks are reported no
\* later than the request, whenever the reader runs between the calls of a step;
\* the empty failure lists of receives cancelled by a shutdown are never seen.
ReportTruthful ==
    \A r \in Req : reported[r] = "ok" => \A s \in SessionsOf(r) : ses[s] = "ok"

\* When the helper has said that it stopped no decode job is queued or running
\* unless its 480 s were over, so the engine may release the memory.
StoppedMeansQuiet ==
    stopped => \A s \in Session : <<s, "decode">> \notin late =>
                  job[<<s, "decode">>] \notin {"queued", "running"}

\* Every receive is reported while the helper and the engine are there.
ReceivesReported ==
    \A r \in Req : r \in published
        ~> reported[r] # None \/ helper = "crashed" \/ eng \notin {"run", "errors"}

\* shutdown ends, and with the helper gone: a helper that blocks in term(), or
\* never registered, is killed.
ShutdownEnds == eng = "wait" ~> eng = "released" /\ ~ Alive
=============================================================================
