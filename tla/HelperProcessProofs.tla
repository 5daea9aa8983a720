------------------------ MODULE HelperProcessProofs ------------------------
(***************************************************************************)
(* What the session helper reports is so, and "stopped" means quiet, for    *)
(* any number of requests, sessions and GPU workers and any number of late  *)
(* jobs.  Both follow from one inductive invariant, HelperInv.              *)
(***************************************************************************)
EXTENDS HelperProcess, DataLemmas

\* The messages of the two directions of the pipe, and the kinds the argument
\* tells apart.
HMsg == {<<"recv", r>> : r \in Req} \cup {<<"stop">>}
            \cup {<<"jobDone", j, err>> : j \in Job, err \in BOOLEAN}
EMsg == {<<"ready">>, <<"stopped">>} \cup {<<"job", j>> : j \in Job}
            \cup {<<"recvDone", r, failed>> : r \in Req, failed \in BOOLEAN}
RecvMsg(r) == {<<"recv", r>>}
StopMsg == {<<"stop">>}
DoneMsg(j) == {<<"jobDone", j, err>> : err \in BOOLEAN}
JobMsg(j) == {<<"job", j>>}
FineMsg(r) == {<<"recvDone", r, FALSE>>}
StoppedMsg == {<<"stopped">>}

SessionState == {"none", "open", "decode", "undecoded", "drain"} \cup Closed
Active == {"start", "run", "errors", "raised"}
PutsOf(r) == {HandleRecvDone(r, TRUE), HandleRecvDone(r, FALSE)}

\* The types the argument needs.
HelperType ==
    /\ published \subseteq Req
    /\ job \in [Job -> {"none", "queued", "running", "over", "dropped"}]
    /\ puts = <<>> \/ \E r \in Req : puts \in PutsOf(r)
    /\ finQ \in Seq(Req) /\ invQ \in Seq(Req) /\ taken \subseteq Req
    /\ toHelper \in Seq(HMsg) /\ toEngine \in Seq(EMsg)
    /\ ses \in [Session -> SessionState]
    /\ cancelled \subseteq Session /\ late \subseteq Job

\* A request that ends without failed blocks has all its sessions decoded, as
\* long as nobody has asked for a shutdown; or its blocks are already invalid.
Good(r) == eng \in Active => \A s \in SessionsOf(r) : ses[s] = "ok"
Told(r) == Good(r) \/ r \in invalid \cup Range(invQ)
ReportInv ==
    /\ \A r \in Req : Has(toEngine, FineMsg(r)) => Good(r)
    /\ \A r \in Req : puts = HandleRecvDone(r, FALSE) => Told(r)
    /\ \A r \in Range(finQ) \cup taken : Told(r)
    /\ ReportTruthful

\* Sessions are cancelled only after the engine has asked for it, and "stopped"
\* is the last word of a helper whose sessions are all over.
StopInv ==
    /\ stop \/ Has(toHelper, StopMsg) => eng \notin Active
    /\ cancelled # {} => stop
    /\ \A s \in Session : ses[s] = "cancelled" => eng \notin Active
    /\ stopped \/ Has(toEngine, StoppedMsg) =>
          helper = "exited" /\ \A s \in Session : ses[s] \in Closed \cup {"none"}

\* A receive reaches the helper once, before its sessions exist.
RecvInv ==
    \A r \in Req :
        /\ Has(toHelper, RecvMsg(r)) \/ r \notin published =>
              \A s \in SessionsOf(r) : ses[s] = "none"
        /\ Has(toHelper, RecvMsg(r)) => r \in published
        /\ Once(toHelper, RecvMsg(r))

\* A job is in one place at a time: asked for, in the pool, or answered; and
\* while it is, its session waits for it or has given it up.
InPool(j) == job[j] \in {"queued", "running"}
JobInv ==
    /\ \A j \in Job :
        /\ Has(toEngine, JobMsg(j)) \/ InPool(j) \/ Has(toHelper, DoneMsg(j)) =>
              j \in late \/ ses[j[1]] = j[2]
        /\ ~ (Has(toEngine, JobMsg(j)) /\ InPool(j))
        /\ ~ (Has(toEngine, JobMsg(j)) /\ Has(toHelper, DoneMsg(j)))
        /\ ~ (InPool(j) /\ Has(toHelper, DoneMsg(j)))
        /\ Once(toEngine, JobMsg(j)) /\ Once(toHelper, DoneMsg(j))
    /\ \A s \in Session :
        /\ ses[s] \in {"none", "open"} => <<s, "decode">> \notin late
        /\ ses[s] \in {"none", "open", "decode", "undecoded"} => <<s, "drain">> \notin late

HelperInv == HelperType /\ ReportInv /\ StopInv /\ RecvInv /\ JobInv

-----------------------------------------------------------------------------
\* The two queues

\* Of the messages M the queue p has at most those of q, and one more if b.
Gains(q, p, M, b) ==
    /\ Has(p, M) => Has(q, M) \/ b
    /\ Once(q, M) /\ (b => ~ Has(q, M)) => Once(p, M)

\* An untouched pipe gains nothing.
LEMMA SameGains ==
    ASSUME NEW q, NEW M, NEW b
    PROVE  Gains(q, q, M, b)
  BY Zenon DEF Gains

\* A put gains the message that is put.
LEMMA AppendGains ==
    ASSUME NEW S, NEW q \in Seq(S), NEW e \in S, NEW M
    PROVE  Gains(q, Append(q, e), M, e \in M)
  BY Zenon, HasAppend DEF Gains

\* A get gains nothing.
LEMMA TailGains ==
    ASSUME NEW S, NEW q \in Seq(S), q # <<>>, NEW M
    PROVE  Gains(q, Tail(q), M, FALSE)
  BY Zenon, HasTail DEF Gains

\* The kinds of the messages to the helper.
LEMMA HelperMessages ==
    /\ \A r \in Req : /\ <<"recv", r>> \in HMsg /\ <<"recv", r>> \notin StopMsg
                      /\ \A q \in Req : <<"recv", r>> \in RecvMsg(q) <=> q = r
                      /\ \A k \in Job : <<"recv", r>> \notin DoneMsg(k)
    /\ /\ <<"stop">> \in HMsg
       /\ \A q \in Req : <<"stop">> \notin RecvMsg(q)
       /\ \A k \in Job : <<"stop">> \notin DoneMsg(k)
    /\ \A j \in Job, err \in BOOLEAN :
          /\ <<"jobDone", j, err>> \in HMsg /\ <<"jobDone", j, err>> \notin StopMsg
          /\ \A q \in Req : <<"jobDone", j, err>> \notin RecvMsg(q)
          /\ \A k \in Job : <<"jobDone", j, err>> \in DoneMsg(k) <=> k = j
  <1>1. \A r \in Req : /\ <<"recv", r>> \in HMsg /\ <<"recv", r>> \notin StopMsg
                       /\ \A q \in Req : <<"recv", r>> \in RecvMsg(q) <=> q = r
                       /\ \A k \in Job : <<"recv", r>> \notin DoneMsg(k)
    BY SMTT(60), Z3T(60) DEF HMsg, StopMsg, RecvMsg, DoneMsg
  <1>2. /\ <<"stop">> \in HMsg
        /\ \A q \in Req : <<"stop">> \notin RecvMsg(q)
        /\ \A k \in Job : <<"stop">> \notin DoneMsg(k)
    BY SMTT(60), Z3T(60) DEF HMsg, RecvMsg, DoneMsg
  <1>3. ASSUME NEW j \in Job, NEW err \in BOOLEAN
        PROVE  /\ <<"jobDone", j, err>> \in HMsg /\ <<"jobDone", j, err>> \notin StopMsg
               /\ \A q \in Req : <<"jobDone", j, err>> \notin RecvMsg(q)
               /\ \A k \in Job : <<"jobDone", j, err>> \in DoneMsg(k) <=> k = j
    BY SMTT(60), Z3T(60) DEF HMsg, StopMsg, RecvMsg, DoneMsg
  <1> QED
    BY Zenon, <1>1, <1>2, <1>3

\* The kinds of the messages to the engine.
LEMMA EngineMessages ==
    /\ /\ <<"ready">> \in EMsg /\ <<"ready">> \notin StoppedMsg
       /\ \A q \in Req : <<"ready">> \notin FineMsg(q)
       /\ \A k \in Job : <<"ready">> \notin JobMsg(k)
    /\ /\ <<"stopped">> \in EMsg
       /\ \A q \in Req : <<"stopped">> \notin FineMsg(q)
       /\ \A k \in Job : <<"stopped">> \notin JobMsg(k)
    /\ \A j \in Job : /\ <<"job", j>> \in EMsg /\ <<"job", j>> \notin StoppedMsg
                      /\ \A q \in Req : <<"job", j>> \notin FineMsg(q)
                      /\ \A k \in Job : <<"job", j>> \in JobMsg(k) <=> k = j
    /\ \A r \in Req, failed \in BOOLEAN :
          /\ <<"recvDone", r, failed>> \in EMsg /\ <<"recvDone", r, failed>> \notin StoppedMsg
          /\ \A q \in Req : <<"recvDone", r, failed>> \in FineMsg(q) <=> q = r /\ failed = FALSE
          /\ \A k \in Job : <<"recvDone", r, failed>> \notin JobMsg(k)
  <1>1. /\ <<"ready">> \in EMsg /\ <<"ready">> \notin StoppedMsg
        /\ \A q \in Req : <<"ready">> \notin FineMsg(q)
        /\ \A k \in Job : <<"ready">> \notin JobMsg(k)
        /\ <<"stopped">> \in EMsg
        /\ \A q \in Req : <<"stopped">> \notin FineMsg(q)
        /\ \A k \in Job : <<"stopped">> \notin JobMsg(k)
    BY SMTT(60), Z3T(60) DEF EMsg, StoppedMsg, FineMsg, JobMsg
  <1>2. \A j \in Job : /\ <<"job", j>> \in EMsg /\ <<"job", j>> \notin StoppedMsg
                       /\ \A q \in Req : <<"job", j>> \notin FineMsg(q)
                       /\ \A k \in Job : <<"job", j>> \in JobMsg(k) <=> k = j
    BY SMTT(60), Z3T(60) DEF EMsg, StoppedMsg, FineMsg, JobMsg
  <1>3. ASSUME NEW r \in Req, NEW failed \in BOOLEAN
        PROVE  /\ <<"recvDone", r, failed>> \in EMsg /\ <<"recvDone", r, failed>> \notin StoppedMsg
               /\ \A q \in Req : <<"recvDone", r, failed>> \in FineMsg(q) <=> q = r /\ failed = FALSE
               /\ \A k \in Job : <<"recvDone", r, failed>> \notin JobMsg(k)
    <2>1. <<"recvDone", r, failed>> \in EMsg
      BY SMTT(60), Z3T(60) DEF EMsg
    <2>2. ASSUME NEW q \in Req
          PROVE  <<"recvDone", r, failed>> \in FineMsg(q) <=> q = r /\ failed = FALSE
      BY Zenon DEF FineMsg
    <2>3. /\ <<"recvDone", r, failed>> \notin StoppedMsg
          /\ \A k \in Job : <<"recvDone", r, failed>> \notin JobMsg(k)
      BY Zenon DEF StoppedMsg, JobMsg
    <2> QED
      BY Zenon, <2>1, <2>2, <2>3
  <1> QED
    BY Zenon, <1>1, <1>2, <1>3

\* send to the helper puts at most that one message.
LEMMA SendGains ==
    ASSUME HelperType, NEW m \in HMsg, Send(m)
    PROVE  toHelper' \in Seq(HMsg) /\ \A M : Gains(toHelper, toHelper', M, m \in M)
  <1>1. toHelper \in Seq(HMsg) /\ (toHelper' = Append(toHelper, m) \/ toHelper' = toHelper)
    BY Zenon DEF HelperType, Send
  <1>2. CASE toHelper' = Append(toHelper, m)
    BY Zenon, <1>1, <1>2, HasAppend, AppendGains
  <1>3. CASE toHelper' = toHelper
    BY Zenon, <1>1, <1>3, SameGains
  <1> QED
    BY Zenon, <1>1, <1>2, <1>3

\* The helper's put to the engine adds that one message.
LEMMA ToEngineGains ==
    ASSUME HelperType, NEW m \in EMsg, ToEngine(m)
    PROVE  toEngine' \in Seq(EMsg) /\ \A M : Gains(toEngine, toEngine', M, m \in M)
  <1>1. toEngine \in Seq(EMsg) /\ toEngine' = Append(toEngine, m)
    BY Zenon DEF HelperType, ToEngine
  <1> QED
    BY Zenon, <1>1, HasAppend, AppendGains

-----------------------------------------------------------------------------
\* Steps that report nothing, submit nothing and move no session

\* No receive and no job is added to the pipe; a stop only after the engine's
\* last step.
QuietPipe ==
    /\ toHelper' \in Seq(HMsg) /\ toEngine' \in Seq(EMsg)
    /\ \A r \in Req : /\ Gains(toHelper, toHelper', RecvMsg(r), FALSE)
                      /\ Gains(toEngine, toEngine', FineMsg(r), FALSE)
    /\ \A j \in Job : /\ Gains(toHelper, toHelper', DoneMsg(j), FALSE)
                      /\ Gains(toEngine, toEngine', JobMsg(j), FALSE)
    /\ Gains(toHelper, toHelper', StopMsg, eng' \notin Active)
    /\ Gains(toEngine, toEngine', StoppedMsg, FALSE)

\* A step that leaves both pipes alone gains no message of any kind.
LEMMA SamePipe ==
    ASSUME HelperType, UNCHANGED pipeVars
    PROVE  QuietPipe
  <1>1. toHelper' = toHelper /\ toEngine' = toEngine
    BY Zenon DEF pipeVars
  <1> QED
    BY Zenon, <1>1, SameGains DEF QuietPipe, HelperType

\* A step that gains none of the counted messages keeps the whole invariant.
LEMMA QuietStep ==
    ASSUME HelperInv, QuietPipe,
           eng' \in Active => eng \in Active,
           UNCHANGED <<published, ses, late, repVars, stopped, stop>>,
           job' \in [Job -> {"none", "queued", "running", "over", "dropped"}],
           \A j \in Job : InPool(j)' => InPool(j),
           cancelled' \subseteq Session, cancelled' # {} => stop,
           helper = "exited" => helper' = "exited"
    PROVE  HelperInv'
  <1>1. HelperType'
    BY Zenon DEF HelperInv, HelperType, QuietPipe, repVars
  <1>2. ReportInv'
    BY ZenonT(60) DEF HelperInv, ReportInv, ReportTruthful, QuietPipe, Gains, Good, Told, repVars
  <1>3. StopInv'
    BY Zenon DEF HelperInv, StopInv, QuietPipe, Gains
  <1>4. RecvInv'
    BY Zenon DEF HelperInv, RecvInv, QuietPipe, Gains
  <1>5. JobInv'
    BY Zenon DEF HelperInv, JobInv, QuietPipe, Gains, InPool
  <1> QED
    BY Zenon, <1>1, <1>2, <1>3, <1>4, <1>5 DEF HelperInv

\* Shutdown of the engine's handle, the job pool's threads, start and end of the
\* helper's loop, and its death.
LEMMA QuietActions ==
    ASSUME HelperInv,
           \/ StartReturns \/ Shutdown \/ Stopping
           \/ \E j \in Job : TakeJob(j)
           \/ Boot \/ BeginShutdown \/ Gathered \/ Crash
           \/ UNCHANGED procVars
    PROVE  HelperInv'
  <1> USE DEF engVars, pipeVars, helperVars, procVars, Active, InPool
  <1>t. HelperType
    BY Zenon DEF HelperInv
  <1>j. job \in [Job -> {"none", "queued", "running", "over", "dropped"}] /\ cancelled \subseteq Session
    BY Zenon, <1>t DEF HelperType
  <1>c. cancelled # {} => stop
    BY Zenon DEF HelperInv, StopInv
  <1>1. CASE StartReturns
    BY Zenon, <1>1, <1>t, <1>j, <1>c, SamePipe, QuietStep DEF StartReturns
  <1>2. CASE Shutdown
    <2>1. toHelper' \in Seq(HMsg) /\ \A M : Gains(toHelper, toHelper', M, <<"stop">> \in M)
      BY Zenon, <1>2, <1>t, HelperMessages, SendGains DEF Shutdown
    <2>2. QuietPipe
      <3>1. eng' \notin Active /\ toEngine' = toEngine /\ toEngine \in Seq(EMsg)
        BY Zenon, <1>2, <1>t DEF Shutdown, HelperType
      <3>2. \A r \in Req : Gains(toHelper, toHelper', RecvMsg(r), FALSE)
        BY Zenon, <2>1, HelperMessages DEF Gains
      <3>3. \A j \in Job : Gains(toHelper, toHelper', DoneMsg(j), FALSE)
        BY Zenon, <2>1, HelperMessages DEF Gains
      <3>4. Gains(toHelper, toHelper', StopMsg, eng' \notin Active)
        BY Zenon, <2>1, <3>1 DEF Gains, StopMsg
      <3> QED
        BY ZenonT(60), <2>1, <3>1, <3>2, <3>3, <3>4, SameGains DEF QuietPipe
    <2> QED
      BY Zenon, <1>2, <2>2, <1>j, <1>c, QuietStep DEF Shutdown
  <1>3. CASE StoppedWaited \/ CompressionShutdown
    BY Zenon, <1>3, <1>t, <1>j, <1>c, SamePipe, QuietStep DEF StoppedWaited, CompressionShutdown
  <1>4. CASE WriterJoined
    BY Zenon, <1>4, <1>t, <1>j, <1>c, SamePipe, QuietStep DEF WriterJoined
  <1>5. CASE HelperJoined
    <2>1. QuietPipe
      BY SMTT(60), Z3T(60), <1>5, HasEmpty DEF HelperJoined, QuietPipe, Gains
    <2> QED
      BY Zenon, <1>5, <2>1, <1>j, <1>c, QuietStep DEF HelperJoined, Killed, Gone
  <1>6. ASSUME NEW j \in Job, TakeJob(j) PROVE HelperInv'
    BY Zenon, <1>6, <1>t, <1>j, <1>c, SamePipe, QuietStep DEF TakeJob
  <1>7. CASE Boot
    <2>1. toEngine' \in Seq(EMsg) /\ \A M : Gains(toEngine, toEngine', M, <<"ready">> \in M)
      BY Zenon, <1>7, <1>t, EngineMessages, ToEngineGains DEF Boot
    <2>2. QuietPipe
      <3>1. eng' = eng /\ toHelper' = toHelper /\ toHelper \in Seq(HMsg)
        BY Zenon, <1>7, <1>t DEF Boot, HelperType
      <3>2. \A r \in Req : Gains(toEngine, toEngine', FineMsg(r), FALSE)
        BY Zenon, <2>1, EngineMessages DEF Gains
      <3>3. \A j \in Job : Gains(toEngine, toEngine', JobMsg(j), FALSE)
        BY Zenon, <2>1, EngineMessages DEF Gains
      <3>4. Gains(toEngine, toEngine', StoppedMsg, FALSE)
        BY Zenon, <2>1, EngineMessages DEF Gains
      <3> QED
        BY ZenonT(60), <2>1, <3>1, <3>2, <3>3, <3>4, SameGains DEF QuietPipe
    <2> QED
      BY Zenon, <1>7, <2>2, <1>j, <1>c, QuietStep DEF Boot
  <1>8. CASE BeginShutdown
    BY Zenon, <1>8, <1>t, <1>j, SamePipe, QuietStep DEF BeginShutdown
  <1>9. CASE Gathered \/ Crash
    BY Zenon, <1>9, <1>t, <1>j, <1>c, SamePipe, QuietStep DEF Gathered, Crash, Alive, Gone
  <1>10. CASE UNCHANGED procVars
    BY Zenon, <1>10, <1>t, <1>j, <1>c, SamePipe, QuietStep
  <1> QED
    BY Zenon, <1>1, <1>2, <1>3, <1>4, <1>5, <1>6, <1>7, <1>8, <1>9, <1>10 DEF Stopping

-----------------------------------------------------------------------------
\* The engine's calls and the reader's puts touch ReportInv only.

\* The rest of the invariant does not depend on the reports.
LEMMA ReportStep ==
    ASSUME HelperInv, HelperType', ReportInv',
           eng' \in Active <=> eng \in Active,
           UNCHANGED <<published, job, stopped, pipeVars, helperVars>>
    PROVE  HelperInv'
  <1> USE DEF pipeVars, helperVars
  <1>1. StopInv'
    BY Zenon DEF HelperInv, StopInv
  <1>2. RecvInv'
    BY Zenon DEF HelperInv, RecvInv
  <1>3. JobInv'
    BY Zenon DEF HelperInv, JobInv, InPool
  <1> QED
    BY Zenon, <1>1, <1>2, <1>3 DEF HelperInv

\* get_finished, the error poll and the second put of _reader_loop keep it.
LEMMA ReportActions ==
    ASSUME HelperInv, EngineStep \/ ReaderPut
    PROVE  HelperInv'
  <1> USE DEF Active, engVars, pipeVars, helperVars
  <1>e. <<>> \in Seq(Req) /\ Range(<<>>) = {}
    BY SMTT(60), Z3T(60), SeqElements, RangeSeq DEF Range
  <1>1. CASE GetFinished
    <2>1. Range(finQ) \subseteq Req
      BY SMTT(60), Z3T(60), RangeSeq DEF HelperInv, HelperType, Range
    <2>2. HelperType'
      BY Zenon, <1>1, <1>e, <2>1 DEF GetFinished, HelperInv, HelperType
    <2>3. ReportInv'
      BY Zenon, <1>1, <1>e DEF GetFinished, HelperInv, ReportInv, ReportTruthful, Good, Told
    <2> QED
      BY Zenon, <1>1, <2>2, <2>3, ReportStep DEF GetFinished
  <1>2. CASE GetBlockIdsWithLoadErrors
    <2>1. HelperType'
      BY Zenon, <1>2, <1>e DEF GetBlockIdsWithLoadErrors, HelperInv, HelperType
    <2>2. \A r \in Req : Told(r) => Told(r)'
      BY Zenon, <1>2 DEF GetBlockIdsWithLoadErrors, Told, Good
    <2>3. ReportTruthful'
      BY Zenon, <1>2 DEF GetBlockIdsWithLoadErrors, HelperInv, ReportInv, ReportTruthful, Told, Good
    <2>4. Range(finQ) \subseteq Req
      BY SMTT(60), Z3T(60), RangeSeq DEF HelperInv, HelperType, Range
    <2>5. ReportInv'
      BY Zenon, <1>2, <2>2, <2>3, <2>4 DEF GetBlockIdsWithLoadErrors, HelperInv, ReportInv, Good
    <2> QED
      BY Zenon, <1>2, <2>1, <2>5, ReportStep DEF GetBlockIdsWithLoadErrors
  <1>3. CASE ReaderPut
    <2>1. PICK r \in Req : puts \in PutsOf(r)
      BY Zenon, <1>3 DEF ReaderPut, HelperInv, HelperType
    <2>2. CASE puts = HandleRecvDone(r, FALSE)
      <3>1. puts' = <<>> /\ finQ' = Append(finQ, r) /\ invQ' = invQ
        BY SMTT(60), Z3T(60), <1>3, <2>2 DEF ReaderPut, HandleRecvDone
      <3>2. finQ' \in Seq(Req) /\ Range(finQ') = Range(finQ) \cup {r}
        BY SMTT(60), Z3T(60), <3>1, AppendRange DEF HelperInv, HelperType
      <3>3. HelperType'
        BY Zenon, <1>3, <3>1, <3>2 DEF ReaderPut, HelperInv, HelperType
      <3>4. Told(r)
        BY Zenon, <2>2 DEF HelperInv, ReportInv
      <3>5. \A q \in Req : puts' # HandleRecvDone(q, FALSE)
        BY Zenon, <3>1 DEF HandleRecvDone
      <3>6. ReportInv'
        BY ZenonT(60), <1>3, <3>1, <3>2, <3>4, <3>5
        DEF ReaderPut, HelperInv, ReportInv, ReportTruthful, Told, Good
      <3> QED
        BY Zenon, <1>3, <3>3, <3>6, ReportStep DEF ReaderPut
    <2>3. CASE puts = HandleRecvDone(r, TRUE)
      <3>1. puts' = HandleRecvDone(r, FALSE) /\ finQ' = finQ /\ invQ' = Append(invQ, r)
        BY SMTT(60), Z3T(60), <1>3, <2>3 DEF ReaderPut, HandleRecvDone
      <3>2. invQ' \in Seq(Req) /\ Range(invQ') = Range(invQ) \cup {r}
        BY SMTT(60), Z3T(60), <3>1, AppendRange DEF HelperInv, HelperType
      <3>3. HelperType'
        BY Zenon, <1>3, <3>1, <3>2 DEF ReaderPut, HelperInv, HelperType, PutsOf
      <3>4. \A q : Told(q) => Told(q)'
        BY Zenon, <1>3, <3>2 DEF ReaderPut, Told, Good
      <3>5. \A q \in Req : puts' = HandleRecvDone(q, FALSE) => q = r
        BY Zenon, <3>1 DEF HandleRecvDone
      <3>6. ReportInv'
        BY ZenonT(60), <1>3, <3>1, <3>2, <3>4, <3>5
        DEF ReaderPut, HelperInv, ReportInv, ReportTruthful, Told, Good
      <3> QED
        BY Zenon, <1>3, <3>3, <3>6, ReportStep DEF ReaderPut
    <2> QED
      BY ZenonT(60), <2>1, <2>2, <2>3 DEF PutsOf
  <1> QED
    BY Zenon, <1>1, <1>2, <1>3 DEF EngineStep

-----------------------------------------------------------------------------
\* Steps of the sessions

\* A session asks for a job: it does not wait for another one, and has not asked
\* for this one before.
Submits(s, kind) ==
    /\ helper \in {"serving", "stopping"}
    /\ ses[s] = "open" \/ (ses[s] = "undecoded" /\ kind = "drain")
    /\ Submit(s, kind) /\ ses' = [ses EXCEPT ![s] = kind]
    /\ UNCHANGED <<engVars, repVars, toHelper, helper, stop, recv, cancelled, late>>

\* A job is submitted by its session, once, and is then in the pipe.
LEMMA SubmitStep ==
    ASSUME HelperInv, NEW s \in Session, NEW kind \in {"decode", "drain"}, Submits(s, kind)
    PROVE  HelperInv'
  <1> USE DEF engVars, repVars, Submits
  <1> DEFINE j == <<s, kind>>
  <1>1. j \in Job /\ <<"job", j>> \in EMsg
    BY Zenon, EngineMessages DEF Job
  <1>t. HelperType /\ ses \in [Session -> SessionState]
    BY Zenon DEF HelperInv, HelperType
  <1>2. toEngine' \in Seq(EMsg) /\ \A M : Gains(toEngine, toEngine', M, <<"job", j>> \in M)
    BY Zenon, <1>1, <1>t, ToEngineGains DEF Submit
  <1>3. /\ \A r \in Req : Gains(toEngine, toEngine', FineMsg(r), FALSE)
        /\ \A k \in Job : Gains(toEngine, toEngine', JobMsg(k), k = j)
        /\ Gains(toEngine, toEngine', StoppedMsg, FALSE)
    BY Zenon, <1>1, <1>2, EngineMessages DEF Gains
  <1>4. HelperType'
    BY Zenon, <1>2, <1>t DEF HelperType, SessionState
  <1>5. \A x \in Session : ses[x] = "ok" => ses'[x] = "ok"
    BY Zenon, <1>t
  <1>6. ReportInv'
    BY ZenonT(60), <1>3, <1>5 DEF HelperInv, ReportInv, ReportTruthful, Good, Told, Gains, SessionsOf
  <1>7. StopInv'
    BY Zenon, <1>3, <1>t DEF HelperInv, StopInv, Gains
  <1>8. RecvInv'
    BY Zenon, <1>t DEF HelperInv, RecvInv, SessionsOf
  <1>9. j \notin late /\ ~ Has(toEngine, JobMsg(j)) /\ ~ InPool(j) /\ ~ Has(toHelper, DoneMsg(j))
    BY ZenonT(60), <1>1, <1>t DEF HelperInv, JobInv
  <1>10. \A k \in Job : k # j /\ k[1] = s /\ ses[s] = k[2] => FALSE
    BY Zenon DEF Job
  <1>11. JobInv'
    <2>1. ASSUME NEW k \in Job
          PROVE  /\ Has(toEngine, JobMsg(k))' \/ InPool(k)' \/ Has(toHelper, DoneMsg(k))' =>
                       (k \in late \/ ses[k[1]] = k[2])'
                 /\ ~ (Has(toEngine, JobMsg(k)) /\ InPool(k))'
                 /\ ~ (Has(toEngine, JobMsg(k)) /\ Has(toHelper, DoneMsg(k)))'
                 /\ ~ (InPool(k) /\ Has(toHelper, DoneMsg(k)))'
                 /\ Once(toEngine, JobMsg(k))' /\ Once(toHelper, DoneMsg(k))'
      <3>1. k[1] \in Session /\ (k = j => k[1] = s /\ k[2] = kind)
        BY SMTT(60), Z3T(60) DEF Job
      <3>2. CASE k = j
        BY ZenonT(60), <3>1, <3>2, <1>3, <1>9, <1>t DEF HelperInv, JobInv, Gains, InPool
      <3>3. CASE k # j
        BY Zenon, <3>1, <3>3, <1>3, <1>10, <1>t DEF HelperInv, JobInv, Gains, InPool
      <3> QED
        BY Zenon, <3>2, <3>3
    <2>2. ASSUME NEW x \in Session
          PROVE  /\ ses'[x] \in {"none", "open"} => <<x, "decode">> \notin late
                 /\ ses'[x] \in {"none", "open", "decode", "undecoded"} => <<x, "drain">> \notin late
      BY Zenon, <1>t DEF HelperInv, JobInv
    <2> QED
      BY Zenon, <2>1, <2>2 DEF JobInv
  <1> QED
    BY Zenon, <1>4, <1>6, <1>7, <1>8, <1>11 DEF HelperInv

\* The steps of a receive session that submit a decode or a drain job.
LEMMA SubmitActions ==
    ASSUME HelperInv, NEW s \in Session, SessionStep(s)
    PROVE  HelperInv'
  <1>1. SubmitDecode(s) => Submits(s, "decode")
    BY Zenon DEF SubmitDecode, Submits
  <1>2. SessionFails(s) \/ DrainSlots(s) => Submits(s, "drain")
    BY Zenon DEF SessionFails, DrainSlots, Submits
  <1> QED
    BY Zenon, <1>1, <1>2, SubmitStep DEF SessionStep

\* The wait for a job times out: the session goes on and the job is late.
LEMMA TimeoutAction ==
    ASSUME HelperInv, NEW s \in Session, JobTimeout(s)
    PROVE  HelperInv'
  <1> USE DEF engVars, repVars, pipeVars
  <1> DEFINE j == <<s, ses[s]>>
  <1>t. HelperType /\ ses \in [Session -> SessionState]
    BY Zenon DEF HelperInv, HelperType
  <1>1. /\ ses[s] \in {"decode", "drain"} /\ j \in Job /\ late' = late \cup {j}
        /\ ses' = [ses EXCEPT ![s] = JobOver(s, ses[s], TRUE)]
        /\ JobOver(s, ses[s], TRUE) \in SessionState
        /\ helper \in {"serving", "stopping"}
        /\ UNCHANGED <<engVars, repVars, pipeVars, helper, stop, recv, cancelled>>
    BY Zenon DEF JobTimeout, Job, JobOver, SessionState, Closed
  <1>2. HelperType'
    BY Zenon, <1>1, <1>t DEF HelperType
  <1>3. ReportInv'
    BY Zenon, <1>1, <1>t DEF HelperInv, ReportInv, ReportTruthful, Good, Told, SessionsOf
  <1>4. StopInv'
    BY Zenon, <1>1, <1>t DEF HelperInv, StopInv, JobOver
  <1>5. RecvInv'
    BY Zenon, <1>1, <1>t DEF HelperInv, RecvInv, SessionsOf
  <1>6. JobInv'
    <2>1. ASSUME NEW k \in Job, k \in late \/ ses[k[1]] = k[2]
          PROVE  k \in late' \/ ses'[k[1]] = k[2]
      <3>1. k = <<k[1], k[2]>> /\ k[1] \in Session
        BY SMTT(60), Z3T(60) DEF Job
      <3>2. CASE k[1] = s
        BY ZenonT(60), <3>1, <3>2, <2>1, <1>1
      <3>3. CASE k[1] # s
        BY Zenon, <3>1, <3>3, <2>1, <1>1, <1>t
      <3> QED
        BY Zenon, <3>2, <3>3
    <2>2. ASSUME NEW x \in Session
          PROVE  /\ ses'[x] \in {"none", "open"} => <<x, "decode">> \notin late'
                 /\ ses'[x] \in {"none", "open", "decode", "undecoded"} => <<x, "drain">> \notin late'
      BY Zenon, <1>1, <1>t DEF HelperInv, JobInv, JobOver
    <2> QED
      BY Zenon, <1>1, <2>1, <2>2 DEF HelperInv, JobInv, InPool
  <1> QED
    BY Zenon, <1>2, <1>3, <1>4, <1>5, <1>6 DEF HelperInv

\* AgentMissing and RecvRequestEnds send a request's outcome; a good one only
\* when all its sessions are, or after a cancellation.
LEMMA OutcomeActions ==
    ASSUME HelperInv, NEW r \in Req, AgentMissing(r) \/ RecvRequestEnds(r)
    PROVE  HelperInv'
  <1> USE DEF engVars, repVars
  <1>t. HelperType /\ ses \in [Session -> SessionState]
    BY Zenon DEF HelperInv, HelperType
  <1>1. PICK failed \in BOOLEAN :
          /\ ToEngine(<<"recvDone", r, failed>>)
          /\ failed = FALSE => Good(r)
    <2>1. CASE AgentMissing(r)
      BY Zenon, <2>1 DEF AgentMissing
    <2>2. CASE RecvRequestEnds(r)
      <3> DEFINE f == \E s \in SessionsOf(r) : ses[s] = "failed"
      <3>1. CASE /\ \A s \in SessionsOf(r) : ses[s] \in {"ok", "failed"}
                 /\ ToEngine(<<"recvDone", r, f>>)
        <4>1. f \in BOOLEAN /\ (f = FALSE => Good(r))
          BY Zenon, <3>1 DEF Good
        <4> HIDE DEF f
        <4> QED
          BY Zenon, <3>1, <4>1
      <3>2. CASE /\ \E s \in SessionsOf(r) : ses[s] = "cancelled"
                 /\ ToEngine(<<"recvDone", r, FALSE>>)
        BY ZenonT(60), <3>2 DEF HelperInv, StopInv, Good, SessionsOf
      <3> QED
        BY Zenon, <2>2, <3>1, <3>2 DEF RecvRequestEnds
    <2> QED
      BY Zenon, <2>1, <2>2
  <1>2. /\ helper \in {"serving", "stopping"}
        /\ ses' \in [Session -> SessionState]
        /\ \A s \in Session : ses'[s] = ses[s] \/ (ses[s] = "open" /\ ses'[s] = "failed")
        /\ UNCHANGED <<engVars, repVars, toHelper, helper, stop, cancelled, late>>
    BY Zenon, <1>t DEF AgentMissing, RecvRequestEnds, SessionsOf, SessionState, Closed
  <1>3. toEngine' \in Seq(EMsg) /\ \A M : Gains(toEngine, toEngine', M, <<"recvDone", r, failed>> \in M)
    BY Zenon, <1>1, <1>t, EngineMessages, ToEngineGains
  <1>4. /\ \A q \in Req : Gains(toEngine, toEngine', FineMsg(q), q = r /\ failed = FALSE)
        /\ \A k \in Job : Gains(toEngine, toEngine', JobMsg(k), FALSE)
        /\ Gains(toEngine, toEngine', StoppedMsg, FALSE)
    BY Zenon, <1>3, EngineMessages DEF Gains
  <1>5. HelperType'
    BY Zenon, <1>2, <1>3, <1>t DEF HelperType
  <1>6. ReportInv'
    BY ZenonT(60), <1>1, <1>2, <1>4 DEF HelperInv, ReportInv, ReportTruthful, Good, Told, Gains, SessionsOf
  <1>7. StopInv'
    BY Zenon, <1>2, <1>4 DEF HelperInv, StopInv, Gains
  <1>8. RecvInv'
    BY ZenonT(60), <1>2 DEF HelperInv, RecvInv, SessionsOf
  <1>9. JobInv'
    <2>1. ASSUME NEW k \in Job, k \in late \/ ses[k[1]] = k[2]
          PROVE  k \in late' \/ ses'[k[1]] = k[2]
      <3>1. k[1] \in Session /\ k[2] # "open"
        BY Zenon DEF Job
      <3> QED
        BY Zenon, <2>1, <3>1, <1>2
    <2> QED
      BY ZenonT(60), <1>2, <1>4, <2>1 DEF HelperInv, JobInv, InPool, Gains
  <1> QED
    BY Zenon, <1>5, <1>6, <1>7, <1>8, <1>9 DEF HelperInv

\* The helper reports that it stopped as its last message.
LEMMA ExitAction ==
    ASSUME HelperInv, Exit
    PROVE  HelperInv'
  <1> USE DEF engVars, repVars
  <1>t. HelperType
    BY Zenon DEF HelperInv
  <1>1. toEngine' \in Seq(EMsg) /\ \A M : Gains(toEngine, toEngine', M, <<"stopped">> \in M)
    BY Zenon, <1>t, EngineMessages, ToEngineGains DEF Exit
  <1>2. /\ \A q \in Req : Gains(toEngine, toEngine', FineMsg(q), FALSE)
        /\ \A k \in Job : Gains(toEngine, toEngine', JobMsg(k), FALSE)
    BY Zenon, <1>1, EngineMessages DEF Gains
  <1>3. HelperType'
    BY Zenon, <1>1, <1>t DEF Exit, HelperType
  <1>4. ReportInv'
    BY Zenon, <1>2 DEF Exit, HelperInv, ReportInv, ReportTruthful, Good, Told, Gains
  <1>5. StopInv'
    BY Zenon DEF Exit, Term, HelperInv, StopInv
  <1>6. RecvInv'
    BY Zenon DEF Exit, HelperInv, RecvInv
  <1>7. JobInv'
    BY ZenonT(60), <1>2 DEF Exit, HelperInv, JobInv, InPool, Gains
  <1> QED
    BY Zenon, <1>3, <1>4, <1>5, <1>6, <1>7 DEF HelperInv

-----------------------------------------------------------------------------
\* Messages to the helper

\* start_load_kv publishes a request once and sends it to the helper.
LEMMA StartLoadAction ==
    ASSUME HelperInv, NEW r \in Req, StartLoadKV(r)
    PROVE  HelperInv'
  <1> USE DEF repVars, helperVars
  <1>t. HelperType
    BY Zenon DEF HelperInv
  <1>1. toHelper' \in Seq(HMsg) /\ \A M : Gains(toHelper, toHelper', M, <<"recv", r>> \in M)
    BY Zenon, <1>t, HelperMessages, SendGains DEF StartLoadKV
  <1>2. /\ \A q \in Req : Gains(toHelper, toHelper', RecvMsg(q), q = r)
        /\ \A k \in Job : Gains(toHelper, toHelper', DoneMsg(k), FALSE)
        /\ Gains(toHelper, toHelper', StopMsg, FALSE)
    BY Zenon, <1>1, HelperMessages DEF Gains
  <1>3. HelperType'
    BY Zenon, <1>1, <1>t DEF StartLoadKV, HelperType
  <1>4. ReportInv'
    BY Zenon DEF StartLoadKV, HelperInv, ReportInv, ReportTruthful, Good, Told
  <1>5. StopInv'
    BY Zenon, <1>2 DEF StartLoadKV, HelperInv, StopInv, Gains
  <1>6. RecvInv'
    BY Zenon, <1>2 DEF StartLoadKV, HelperInv, RecvInv, Gains
  <1>7. JobInv'
    BY ZenonT(60), <1>2 DEF StartLoadKV, HelperInv, JobInv, InPool, Gains
  <1> QED
    BY Zenon, <1>3, <1>4, <1>5, <1>6, <1>7 DEF HelperInv

\* A job of the pool ends and its result is sent to the helper once.
LEMMA RunJobAction ==
    ASSUME HelperInv, NEW j \in Job, NEW err \in BOOLEAN, RunJob(j, err)
    PROVE  HelperInv'
  <1> USE DEF repVars, helperVars
  <1>t. HelperType /\ job \in [Job -> {"none", "queued", "running", "over", "dropped"}]
    BY Zenon DEF HelperInv, HelperType
  <1>1. toHelper' \in Seq(HMsg) /\ \A M : Gains(toHelper, toHelper', M, <<"jobDone", j, err>> \in M)
    BY Zenon, <1>t, HelperMessages, SendGains DEF RunJob
  <1>2. /\ \A q \in Req : Gains(toHelper, toHelper', RecvMsg(q), FALSE)
        /\ \A k \in Job : Gains(toHelper, toHelper', DoneMsg(k), k = j)
        /\ Gains(toHelper, toHelper', StopMsg, FALSE)
    BY Zenon, <1>1, HelperMessages DEF Gains
  <1>3. HelperType'
    BY Zenon, <1>1, <1>t DEF RunJob, HelperType
  <1>4. ReportInv'
    BY ZenonT(60) DEF RunJob, HelperInv, ReportInv, ReportTruthful, Good, Told
  <1>5. StopInv'
    BY Zenon, <1>2 DEF RunJob, HelperInv, StopInv, Gains
  <1>6. RecvInv'
    BY Zenon, <1>2 DEF RunJob, HelperInv, RecvInv, Gains
  <1>7. InPool(j) /\ \A k \in Job : InPool(k)' <=> InPool(k) /\ k # j
    BY Zenon, <1>t DEF RunJob, InPool
  <1>8. JobInv'
    BY Zenon, <1>2, <1>7 DEF RunJob, HelperInv, JobInv, Gains
  <1> QED
    BY Zenon, <1>3, <1>4, <1>5, <1>6, <1>8 DEF HelperInv

\* The session of an awaited answer waits for just that job, and nothing else of
\* it is under way.
LEMMA OnMessageAction ==
    ASSUME HelperInv, OnEngineMessage
    PROVE  HelperInv'
  <1> USE DEF engVars, repVars
  <1> DEFINE m == Head(toHelper)
  <1>t. HelperType /\ ses \in [Session -> SessionState]
    BY Zenon DEF HelperInv, HelperType
  <1>1. /\ toHelper \in Seq(HMsg) /\ toHelper # <<>> /\ toHelper' = Tail(toHelper)
        /\ helper \in {"boot", "serving", "stopping"}
        /\ UNCHANGED <<engVars, repVars, toEngine, helper, cancelled, late>>
    BY Zenon, <1>t DEF OnEngineMessage, HelperType
  <1>2. /\ m \in HMsg /\ toHelper' \in Seq(HMsg)
        /\ \A M : Gains(toHelper, toHelper', M, FALSE)
        /\ \A M : m \in M => Has(toHelper, M)
        /\ \A M : Once(toHelper, M) /\ m \in M => ~ Has(toHelper', M)
    BY Zenon, <1>1, HasTail, TailGains
  <1>s. helper # "exited" /\ ~ stopped /\ ~ Has(toEngine, StoppedMsg)
    BY Zenon, <1>1 DEF HelperInv, StopInv
  <1>3. ASSUME /\ ses' \in [Session -> SessionState]
               /\ \A s \in Session : ses[s] = "ok" => ses'[s] = "ok"
               /\ \A s \in Session : ses'[s] = "cancelled" => ses[s] = "cancelled" \/ s \in cancelled
               /\ stop' => stop \/ m \in StopMsg
               /\ stop => stop'
               /\ RecvInv' /\ JobInv'
        PROVE  HelperInv'
    <2>1. HelperType'
      BY Zenon, <1>1, <1>2, <1>3, <1>t DEF HelperType
    <2>2. ReportInv'
      BY ZenonT(60), <1>1, <1>3 DEF HelperInv, ReportInv, ReportTruthful, Good, Told, SessionsOf
    <2>3. StopInv'
      BY Zenon, <1>1, <1>2, <1>3, <1>s DEF HelperInv, StopInv, Gains
    <2> QED
      BY Zenon, <1>3, <2>1, <2>2, <2>3 DEF HelperInv
  <1>4. ASSUME NEW r \in Req, m = <<"recv", r>> PROVE HelperInv'
    <2>0. m[1] = "recv" /\ m[2] = r /\ m \in RecvMsg(r)
      BY SMTT(60), Z3T(60), <1>4 DEF RecvMsg
    <2> HIDE DEF m
    <2>1. /\ stop' <=> stop
          /\ ses' = [x \in Session |-> IF Of[x] = r THEN "open" ELSE ses[x]]
      BY ZenonT(60), <2>0 DEF OnEngineMessage, m
    <2>2. \A s \in SessionsOf(r) : ses[s] = "none"
      BY Zenon, <1>2, <2>0 DEF HelperInv, RecvInv
    <2>3. ~ Has(toHelper', RecvMsg(r)) /\ r \in published
      BY Zenon, <1>2, <2>0 DEF HelperInv, RecvInv
    <2>4. RecvInv'
      BY Zenon, <1>1, <1>2, <2>1, <2>3 DEF HelperInv, RecvInv, Gains, SessionsOf
    <2>5. \A k \in Job : k \in late \/ ses[k[1]] = k[2] => k \in late' \/ ses'[k[1]] = k[2]
      BY Zenon, <1>1, <2>1, <2>2 DEF SessionsOf, Job
    <2>6. JobInv'
      BY ZenonT(60), <1>1, <1>2, <2>1, <2>2, <2>5 DEF HelperInv, JobInv, InPool, Gains, SessionsOf
    <2> QED
      BY Zenon, <1>3, <1>t, <2>1, <2>2, <2>4, <2>6 DEF SessionsOf, SessionState
  <1>5. CASE m = <<"stop">>
    <2>0. m[1] = "stop" /\ m \in StopMsg
      BY SMTT(60), Z3T(60), <1>5 DEF StopMsg
    <2> HIDE DEF m
    <2>1. stop' /\ m \in StopMsg /\ ses' = [x \in Session |-> ses[x]]
      BY Zenon, <2>0 DEF OnEngineMessage, m
    <2>2. ses' = ses
      BY Zenon, <2>1, <1>t
    <2>3. RecvInv'
      BY Zenon, <1>1, <1>2, <2>2 DEF HelperInv, RecvInv, Gains
    <2>4. JobInv'
      BY ZenonT(60), <1>1, <1>2, <2>2 DEF HelperInv, JobInv, InPool, Gains
    <2> QED
      BY Zenon, <1>3, <1>t, <2>1, <2>2, <2>3, <2>4
  <1>6. ASSUME NEW j \in Job, NEW err \in BOOLEAN, m = <<"jobDone", j, err>> PROVE HelperInv'
    <2> DEFINE s == j[1]
               new == JobOver(s, j[2], err)
    <2> HIDE DEF m
    <2>d. m \in DoneMsg(j)
      BY Zenon, <1>6 DEF DoneMsg
    <2>0. m[1] = "jobDone" /\ m[2] = j /\ m[3] = err /\ m \in DoneMsg(j)
      BY Zenon, <1>6, <2>d
    <2>a. s \in Session /\ j[2] \in {"decode", "drain"} /\ j = <<s, j[2]>>
      BY SMTT(60), Z3T(60) DEF Job
    <2>b. ses' = [x \in Session |-> IF j \notin late /\ x = s THEN JobOver(x, j[2], err) ELSE ses[x]]
      BY Zenon, <2>0 DEF OnEngineMessage, m
    <2>1. ses' = [x \in Session |-> IF j \notin late /\ x = s THEN new ELSE ses[x]]
      BY Zenon, <2>b
    <2>c. stop' <=> stop
      BY ZenonT(60), <2>0 DEF OnEngineMessage, m
    <2>2. /\ new \in {"undecoded", "cancelled", "ok", "failed"}
          /\ new = "cancelled" => s \in cancelled
          /\ new = "undecoded" => j[2] = "decode"
      BY Zenon, <2>a DEF JobOver
    <2>3. Has(toHelper, DoneMsg(j)) /\ ~ Has(toHelper', DoneMsg(j))
      BY Zenon, <1>2, <2>0 DEF HelperInv, JobInv
    <2>4. j \notin late => ses[s] = j[2]
      BY Zenon, <2>3 DEF HelperInv, JobInv
    <2> HIDE DEF new
    <2>5. RecvInv'
      BY Zenon, <1>1, <1>2, <2>1, <2>a, <2>4 DEF HelperInv, RecvInv, Gains, SessionsOf
    <2>6. ASSUME NEW k \in Job, k # j, k \in late \/ ses[k[1]] = k[2]
          PROVE  k \in late' \/ ses'[k[1]] = k[2]
      <3>1. k[1] \in Session /\ k = <<k[1], k[2]>>
        BY SMTT(60), Z3T(60) DEF Job
      <3> QED
        BY Zenon, <1>1, <2>1, <2>a, <2>4, <2>6, <3>1
    <2>7. JobInv'
      <3>1. \A k \in Job : k # j =>
                  /\ Has(toEngine, JobMsg(k))' \/ InPool(k)' \/ Has(toHelper, DoneMsg(k))' =>
                        (k \in late \/ ses[k[1]] = k[2])'
        BY ZenonT(60), <1>1, <1>2, <2>6 DEF HelperInv, JobInv, InPool, Gains
      <3>2. ~ Has(toEngine, JobMsg(j))' /\ ~ InPool(j)' /\ ~ Has(toHelper, DoneMsg(j))'
        BY Zenon, <1>1, <2>3 DEF HelperInv, JobInv, InPool
      <3>3. ASSUME NEW x \in Session
            PROVE  /\ ses'[x] \in {"none", "open"} => <<x, "decode">> \notin late'
                   /\ ses'[x] \in {"none", "open", "decode", "undecoded"} => <<x, "drain">> \notin late'
        BY Zenon, <1>1, <2>1, <2>a, <2>2, <2>4 DEF HelperInv, JobInv
      <3> QED
        BY ZenonT(60), <1>1, <1>2, <3>1, <3>2, <3>3 DEF HelperInv, JobInv, InPool, Gains
    <2>8. ses' \in [Session -> SessionState]
      BY Zenon, <1>t, <2>1, <2>a, <2>2 DEF SessionState, Closed
    <2> QED
      BY Zenon, <1>3, <2>1, <2>a, <2>c, <2>2, <2>4, <2>5, <2>7, <2>8
  <1>7. \/ \E r \in Req : m = <<"recv", r>>
        \/ m = <<"stop">>
        \/ \E j \in Job, err \in BOOLEAN : m = <<"jobDone", j, err>>
    <2> HIDE DEF m
    <2> QED
      BY SMTT(60), Z3T(60), <1>2 DEF HMsg
  <1> HIDE DEF m
  <1> QED
    BY Zenon, <1>4, <1>5, <1>6, <1>7

-----------------------------------------------------------------------------
\* Messages to the engine

\* _reader_loop takes one message off the pipe and acts on it.
LEMMA ReaderAction ==
    ASSUME HelperInv, ReaderLoop
    PROVE  HelperInv'
  <1> USE DEF helperVars
  <1> DEFINE m == Head(toEngine)
  <1>t. HelperType /\ job \in [Job -> {"none", "queued", "running", "over", "dropped"}]
    BY Zenon DEF HelperInv, HelperType
  <1>1. /\ toEngine \in Seq(EMsg) /\ toEngine # <<>> /\ toEngine' = Tail(toEngine) /\ puts = <<>>
        /\ UNCHANGED <<eng, published, finQ, invQ, taken, invalid, reported, toHelper, helperVars>>
    BY Zenon, <1>t DEF ReaderLoop, HelperType
  <1>2. /\ m \in EMsg /\ toEngine' \in Seq(EMsg)
        /\ \A M : Gains(toEngine, toEngine', M, FALSE)
        /\ \A M : m \in M => Has(toEngine, M)
        /\ \A M : Once(toEngine, M) /\ m \in M => ~ Has(toEngine', M)
    BY Zenon, <1>1, HasTail, TailGains
  <1>3. RecvInv'
    BY Zenon, <1>1 DEF HelperInv, RecvInv
  <1>4. ASSUME /\ \/ puts' = <<>>
                  \/ \E r \in Req : puts' = HandleRecvDone(r, TRUE)
                  \/ \E r \in Req : puts' = HandleRecvDone(r, FALSE) /\ Told(r)
               /\ stopped' => stopped \/ m \in StoppedMsg
               /\ job' \in [Job -> {"none", "queued", "running", "over", "dropped"}]
               /\ \A j \in Job : InPool(j)' => InPool(j) \/ m \in JobMsg(j)
        PROVE  HelperInv'
    <2>1. HelperType'
      BY Zenon, <1>1, <1>2, <1>4, <1>t DEF HelperType, PutsOf
    <2>2. \A r \in Req : puts' = HandleRecvDone(r, FALSE) => Told(r)
      BY SMTT(60), Z3T(60), <1>4 DEF HandleRecvDone
    <2>3. ReportInv'
      BY ZenonT(60), <1>1, <1>2, <2>2 DEF HelperInv, ReportInv, ReportTruthful, Good, Told, Gains
    <2>4. StopInv'
      BY Zenon, <1>1, <1>2, <1>4 DEF HelperInv, StopInv, Gains
    <2>5. JobInv'
      <3>1. ASSUME NEW j \in Job
            PROVE  /\ Has(toEngine, JobMsg(j))' \/ InPool(j)' \/ Has(toHelper, DoneMsg(j))' =>
                         (j \in late \/ ses[j[1]] = j[2])'
                   /\ ~ (Has(toEngine, JobMsg(j)) /\ InPool(j))'
                   /\ ~ (Has(toEngine, JobMsg(j)) /\ Has(toHelper, DoneMsg(j)))'
                   /\ ~ (InPool(j) /\ Has(toHelper, DoneMsg(j)))'
                   /\ Once(toEngine, JobMsg(j))' /\ Once(toHelper, DoneMsg(j))'
        BY Zenon, <1>1, <1>2, <1>4 DEF HelperInv, JobInv, Gains
      <3> QED
        BY Zenon, <1>1, <3>1 DEF HelperInv, JobInv
    <2> QED
      BY Zenon, <2>1, <2>3, <2>4, <1>3, <2>5 DEF HelperInv
  <1>5. CASE m \in {<<"ready">>, <<"stopped">>}
    <2> HIDE DEF m
    <2>1. m[1] \in {"ready", "stopped"} /\ (m[1] = "stopped" => m \in StoppedMsg)
      BY SMTT(60), Z3T(60), <1>5 DEF StoppedMsg
    <2>2. puts' = <<>> /\ job' = job /\ (stopped' => stopped \/ m \in StoppedMsg)
      BY Zenon, <2>1 DEF ReaderLoop, m
    <2> QED
      BY Zenon, <1>4, <1>t, <2>2 DEF InPool
  <1>6. ASSUME NEW j \in Job, m = <<"job", j>> PROVE HelperInv'
    <2> HIDE DEF m
    <2>1. m[1] = "job" /\ m[2] = j /\ m \in JobMsg(j)
      BY Zenon, <1>6 DEF JobMsg
    <2>2. puts' = <<>> /\ job' = [job EXCEPT ![j] = Submitted] /\ (stopped' => stopped)
      BY Zenon, <2>1 DEF ReaderLoop, m
    <2>3. Submitted \in {"queued", "dropped"}
      BY Zenon DEF Submitted
    <2> QED
      BY Zenon, <1>4, <1>t, <2>1, <2>2, <2>3 DEF InPool
  <1>7. ASSUME NEW r \in Req, NEW failed \in BOOLEAN, m = <<"recvDone", r, failed>> PROVE HelperInv'
    <2> HIDE DEF m
    <2>1. m[1] = "recvDone" /\ m[2] = r /\ m[3] = failed
      BY Zenon, <1>7
    <2>2. puts' = HandleRecvDone(r, failed) /\ job' = job /\ (stopped' => stopped)
      BY Zenon, <2>1 DEF ReaderLoop, m
    <2>3. failed = FALSE => Told(r)
      <3>1. failed = FALSE => m \in FineMsg(r)
        BY ZenonT(60), <1>7 DEF FineMsg
      <3> QED
        BY Zenon, <3>1, <1>2 DEF HelperInv, ReportInv, Told
    <2>4. failed = TRUE \/ failed = FALSE
      OBVIOUS
    <2> QED
      BY Zenon, <1>4, <1>t, <2>2, <2>3, <2>4 DEF InPool
  <1> QED
    BY SMTT(60), Z3T(60), <1>2, <1>5, <1>6, <1>7 DEF EMsg

-----------------------------------------------------------------------------
\* The initial state satisfies the invariant.
LEMMA InitInv ==
    ASSUME HelperInit
    PROVE  HelperInv
  <1>1. /\ <<>> \in Seq(Req) /\ <<>> \in Seq(HMsg) /\ <<>> \in Seq(EMsg) /\ Range(<<>>) = {}
        /\ \A r \in Req : HandleRecvDone(r, FALSE) # <<>>
    BY SMTT(60), Z3T(60), SeqElements, RangeSeq DEF Range, HandleRecvDone
  <1>2. HelperType
    BY Zenon, <1>1 DEF HelperInit, HelperType, SessionState
  <1>3. ReportTruthful
    BY Zenon, HelperAssumption DEF HelperInit, ReportTruthful
  <1>4. ReportInv
    BY ZenonT(60), <1>1, <1>3, HasEmpty DEF HelperInit, ReportInv
  <1>5. StopInv
    BY Zenon, HasEmpty DEF HelperInit, StopInv
  <1>6. RecvInv
    BY Zenon, HasEmpty DEF HelperInit, RecvInv, SessionsOf
  <1>7. JobInv
    BY Zenon, HasEmpty DEF HelperInit, JobInv, InPool
  <1> QED
    BY Zenon, <1>2, <1>4, <1>5, <1>6, <1>7 DEF HelperInv

\* Every step keeps it.
LEMMA NextInv ==
    ASSUME HelperInv, [HelperNext]_procVars
    PROVE  HelperInv'
  <1>1. CASE EngineStep \/ ReaderPut
    BY Zenon, <1>1, ReportActions
  <1>2. CASE \E r \in Req : StartLoadKV(r) \/ AgentMissing(r) \/ RecvRequestEnds(r)
    BY Zenon, <1>2, StartLoadAction, OutcomeActions
  <1>3. CASE \E j \in Job : \E err \in BOOLEAN : RunJob(j, err)
    BY Zenon, <1>3, RunJobAction
  <1>4. CASE \E s \in Session : SessionStep(s) \/ JobTimeout(s)
    BY Zenon, <1>4, SubmitActions, TimeoutAction
  <1>5. CASE ReaderLoop
    BY Zenon, <1>5, ReaderAction
  <1>6. CASE OnEngineMessage
    BY Zenon, <1>6, OnMessageAction
  <1>7. CASE Exit
    BY Zenon, <1>7, ExitAction
  <1>8. CASE \/ StartReturns \/ Shutdown \/ Stopping
             \/ \E j \in Job : TakeJob(j)
             \/ Boot \/ BeginShutdown \/ Gathered \/ Crash
             \/ UNCHANGED procVars
    BY Zenon, <1>8, QuietActions
  <1> QED
    BY Zenon, <1>1, <1>2, <1>3, <1>4, <1>5, <1>6, <1>7, <1>8 DEF HelperNext, Reader, Loop

\* The invariant holds of every state of every behaviour.
LEMMA HelperInvariant == HelperSpec => []HelperInv
  BY InitInv, NextInv, PTL DEF HelperSpec

\* A request the engine learns to be received without failed blocks has had every
\* session's chunk decoded (get_finished, get_block_ids_with_load_errors and the
\* reader of SessionProcess), for any requests, sessions and faults.
THEOREM HelperReportsTruth == HelperSpec => []ReportTruthful
  <1>1. HelperInv => ReportTruthful
    BY Zenon DEF HelperInv, ReportInv
  <1> QED
    BY <1>1, HelperInvariant, PTL

\* After Stopped no decode job that was not given up is queued or running
\* (_shutdown of the helper), so the memory it writes may be released.
THEOREM HelperStopsQuiet == HelperSpec => []StoppedMeansQuiet
  <1>1. ASSUME HelperInv PROVE StoppedMeansQuiet
    <2> SUFFICES ASSUME stopped, NEW s \in Session, <<s, "decode">> \notin late
                 PROVE  job[<<s, "decode">>] \notin {"queued", "running"}
      BY Zenon DEF StoppedMeansQuiet
    <2>1. <<s, "decode">> \in Job /\ <<s, "decode">>[1] = s /\ <<s, "decode">>[2] = "decode"
      BY Zenon DEF Job
    <2>2. ses[s] # "decode"
      BY Zenon, <1>1 DEF HelperInv, StopInv, Closed
    <2> QED
      BY Zenon, <1>1, <2>1, <2>2 DEF HelperInv, JobInv, InPool
  <1> QED
    BY <1>1, HelperInvariant, PTL
=============================================================================
