--------------------------- MODULE SessionProofs ---------------------------
(***************************************************************************)
(* The two halves of the session helper together, for any number of         *)
(* sessions, chunks and slots: what the producer promises holds whatever    *)
(* the consumers ask, no slot of either side is lost or has two owners, and *)
(* a request that is reported as received has had every chunk delivered.    *)
(*                                                                          *)
(* The invariant is the conjunction of the producer's part, the requests    *)
(* under way included (SessionProducerProofs), and the consumer's, which    *)
(* says which answers are under way, who owns the receivers' slots, and     *)
(* which chunks a session has been answered.  Each of these is preserved by *)
(* every step of the two halves together; every consumer step is one the    *)
(* producer's part allows.                                                  *)
(***************************************************************************)
EXTENDS SessionConsumer, SessionProducerProofs

Msg == [kind : {"opened", "ack"}, chunk : {0}, ok : BOOLEAN]
          \cup [kind : {"ready"}, chunk : Chunk, ok : BOOLEAN]
OpenedMsg == {m \in Msg : m.kind = "opened"}
AckMsg == {m \in Msg : m.kind = "ack"}
ReadyMsg(c) == {m \in Msg : m.kind = "ready" /\ m.chunk = c}

\* The open is answered once, while the coroutine waits for it.
OpenAns(s) ==
    /\ cpc[s] = "idle" <=> openPc[s] = "none" /\ ~ Asked(s, OpenReq)
    /\ openPc[s] \in {"wait", "job"} => cpc[s] = "opening" /\ ~ Has(resp[s], OpenedMsg)
    /\ openPc[s] = "none" => cpc[s] \in {"idle", "opening"} /\ ~ Has(resp[s], OpenedMsg)
    /\ Has(resp[s], OpenedMsg) => cpc[s] = "opening"
    /\ Once(resp[s], OpenedMsg)
    /\ cpc[s] \in {"idle", "opening"} => next[s] = 0

\* An abort is asked for and acknowledged only after the coroutine has failed.
Aborted == {"aborting", "cleanup", "drain", "done"}
AbortAns(s) ==
    /\ Asked(s, AbortReq) \/ abortPc[s] # "none" => cpc[s] \in Aborted
    /\ Has(resp[s], AckMsg) => abortPc[s] = "done"

\* A chunk is pulled into a slot, answered once, and decoded after that.
ChunkAns(s, c) ==
    /\ Has(resp[s], ReadyMsg(c)) => pull[s][c] = "done" /\ decode[s][c] = "none"
    /\ Once(resp[s], ReadyMsg(c))
    /\ decode[s][c] # "none" => pull[s][c] = "done"
    /\ pull[s][c] # "none" \/ Asked(s, c) => target[s][c] # None
    /\ target[s][c] # None => c < next[s]

AnswerInv ==
    /\ resp \in [Session -> Seq(Msg)]
    /\ \A s \in Session : OpenAns(s) /\ AbortAns(s) /\ \A c \in Chunk : ChunkAns(s, c)

\* A slot that a chunk was pulled into belongs to the session until the chunk is
\* decoded or the session is over; a slot is in its pool or one session's.
Live(s, c) == target[s][c] # None /\ decode[s][c] # "ok" /\ cpc[s] # "done"
OwnType ==
    /\ cpc \in [Session -> {"idle", "opening", "stream", "leave", "gather", "failing",
                            "aborting", "cleanup", "drain", "done"}]
    /\ next \in [Session -> Nat]
    /\ target \in [Session -> [Chunk -> RecvSlot \cup {None}]]
    /\ decode \in [Session -> [Chunk -> {"none", "job", "ok", "failed"}]]
    /\ owned \in [Session -> SUBSET RecvSlot]
    /\ rfree \in [RecvSlot -> {0, 1}]
OwnOf(s) ==
    /\ cpc[s] \in {"drain", "done"} => NoDecode(s)
    /\ \A c \in Chunk : Live(s, c) => target[s][c] \in owned[s]
    /\ \A c, d \in Chunk : Live(s, c) /\ Live(s, d) /\ target[s][c] = target[s][d] => c = d
PoolInv ==
    /\ \A s \in Session : \A k \in owned[s] : rfree[k] = 0
    /\ \A s, z \in Session : z # s => owned[s] \cap owned[z] = {}
    /\ \A k \in RecvSlot : rfree[k] = 0 => \E s \in Session : k \in owned[s]
OwnInv == OwnType /\ PoolInv /\ \A s \in Session : OwnOf(s)

\* The coroutine leaves its loop, and a session is reported as received, when
\* every chunk has been answered.
Answered(s) == {c \in Chunk : decode[s][c] # "none"}
Complete(s) ==
    \/ cpc[s] \in {"leave", "gather"} \/ outcome[s] = "ok"
    \/ (cpc[s] = "cleanup" /\ outcome[s] = "none")
DeliverOf(s) ==
    /\ completedC[s] = Cardinality(Answered(s))
    /\ \A c \in Answered(s) : c < TotalChunks[s]
    /\ Complete(s) => 0 .. (TotalChunks[s] - 1) \subseteq Answered(s)
    /\ cpc[s] = "aborting" => outcome[s] = "failed"
    /\ outcome[s] = "ok" => cpc[s] \in {"drain", "done"}
DeliverInv ==
    /\ completedC \in [Session -> Nat]
    /\ outcome \in [Session -> {"none", "ok", "failed"}]
    /\ \A s \in Session : DeliverOf(s)

-----------------------------------------------------------------------------
\* The consumer is one of the clients the producer's invariant allows for.
LEMMA IsProdStep ==
    ASSUME OwnType, [ConsNext]_sessionVars
    PROVE  ProdStep
  <1>1. ASSUME NEW s \in Session, NEW k \in RecvSlot, IssueChunk(s, k)
        PROVE  \E c \in Chunk : ClientPull(s, c)
    <2>1. ClientPull(s, next[s]) /\ next[s] < TotalChunks[s] /\ next[s] \in Nat
      BY Zenon, <1>1 DEF IssueChunk, OwnType
    <2>2. next[s] \in Chunk
      BY SMTT(60), Z3T(60), <2>1, ChunkAssumption DEF Chunk
    <2> QED
      BY Zenon, <2>1, <2>2
  <1>2. ASSUME NEW s \in Session, SessionStart(s) \/ SessionCoroutine(s)
        PROVE  Client(s) \/ UNCHANGED prodVars
    BY Zenon, <1>2 DEF SessionStart, SessionCoroutine, SessionOpened, RecvReady, RecvTimeout, GatherStart,
                GatherDone, SendAbort, AbortRecv, AbortTimeout, Cleanup, SlotsDrained, Client
  <1>3. ASSUME NEW s \in Session, Decoder(s)
        PROVE  UNCHANGED prodVars
    BY Zenon, <1>3 DEF Decoder, DecodeDone, DecodeFailed
  <1>4. CASE UNCHANGED sessionVars
    BY Zenon, <1>4 DEF sessionVars, ProdStep
  <1>5. CASE HelperProducer
    BY Zenon, <1>5 DEF HelperProducer, ProdStep
  <1>6. ASSUME NEW s \in Session, Issuer(s)
        PROVE  Client(s)
    BY Zenon, <1>1, <1>6 DEF Issuer, Client
  <1> QED
    BY Zenon, <1>2, <1>3, <1>4, <1>5, <1>6 DEF ConsNext, ProdStep

-----------------------------------------------------------------------------
\* Answers

\* An answer is an open, an acknowledgement or a chunk, and only one of them.
LEMMA Kinds ==
    /\ \A m \in Msg : m \in OpenedMsg \/ m \in AckMsg \/ \E c \in Chunk : m \in ReadyMsg(c)
    /\ \A m \in OpenedMsg : m \in Msg /\ m \notin AckMsg /\ \A c \in Chunk : m \notin ReadyMsg(c)
    /\ \A m \in AckMsg : m \in Msg /\ m \notin OpenedMsg /\ \A c \in Chunk : m \notin ReadyMsg(c)
    /\ \A c \in Chunk : \A m \in ReadyMsg(c) :
          /\ m \in Msg /\ m \notin AckMsg /\ m \notin OpenedMsg /\ m.chunk = c
          /\ \A d \in Chunk : d # c => m \notin ReadyMsg(d)
    /\ \A ok \in BOOLEAN : Opened(ok) \in OpenedMsg /\ AbortAck(ok) \in AckMsg
    /\ \A ok \in BOOLEAN, c \in Chunk : ChunkReady(c, ok) \in ReadyMsg(c)
  BY Zenon DEF Msg, OpenedMsg, AckMsg, ReadyMsg, Opened, AbortAck, ChunkReady

\* What an answer adds to those under way.
LEMMA Replied ==
    ASSUME AnswerInv, NEW s \in Session, NEW m \in Msg, Reply(s, m)
    PROVE  /\ resp' \in [Session -> Seq(Msg)] /\ \A z \in Session : z # s => resp'[z] = resp[z]
           /\ \A M : /\ Has(resp'[s], M) <=> Has(resp[s], M) \/ m \in M
                     /\ Once(resp[s], M) /\ (m \in M => ~ Has(resp[s], M)) => Once(resp'[s], M)
  <1>1. resp \in [Session -> Seq(Msg)] /\ resp[s] \in Seq(Msg)
    BY Zenon DEF AnswerInv
  <1>2. Append(resp[s], m) \in Seq(Msg)
    BY Zenon, <1>1, HasAppend
  <1>3. resp' \in [Session -> Seq(Msg)] /\ resp'[s] = Append(resp[s], m)
        /\ \A z \in Session : z # s => resp'[z] = resp[z]
    BY Zenon, <1>1, <1>2 DEF Reply
  <1>4. ASSUME NEW M
        PROVE  /\ Has(Append(resp[s], m), M) <=> Has(resp[s], M) \/ m \in M
               /\ Once(resp[s], M) /\ (m \in M => ~ Has(resp[s], M)) => Once(Append(resp[s], m), M)
    BY Zenon, <1>1, HasAppend
  <1> QED
    BY Zenon, <1>3, <1>4

\* What reading an answer takes from them.
LEMMA Received ==
    ASSUME AnswerInv, NEW s \in Session, ClientRead(s)
    PROVE  /\ resp' \in [Session -> Seq(Msg)] /\ \A z \in Session : z # s => resp'[z] = resp[z]
           /\ Head(resp[s]) \in Msg
           /\ \A M : /\ Has(resp'[s], M) => Has(resp[s], M)
                     /\ Head(resp[s]) \in M => Has(resp[s], M)
                     /\ Once(resp[s], M) => Once(resp'[s], M)
                     /\ Once(resp[s], M) /\ Head(resp[s]) \in M => ~ Has(resp'[s], M)
  <1>1. resp \in [Session -> Seq(Msg)] /\ resp[s] \in Seq(Msg) /\ resp[s] # <<>>
    BY Zenon DEF AnswerInv, ClientRead
  <1>2. Head(resp[s]) \in Msg /\ Tail(resp[s]) \in Seq(Msg)
    BY Zenon, <1>1, HasTail
  <1>3. resp' \in [Session -> Seq(Msg)] /\ resp'[s] = Tail(resp[s])
        /\ \A z \in Session : z # s => resp'[z] = resp[z]
    BY Zenon, <1>1, <1>2 DEF ClientRead
  <1>4. ASSUME NEW M
        PROVE  /\ Has(Tail(resp[s]), M) => Has(resp[s], M)
               /\ Head(resp[s]) \in M => Has(resp[s], M)
               /\ Once(resp[s], M) => Once(Tail(resp[s]), M)
               /\ Once(resp[s], M) /\ Head(resp[s]) \in M => ~ Has(Tail(resp[s]), M)
    BY Zenon, <1>1, HasTail
  <1> QED
    BY Zenon, <1>2, <1>3, <1>4

\* A step of one session leaves the others alone.
LEMMA AnswerFrame ==
    ASSUME AnswerInv, NEW s \in Session, resp' \in [Session -> Seq(Msg)],
           \A z \in Session : z # s =>
              /\ resp'[z] = resp[z] /\ req'[z] = req[z] /\ openPc'[z] = openPc[z]
              /\ abortPc'[z] = abortPc[z] /\ pull'[z] = pull[z] /\ cpc'[z] = cpc[z]
              /\ next'[z] = next[z] /\ target'[z] = target[z] /\ decode'[z] = decode[z],
           OpenAns(s)', AbortAns(s)', \A c \in Chunk : ChunkAns(s, c)'
    PROVE  AnswerInv'
  <1>1. ASSUME NEW z \in Session, z # s
        PROVE  OpenAns(z)' /\ AbortAns(z)' /\ \A c \in Chunk : ChunkAns(z, c)'
    <2>0. OpenAns(z) /\ AbortAns(z) /\ \A c \in Chunk : ChunkAns(z, c)
      BY Zenon DEF AnswerInv
    <2>1. OpenAns(z)'
      BY Zenon, <1>1, <2>0 DEF OpenAns, Asked
    <2>2. AbortAns(z)'
      BY Zenon, <1>1, <2>0 DEF AbortAns, Asked
    <2>3. ASSUME NEW c \in Chunk PROVE ChunkAns(z, c)'
      BY Zenon, <1>1, <2>0 DEF ChunkAns, Asked
    <2> QED
      BY Zenon, <2>1, <2>2, <2>3
  <1> QED
    BY Zenon, <1>1 DEF AnswerInv

\* A step that touches none of its variables keeps it.
LEMMA AnswerKept ==
    ASSUME AnswerInv, UNCHANGED <<resp, req, openPc, abortPc, pull, cpc, next, target, decode>>
    PROVE  AnswerInv'
  <1>1. ASSUME NEW z \in Session
        PROVE  OpenAns(z)' /\ AbortAns(z)' /\ \A c \in Chunk : ChunkAns(z, c)'
    <2>0. OpenAns(z) /\ AbortAns(z) /\ \A c \in Chunk : ChunkAns(z, c)
      BY Zenon DEF AnswerInv
    <2>1. OpenAns(z)'
      BY Zenon, <2>0 DEF OpenAns, Asked
    <2>2. AbortAns(z)'
      BY Zenon, <2>0 DEF AbortAns, Asked
    <2>3. ASSUME NEW c \in Chunk PROVE ChunkAns(z, c)'
      BY Zenon, <2>0 DEF ChunkAns, Asked
    <2> QED
      BY Zenon, <2>1, <2>2, <2>3
  <1> QED
    BY Zenon, <1>1 DEF AnswerInv

\* The producer's steps
LEMMA AnswerProducer ==
    ASSUME QueueInv, AnswerInv, HelperProducer
    PROVE  AnswerInv'
  <1>0. /\ openPc \in [Session -> {"none", "wait", "job", "done"}]
        /\ abortPc \in [Session -> {"none", "open", "drain", "done"}]
        /\ resp \in [Session -> Seq(Msg)]
        /\ \A z \in Session : QueueOf(z) /\ OpenAns(z) /\ AbortAns(z)
        /\ \A z \in Session, c \in Chunk : ChunkAns(z, c)
    BY Zenon DEF QueueInv, AnswerInv
  <1>u. UNCHANGED <<cpc, next, target, decode>>
    BY Zenon DEF HelperProducer, consVars
  <1>1. ASSUME NEW t \in Transfer, Engine(t) \/ Sweep(t)
        PROVE  AnswerInv'
    BY Zenon, <1>u, <1>1, AnswerKept DEF Engine, Publish, Announce, Drop, Sweep, slotVars
  <1>2. ASSUME NEW s \in Session, DispatchOpen(s)
        PROVE  AnswerInv'
    <2>1. /\ req[s] # <<>> /\ NextRequest(s) /\ Head(req[s]) = OpenReq
          /\ openPc' = [openPc EXCEPT ![s] = "wait"] /\ UNCHANGED <<abortPc, pull, resp>>
      BY Zenon, <1>2 DEF DispatchOpen, slotVars
    <2>2. /\ Asked(s, OpenReq) /\ ~ Has(req'[s], {OpenReq})
          /\ \A m \in ReqMsg : Has(req'[s], {m}) => Asked(s, m)
          /\ \A z \in Session : z # s => req'[z] = req[z]
      BY Zenon, <2>1, Popped
    <2>3. openPc[s] = "none" /\ cpc[s] = "opening" /\ ~ Has(resp[s], OpenedMsg)
      BY Zenon, <1>0, <2>2 DEF QueueOf, OpenAns
    <2>4. openPc'[s] = "wait" /\ \A z \in Session : z # s => openPc'[z] = openPc[z]
      BY Zenon, <1>0, <2>1
    <2>5. OpenAns(s)'
      BY Zenon, <1>0, <1>u, <2>1, <2>3, <2>4 DEF OpenAns
    <2>6. AbortAns(s)'
      BY Zenon, <1>0, <1>u, <2>1, <2>2, Messages DEF AbortAns, Asked
    <2>7. ASSUME NEW c \in Chunk PROVE ChunkAns(s, c)'
      BY Zenon, <1>0, <1>u, <2>1, <2>2, Messages DEF ChunkAns, Asked
    <2> QED
      BY Zenon, <1>0, <1>u, <2>1, <2>2, <2>4, <2>5, <2>6, <2>7, AnswerFrame
  <1>3. ASSUME NEW s \in Session,
               OpenReady(s) \/ OpenAbandon(s) \/ OpenDone(s) \/ OpenFailed(s)
        PROVE  AnswerInv'
    <2>1. /\ openPc[s] \in {"wait", "job"} /\ UNCHANGED <<abortPc, pull, req>>
          /\ \/ openPc' = [openPc EXCEPT ![s] = "job"] /\ resp' = resp
             \/ /\ openPc' = [openPc EXCEPT ![s] = "done"]
                /\ \E ok \in BOOLEAN : Reply(s, Opened(ok))
      BY Zenon, <1>3 DEF OpenReady, OpenAbandon, OpenDone, OpenFailed, slotVars
    <2>2. cpc[s] = "opening" /\ ~ Has(resp[s], OpenedMsg) /\ next[s] = 0
      BY Zenon, <1>0, <2>1 DEF OpenAns
    <2>3. /\ resp' \in [Session -> Seq(Msg)] /\ \A z \in Session : z # s => resp'[z] = resp[z]
          /\ Once(resp'[s], OpenedMsg) /\ (Has(resp'[s], OpenedMsg) => openPc'[s] = "done")
          /\ Has(resp'[s], AckMsg) => Has(resp[s], AckMsg)
          /\ \A c \in Chunk : /\ Has(resp'[s], ReadyMsg(c)) => Has(resp[s], ReadyMsg(c))
                              /\ Once(resp'[s], ReadyMsg(c))
      <3>1. CASE resp' = resp
        BY Zenon, <1>0, <2>2, <3>1 DEF OpenAns, ChunkAns
      <3>2. ASSUME NEW ok \in BOOLEAN, Reply(s, Opened(ok)), openPc' = [openPc EXCEPT ![s] = "done"]
            PROVE  <2>3
        <4> DEFINE m == Opened(ok)
        <4>1. m \in Msg /\ m \in OpenedMsg /\ m \notin AckMsg /\ \A c \in Chunk : m \notin ReadyMsg(c)
          BY Zenon, Kinds
        <4> HIDE DEF m
        <4>2. /\ resp' \in [Session -> Seq(Msg)] /\ \A z \in Session : z # s => resp'[z] = resp[z]
              /\ \A M : /\ Has(resp'[s], M) <=> Has(resp[s], M) \/ m \in M
                        /\ Once(resp[s], M) /\ (m \in M => ~ Has(resp[s], M)) => Once(resp'[s], M)
          <5>1. Reply(s, m)
            BY Zenon, <3>2 DEF m
          <5> QED
            BY Zenon, <4>1, <5>1, Replied
        <4>3. openPc'[s] = "done"
          BY Zenon, <1>0, <3>2
        <4>4. Once(resp'[s], OpenedMsg)
          BY Zenon, <1>0, <2>2, <4>2 DEF OpenAns
        <4>5. ASSUME NEW c \in Chunk
              PROVE  /\ Has(resp'[s], ReadyMsg(c)) => Has(resp[s], ReadyMsg(c))
                     /\ Once(resp'[s], ReadyMsg(c))
          BY Zenon, <1>0, <4>1, <4>2 DEF ChunkAns
        <4>6. Has(resp'[s], AckMsg) => Has(resp[s], AckMsg)
          BY Zenon, <4>1, <4>2
        <4> QED
          BY Zenon, <4>2, <4>3, <4>4, <4>5, <4>6
      <3> QED
        BY Zenon, <2>1, <3>1, <3>2
    <2>4. openPc'[s] \in {"job", "done"} /\ \A z \in Session : z # s => openPc'[z] = openPc[z]
      BY Zenon, <1>0, <2>1
    <2>5. OpenAns(s)'
      BY ZenonT(60), <1>u, <2>2, <2>3, <2>4 DEF OpenAns
    <2>6. AbortAns(s)'
      BY Zenon, <1>0, <1>u, <2>1, <2>3 DEF AbortAns, Asked
    <2>7. ASSUME NEW c \in Chunk PROVE ChunkAns(s, c)'
      BY ZenonT(60), <1>0, <1>u, <2>1, <2>3 DEF ChunkAns, Asked
    <2> QED
      BY Zenon, <1>u, <2>1, <2>3, <2>4, <2>5, <2>6, <2>7, AnswerFrame
  <1>4. ASSUME NEW s \in Session, DispatchPull(s)
        PROVE  AnswerInv'
    <2> DEFINE c == Head(req[s])
    <2>1. /\ req[s] # <<>> /\ NextRequest(s) /\ c \in Chunk /\ SetPull(s, c, "slot")
          /\ UNCHANGED <<openPc, abortPc, resp>>
      BY Zenon, <1>4 DEF DispatchPull
    <2>2. /\ Asked(s, c) /\ \A m \in ReqMsg : Has(req'[s], {m}) => Asked(s, m)
          /\ \A z \in Session : z # s => req'[z] = req[z]
      BY ZenonT(60), <2>1, Popped
    <2> HIDE DEF c
    <2>3. /\ \A z \in Session : z # s => pull'[z] = pull[z]
          /\ \A d \in Chunk : d # c => pull'[s][d] = pull[s][d]
          /\ pull'[s][c] = "slot"
      BY ZenonT(60), <2>1, PullTyped
    <2>4. pull[s][c] = "none" /\ openPc[s] # "none" /\ target[s][c] # None
      BY Zenon, <1>0, <2>1, <2>2 DEF QueueOf, ChunkAns
    <2>5. OpenAns(s)'
      BY Zenon, <1>0, <1>u, <2>1, <2>4 DEF OpenAns
    <2>6. AbortAns(s)'
      BY Zenon, <1>0, <1>u, <2>1, <2>2, Messages DEF AbortAns, Asked
    <2>7. ASSUME NEW d \in Chunk PROVE ChunkAns(s, d)'
      <3>1. ChunkAns(s, d) /\ d \in ReqMsg
        BY Zenon, <1>0, Messages
      <3>2. CASE d = c
        BY Zenon, <1>u, <2>1, <2>3, <2>4, <3>1, <3>2 DEF ChunkAns
      <3>3. CASE d # c
        BY Zenon, <1>u, <2>1, <2>2, <2>3, <3>1, <3>3 DEF ChunkAns, Asked
      <3> QED
        BY Zenon, <3>2, <3>3
    <2> QED
      BY Zenon, <1>0, <1>u, <2>1, <2>2, <2>3, <2>5, <2>6, <2>7, AnswerFrame
  <1>5. ASSUME NEW s \in Session, NEW c \in Chunk, NEW ok \in BOOLEAN,
               SetPull(s, c, "done"), Reply(s, ChunkReady(c, ok)),
               UNCHANGED <<openPc, abortPc>>, pull[s][c] # "done", openPc[s] # "none",
               target[s][c] # None, \A m \in ReqMsg : Has(req'[s], {m}) => Asked(s, m),
               \A z \in Session : z # s => req'[z] = req[z]
        PROVE  AnswerInv'
    <2> DEFINE m == ChunkReady(c, ok)
    <2>1. /\ m \in Msg /\ m \notin OpenedMsg /\ m \notin AckMsg /\ m \in ReadyMsg(c)
          /\ \A d \in Chunk : d # c => m \notin ReadyMsg(d)
      BY Zenon, Kinds
    <2> HIDE DEF m
    <2>2. /\ resp' \in [Session -> Seq(Msg)] /\ \A z \in Session : z # s => resp'[z] = resp[z]
          /\ \A M : /\ Has(resp'[s], M) <=> Has(resp[s], M) \/ m \in M
                    /\ Once(resp[s], M) /\ (m \in M => ~ Has(resp[s], M)) => Once(resp'[s], M)
      <3>1. Reply(s, m)
        BY Zenon, <1>5 DEF m
      <3> QED
        BY Zenon, <2>1, <3>1, Replied
    <2>3. /\ \A z \in Session : z # s => pull'[z] = pull[z]
          /\ \A d \in Chunk : d # c => pull'[s][d] = pull[s][d]
          /\ pull'[s][c] = "done"
      BY ZenonT(60), <1>5, PullTyped
    <2>4. OpenAns(s)'
      <3>1. (Has(resp'[s], OpenedMsg) <=> Has(resp[s], OpenedMsg)) /\ Once(resp'[s], OpenedMsg)
        BY ZenonT(60), <1>0, <2>1, <2>2 DEF OpenAns
      <3> QED
        BY ZenonT(60), <1>0, <1>u, <1>5, <3>1 DEF OpenAns
    <2>5. AbortAns(s)'
      <3>1. Has(resp'[s], AckMsg) <=> Has(resp[s], AckMsg)
        BY Zenon, <2>1, <2>2
      <3> QED
        BY Zenon, <1>0, <1>u, <1>5, <3>1, Messages DEF AbortAns, Asked
    <2>6. ASSUME NEW d \in Chunk PROVE ChunkAns(s, d)'
      <3>1. ChunkAns(s, d) /\ d \in ReqMsg
        BY Zenon, <1>0, Messages
      <3>2. CASE d = c
        <4>1. ~ Has(resp[s], ReadyMsg(c)) /\ decode[s][c] = "none"
          BY ZenonT(60), <1>5, <3>1, <3>2 DEF ChunkAns
        <4>2. Once(resp'[s], ReadyMsg(c))
          BY Zenon, <2>2, <3>1, <3>2, <4>1 DEF ChunkAns
        <4> QED
          BY Zenon, <1>u, <1>5, <2>3, <3>1, <3>2, <4>1, <4>2 DEF ChunkAns
      <3>3. CASE d # c
        <4>1. (Has(resp'[s], ReadyMsg(d)) <=> Has(resp[s], ReadyMsg(d))) /\ Once(resp'[s], ReadyMsg(d))
          BY Zenon, <2>1, <2>2, <3>1, <3>3 DEF ChunkAns
        <4> QED
          BY Zenon, <1>u, <1>5, <2>3, <3>1, <3>3, <4>1 DEF ChunkAns, Asked
      <3> QED
        BY Zenon, <3>2, <3>3
    <2> QED
      BY Zenon, <1>u, <1>5, <2>2, <2>3, <2>4, <2>5, <2>6, AnswerFrame
  <1>6. ASSUME NEW s \in Session, RefusePull(s)
        PROVE  AnswerInv'
    <2> DEFINE c == Head(req[s])
    <2>1. /\ req[s] # <<>> /\ NextRequest(s) /\ c \in Chunk /\ SetPull(s, c, "done")
          /\ UNCHANGED <<openPc, abortPc>> /\ Reply(s, ChunkReady(c, FALSE))
      BY Zenon, <1>6 DEF RefusePull
    <2>2. /\ Asked(s, c) /\ \A m \in ReqMsg : Has(req'[s], {m}) => Asked(s, m)
          /\ \A z \in Session : z # s => req'[z] = req[z]
      BY ZenonT(60), <2>1, Popped
    <2> HIDE DEF c
    <2>3. pull[s][c] = "none" /\ openPc[s] # "none" /\ target[s][c] # None
      BY Zenon, <1>0, <2>1, <2>2 DEF QueueOf, ChunkAns
    <2> QED
      BY Zenon, <1>5, <2>1, <2>2, <2>3
  <1>7. ASSUME NEW s \in Session, NEW c \in Chunk, EncodeDone(s, c) \/ DrainDone(s, c)
        PROVE  AnswerInv'
    <2>1. /\ pull[s][c] \in {"job", "drain"} /\ SetPull(s, c, "done") /\ UNCHANGED <<openPc, abortPc, req>>
          /\ \E ok \in BOOLEAN : Reply(s, ChunkReady(c, ok))
      BY Zenon, <1>7 DEF EncodeDone, DrainDone, ReleaseSlot
    <2>2. target[s][c] # None
      BY Zenon, <1>0, <2>1 DEF ChunkAns
    <2>3. openPc[s] # "none"
      BY Zenon, <2>1 DEF QueueInv, QueueOf
    <2>4. \A m \in ReqMsg : Has(req'[s], {m}) => Asked(s, m)
      BY Zenon, <2>1 DEF Asked
    <2> QED
      BY ZenonT(60), <1>5, <2>1, <2>2, <2>3, <2>4
  <1>8. ASSUME NEW s \in Session, NEW c \in Chunk,
               (\E k \in SenderSlot : PullSlot(s, c, k)) \/ EncodeFailed(s, c)
        PROVE  AnswerInv'
    <2>1. /\ pull[s][c] \in {"slot", "job"} /\ UNCHANGED <<openPc, abortPc, req, resp>>
          /\ \E v \in {"job", "drain"} : SetPull(s, c, v)
      BY Zenon, <1>8 DEF PullSlot, EncodeFailed
    <2>2. /\ \A z \in Session : z # s => pull'[z] = pull[z]
          /\ \A d \in Chunk : d # c => pull'[s][d] = pull[s][d]
          /\ pull'[s][c] \in {"job", "drain"}
      BY Zenon, <2>1, PullTyped
    <2>3. OpenAns(s)' /\ AbortAns(s)'
      BY Zenon, <1>0, <1>u, <2>1 DEF OpenAns, AbortAns, Asked
    <2>4. ASSUME NEW d \in Chunk PROVE ChunkAns(s, d)'
      <3>1. ChunkAns(s, d) /\ ChunkAns(s, c)
        BY Zenon, <1>0
      <3>2. CASE d = c
        BY ZenonT(60), <1>u, <2>1, <2>2, <3>1, <3>2 DEF ChunkAns
      <3>3. CASE d # c
        BY Zenon, <1>u, <2>1, <2>2, <3>1, <3>3 DEF ChunkAns, Asked
      <3> QED
        BY Zenon, <3>2, <3>3
    <2> QED
      BY Zenon, <1>0, <1>u, <2>1, <2>2, <2>3, <2>4, AnswerFrame
  <1>9. ASSUME NEW s \in Session, DispatchAbort(s)
        PROVE  AnswerInv'
    <2>1. /\ req[s] # <<>> /\ NextRequest(s) /\ Head(req[s]) = AbortReq
          /\ \E v \in {"drain", "open"} : abortPc' = [abortPc EXCEPT ![s] = v]
          /\ UNCHANGED <<openPc, pull, resp>>
      BY Zenon, <1>9 DEF DispatchAbort, slotVars
    <2>2. /\ Asked(s, AbortReq) /\ \A m \in ReqMsg : Has(req'[s], {m}) => Asked(s, m)
          /\ \A z \in Session : z # s => req'[z] = req[z]
      BY Zenon, <2>1, Popped
    <2>3. /\ cpc[s] \in Aborted /\ abortPc[s] = "none" /\ openPc[s] # "none"
          /\ ~ Has(resp[s], AckMsg)
      BY Zenon, <1>0, <2>2 DEF AbortAns, QueueOf
    <2>4. \A z \in Session : z # s => abortPc'[z] = abortPc[z]
      BY Zenon, <1>0, <2>1
    <2>5. OpenAns(s)'
      BY ZenonT(60), <1>0, <1>u, <2>1, <2>3 DEF OpenAns
    <2>6. AbortAns(s)'
      BY Zenon, <1>u, <2>1, <2>3 DEF AbortAns
    <2>7. ASSUME NEW c \in Chunk PROVE ChunkAns(s, c)'
      BY Zenon, <1>0, <1>u, <2>1, <2>2, Messages DEF ChunkAns, Asked
    <2> QED
      BY Zenon, <1>0, <1>u, <2>1, <2>2, <2>4, <2>5, <2>6, <2>7, AnswerFrame
  <1>10. ASSUME NEW s \in Session, NEW ok \in BOOLEAN,
                abortPc[s] \in {"drain", "open"}, AbortAnswer(s, ok)
         PROVE  AnswerInv'
    <2> DEFINE m == AbortAck(ok)
    <2>1. /\ abortPc[s] # "none" /\ abortPc' = [abortPc EXCEPT ![s] = "done"]
          /\ UNCHANGED <<openPc, pull, req>> /\ Reply(s, m)
      BY Zenon, <1>10 DEF AbortAnswer, slotVars
    <2>2. m \in Msg /\ m \notin OpenedMsg /\ \A d \in Chunk : m \notin ReadyMsg(d)
      BY ZenonT(60), Kinds
    <2> HIDE DEF m
    <2>3. /\ resp' \in [Session -> Seq(Msg)] /\ \A z \in Session : z # s => resp'[z] = resp[z]
          /\ \A M : /\ Has(resp'[s], M) <=> Has(resp[s], M) \/ m \in M
                    /\ Once(resp[s], M) /\ (m \in M => ~ Has(resp[s], M)) => Once(resp'[s], M)
      BY Zenon, <2>1, <2>2, Replied
    <2>4. abortPc'[s] = "done" /\ \A z \in Session : z # s => abortPc'[z] = abortPc[z]
      BY ZenonT(60), <1>0, <2>1
    <2>5. OpenAns(s)'
      <3>1. (Has(resp'[s], OpenedMsg) <=> Has(resp[s], OpenedMsg)) /\ Once(resp'[s], OpenedMsg)
        BY ZenonT(60), <1>0, <2>2, <2>3 DEF OpenAns
      <3> QED
        BY ZenonT(60), <1>0, <1>u, <2>1, <3>1 DEF OpenAns, Asked
    <2>6. AbortAns(s)'
      BY Zenon, <1>0, <1>u, <2>1, <2>4 DEF AbortAns
    <2>7. ASSUME NEW c \in Chunk PROVE ChunkAns(s, c)'
      <3>1. ChunkAns(s, c)
        BY Zenon, <1>0
      <3>2. (Has(resp'[s], ReadyMsg(c)) <=> Has(resp[s], ReadyMsg(c))) /\ Once(resp'[s], ReadyMsg(c))
        BY Zenon, <2>2, <2>3, <3>1 DEF ChunkAns
      <3> QED
        BY Zenon, <1>u, <2>1, <3>1, <3>2 DEF ChunkAns, Asked
    <2> QED
      BY Zenon, <1>u, <2>1, <2>3, <2>4, <2>5, <2>6, <2>7, AnswerFrame
  <1>11. ASSUME NEW s \in Session, AbortDrained(s) \/ AbortExpired(s)
         PROVE  AnswerInv'
    <2>1. /\ abortPc[s] \in {"drain", "open"}
          /\ \E ok \in BOOLEAN : AbortAnswer(s, ok)
      BY Zenon, <1>11 DEF AbortDrained, AbortExpired, DrainOver
    <2> QED
      BY Zenon, <1>10, <2>1
  <1> QED
    BY Zenon, <1>1, <1>2, <1>3, <1>4, <1>6, <1>7, <1>8, <1>9, <1>11
    DEF HelperProducer, Producer, OpenTask, ChunkTask, AbortTask


\* What a request adds to the queue of its session.
LEMMA Asking ==
    ASSUME QueueInv, NEW s \in Session, NEW m \in ReqMsg, Ask(s, m)
    PROVE  /\ \A z \in Session : z # s => req'[z] = req[z]
           /\ \A n \in ReqMsg : Has(req'[s], {n}) <=> Asked(s, n) \/ n = m
  <1>1. req \in [Session -> Seq(ReqMsg)] /\ req[s] \in Seq(ReqMsg)
    BY Zenon DEF QueueInv
  <1>2. req'[s] = Append(req[s], m) /\ \A z \in Session : z # s => req'[z] = req[z]
    BY Zenon, <1>1 DEF Ask
  <1>3. ASSUME NEW n \in ReqMsg
        PROVE  Has(Append(req[s], m), {n}) <=> Has(req[s], {n}) \/ m \in {n}
    BY Zenon, <1>1, HasAppend
  <1> QED
    BY Zenon, <1>2, <1>3 DEF Asked

\* A coroutine in its loop reads the answer to a chunk it has not decoded yet.
LEMMA ReadyHead ==
    ASSUME AnswerInv, NEW s \in Session, cpc[s] = "stream", ClientRead(s)
    PROVE  LET c == Head(resp[s]).chunk IN
           /\ c \in Chunk /\ Head(resp[s]) \in ReadyMsg(c)
           /\ pull[s][c] = "done" /\ decode[s][c] = "none" /\ target[s][c] # None
  <1>0. /\ OpenAns(s) /\ AbortAns(s) /\ \A c \in Chunk : ChunkAns(s, c)
    BY Zenon DEF AnswerInv
  <1>1. Head(resp[s]) \in Msg /\ \A M : Head(resp[s]) \in M => Has(resp[s], M)
    BY Zenon, Received
  <1>2. Head(resp[s]) \notin OpenedMsg
    BY Zenon, <1>0, <1>1 DEF OpenAns
  <1>3. Head(resp[s]) \notin AckMsg
    BY Zenon, <1>0, <1>1 DEF AbortAns, Aborted
  <1>4. PICK c \in Chunk : Head(resp[s]) \in ReadyMsg(c)
    BY Zenon, <1>1, <1>2, <1>3, Kinds
  <1>5. Head(resp[s]).chunk = c
    BY Zenon, <1>4, Kinds
  <1>6. Has(resp[s], ReadyMsg(c))
    BY Zenon, <1>1, <1>4
  <1>7. pull[s][c] = "done" /\ decode[s][c] = "none" /\ target[s][c] # None
    BY Zenon, <1>0, <1>6 DEF ChunkAns
  <1> QED
    BY Zenon, <1>4, <1>5, <1>7

\* The coroutine's steps that read or send.
LEMMA AnswerTalk ==
    ASSUME QueueInv, AnswerInv, OwnType, NEW s \in Session,
           \/ SessionStart(s) \/ SessionOpened(s) \/ Issuer(s) \/ RecvReady(s)
           \/ SendAbort(s) \/ AbortRecv(s)
    PROVE  AnswerInv'
  <1>0. /\ resp \in [Session -> Seq(Msg)] /\ openPc \in [Session -> {"none", "wait", "job", "done"}]
        /\ cpc \in [Session -> {"idle", "opening", "stream", "leave", "gather", "failing",
                                "aborting", "cleanup", "drain", "done"}]
        /\ next \in [Session -> Nat]
        /\ target \in [Session -> [Chunk -> RecvSlot \cup {None}]]
        /\ decode \in [Session -> [Chunk -> {"none", "job", "ok", "failed"}]]
        /\ QueueOf(s) /\ OpenAns(s) /\ AbortAns(s) /\ \A c \in Chunk : ChunkAns(s, c)
    BY Zenon DEF QueueInv, AnswerInv, OwnType
  <1>1. CASE SessionStart(s)
    <2>1. /\ cpc[s] = "idle" /\ cpc' = [cpc EXCEPT ![s] = "opening"] /\ Ask(s, OpenReq)
          /\ UNCHANGED <<next, target, decode, resp, openPc, abortPc, pull>>
      BY ZenonT(60), <1>1 DEF SessionStart, GoTo, ClientOpen, slotVars
    <2>2. /\ \A z \in Session : z # s => req'[z] = req[z]
          /\ \A n \in ReqMsg : Has(req'[s], {n}) <=> Asked(s, n) \/ n = OpenReq
      BY Zenon, <2>1, Asking, Messages
    <2>3. cpc'[s] = "opening" /\ \A z \in Session : z # s => cpc'[z] = cpc[z]
      BY ZenonT(60), <1>0, <2>1
    <2>4. Has(req'[s], {OpenReq}) /\ (Has(req'[s], {AbortReq}) <=> Asked(s, AbortReq))
      BY ZenonT(60), <2>2, Messages
    <2>5. OpenAns(s)'
      BY ZenonT(60), <1>0, <2>1, <2>3, <2>4 DEF OpenAns, Asked
    <2>6. AbortAns(s)'
      BY ZenonT(60), <1>0, <2>1, <2>4 DEF AbortAns, Asked, Aborted
    <2>7. ASSUME NEW c \in Chunk PROVE ChunkAns(s, c)'
      <3>1. Has(req'[s], {c}) <=> Asked(s, c)
        BY ZenonT(60), <2>2, Messages
      <3> QED
        BY ZenonT(60), <1>0, <2>1, <3>1 DEF ChunkAns, Asked
    <2> QED
      BY Zenon, <1>0, <2>1, <2>2, <2>3, <2>5, <2>6, <2>7, AnswerFrame
  <1>2. CASE SessionOpened(s)
    <2>1. /\ cpc[s] = "opening" /\ ClientRead(s)
          /\ UNCHANGED <<target, decode, req, openPc, abortPc, pull>>
          /\ \E pc \in {"cleanup", "stream", "failing"} : cpc' = [cpc EXCEPT ![s] = pc]
          /\ UNCHANGED next \/ next' = [next EXCEPT ![s] = TotalChunks[s]]
      BY Zenon, <1>2 DEF SessionOpened, GoTo, ClientRead, slotVars
    <2>2. /\ resp' \in [Session -> Seq(Msg)] /\ \A z \in Session : z # s => resp'[z] = resp[z]
          /\ Head(resp[s]) \in Msg
          /\ \A M : /\ Has(resp'[s], M) => Has(resp[s], M)
                    /\ Head(resp[s]) \in M => Has(resp[s], M)
                    /\ Once(resp[s], M) => Once(resp'[s], M)
                    /\ Once(resp[s], M) /\ Head(resp[s]) \in M => ~ Has(resp'[s], M)
      BY ZenonT(60), <2>1, Received
    <2>3. next[s] = 0 /\ \A c \in Chunk : target[s][c] = None
      <3>1. next[s] = 0
        BY Zenon, <1>0, <2>1 DEF OpenAns
      <3> QED
        <4>1. ASSUME NEW c \in Chunk PROVE target[s][c] = None
          <5>1. target[s][c] # None => c < 0
            BY Zenon, <1>0, <3>1 DEF ChunkAns
          <5>2. ~ (c < 0)
            BY ONLY SMT, c \in Chunk, ChunkAssumption DEF Chunk
          <5> QED
            BY Zenon, <5>1, <5>2
        <4> QED
          BY Zenon, <3>1, <4>1
    <2>4. \A c \in Chunk : pull[s][c] = "none" /\ decode[s][c] = "none" /\ ~ Asked(s, c)
                           /\ ~ Has(resp[s], ReadyMsg(c))
      BY ZenonT(60), <1>0, <2>3 DEF ChunkAns
    <2>5. ~ Has(resp[s], AckMsg) /\ ~ Asked(s, AbortReq) /\ abortPc[s] = "none"
      BY ZenonT(60), <1>0, <2>1 DEF AbortAns, Aborted
    <2>6. Head(resp[s]) \in OpenedMsg
      BY ZenonT(60), <2>2, <2>4, <2>5, Kinds
    <2>7. ~ Has(resp'[s], OpenedMsg) /\ openPc[s] = "done" /\ Once(resp'[s], OpenedMsg)
      BY Zenon, <1>0, <2>2, <2>6 DEF OpenAns
    <2>8. /\ cpc'[s] \in {"cleanup", "stream", "failing"}
          /\ \A z \in Session : z # s => cpc'[z] = cpc[z] /\ next'[z] = next[z]
      BY ZenonT(60), <1>0, <2>1
    <2>9. OpenAns(s)'
      BY ZenonT(60), <2>1, <2>7, <2>8 DEF OpenAns
    <2>10. AbortAns(s)'
      BY ZenonT(60), <2>1, <2>2, <2>5 DEF AbortAns, Asked
    <2>11. ASSUME NEW c \in Chunk PROVE ChunkAns(s, c)'
      <3>1. Once(resp'[s], ReadyMsg(c)) /\ ~ Has(resp'[s], ReadyMsg(c))
        BY ZenonT(60), <1>0, <2>2, <2>4 DEF ChunkAns
      <3> QED
        BY Zenon, <2>1, <2>3, <2>4, <3>1 DEF ChunkAns, Asked
    <2> QED
      BY Zenon, <2>1, <2>2, <2>8, <2>9, <2>10, <2>11, AnswerFrame
  <1>3. ASSUME NEW k \in RecvSlot, IssueChunk(s, k)
        PROVE  AnswerInv'
    <2> DEFINE c == next[s]
    <2>1. /\ cpc[s] \in {"stream", "failing", "aborting"} /\ c < TotalChunks[s]
          /\ target' = [target EXCEPT ![s][c] = k] /\ next' = [next EXCEPT ![s] = c + 1]
          /\ Ask(s, c) /\ openPc[s] = "done"
          /\ UNCHANGED <<cpc, decode, resp, openPc, abortPc, pull>>
      BY Zenon, <1>3 DEF IssueChunk, ClientPull, slotVars
    <2>2. c \in Nat /\ c \in Chunk /\ c \in ReqMsg
      <3>1. c \in Nat
        BY Zenon, <1>0
      <3>2. c \in Chunk
        BY SMTT(60), Z3T(60), <2>1, <3>1, ChunkAssumption DEF Chunk
      <3> QED
        BY Zenon, <3>1, <3>2, Messages
    <2> HIDE DEF c
    <2>3. /\ \A z \in Session : z # s => req'[z] = req[z]
          /\ \A n \in ReqMsg : Has(req'[s], {n}) <=> Asked(s, n) \/ n = c
      BY Zenon, <2>1, <2>2, Asking
    <2>4. /\ target'[s][c] = k /\ k # None /\ next'[s] = c + 1
          /\ \A d \in Chunk : d # c => target'[s][d] = target[s][d]
          /\ \A z \in Session : z # s => target'[z] = target[z] /\ next'[z] = next[z]
      BY Zenon, <1>0, <2>1, <2>2, RecvSlotAssumption
    <2>5. target[s][c] = None
      <3>1. target[s][c] # None => c < c
        BY ZenonT(60), <1>0, <2>2 DEF ChunkAns, c
      <3> QED
        BY SMTT(60), Z3T(60), <2>2, <3>1
    <2>6. pull[s][c] = "none" /\ decode[s][c] = "none" /\ ~ Has(resp[s], ReadyMsg(c))
      BY Zenon, <1>0, <2>2, <2>5 DEF ChunkAns
    <2>7. OpenAns(s)'
      BY Zenon, <1>0, <2>1 DEF OpenAns
    <2>8. AbortAns(s)'
      <3>1. Has(req'[s], {AbortReq}) <=> Asked(s, AbortReq)
        BY Zenon, <2>2, <2>3, Messages
      <3> QED
        BY ZenonT(60), <1>0, <2>1, <3>1 DEF AbortAns, Asked
    <2>9. ASSUME NEW d \in Chunk PROVE ChunkAns(s, d)'
      <3>1. ChunkAns(s, d)
        BY Zenon, <1>0
      <3>2. CASE d = c
        <4>1. c < next'[s]
          BY SMTT(60), Z3T(60), <2>2, <2>4
        <4> QED
          BY Zenon, <2>1, <2>4, <2>6, <3>1, <3>2, <4>1 DEF ChunkAns
      <3>3. CASE d # c
        <4>1. Has(req'[s], {d}) <=> Asked(s, d)
          BY ZenonT(60), <2>3, <3>3, Messages
        <4>2. d < next[s] => d < next'[s]
          <5>1. next[s] = c /\ next'[s] = c + 1
            BY Zenon, <2>4 DEF c
          <5>2. d \in Nat
            BY ONLY SMT, d \in Chunk, ChunkAssumption DEF Chunk
          <5> QED
            BY ONLY SMT, <2>2, <5>1, <5>2
        <4> QED
          BY Zenon, <2>1, <2>4, <3>1, <3>3, <4>1, <4>2 DEF ChunkAns, Asked
      <3> QED
        BY Zenon, <3>2, <3>3
    <2> QED
      BY Zenon, <1>0, <2>1, <2>3, <2>4, <2>7, <2>8, <2>9, AnswerFrame
  <1>4. CASE RecvReady(s)
    <2> DEFINE c == Head(resp[s]).chunk
    <2>1. /\ cpc[s] = "stream" /\ ClientRead(s)
          /\ UNCHANGED <<next, target, req, openPc, abortPc, pull>>
          /\ \E pc \in {"leave", "stream", "failing"} : cpc' = [cpc EXCEPT ![s] = pc]
          /\ decode' = decode \/ decode' = [decode EXCEPT ![s][c] = "job"]
      BY Zenon, <1>4 DEF RecvReady, GoTo, ClientRead, slotVars
    <2>2. /\ resp' \in [Session -> Seq(Msg)] /\ \A z \in Session : z # s => resp'[z] = resp[z]
          /\ \A M : /\ Has(resp'[s], M) => Has(resp[s], M)
                    /\ Once(resp[s], M) => Once(resp'[s], M)
                    /\ Once(resp[s], M) /\ Head(resp[s]) \in M => ~ Has(resp'[s], M)
      BY Zenon, <2>1, Received
    <2>3. /\ c \in Chunk /\ Head(resp[s]) \in ReadyMsg(c)
          /\ pull[s][c] = "done" /\ decode[s][c] = "none" /\ target[s][c] # None
      BY Zenon, <2>1, ReadyHead
    <2> HIDE DEF c
    <2>4. /\ cpc'[s] \in {"leave", "stream", "failing"}
          /\ \A z \in Session : z # s => cpc'[z] = cpc[z] /\ decode'[z] = decode[z]
          /\ \A d \in Chunk : d # c => decode'[s][d] = decode[s][d]
      <3>1. cpc'[s] \in {"leave", "stream", "failing"} /\ \A z \in Session : z # s => cpc'[z] = cpc[z]
        BY Zenon, <1>0, <2>1
      <3>2. CASE decode' = decode
        BY Zenon, <3>1, <3>2
      <3>3. CASE decode' = [decode EXCEPT ![s][c] = "job"]
        <4>1. /\ \A z \in Session : z # s => decode'[z] = decode[z]
              /\ \A d \in Chunk : d # c => decode'[s][d] = decode[s][d]
          BY Zenon, <1>0, <2>3, <3>3
        <4> QED
          BY Zenon, <3>1, <4>1
      <3> QED
        BY Zenon, <2>1, <3>2, <3>3
    <2>5. OpenAns(s)'
      <3>1. Once(resp'[s], OpenedMsg) /\ ~ Has(resp'[s], OpenedMsg)
        BY Zenon, <1>0, <2>1, <2>2 DEF OpenAns
      <3> QED
        BY Zenon, <1>0, <2>1, <2>4, <3>1 DEF OpenAns
    <2>6. AbortAns(s)'
      BY Zenon, <1>0, <2>1, <2>2 DEF AbortAns, Asked, Aborted
    <2>7. ASSUME NEW d \in Chunk PROVE ChunkAns(s, d)'
      <3>1. ChunkAns(s, d) /\ Once(resp'[s], ReadyMsg(d))
            /\ (Has(resp'[s], ReadyMsg(d)) => Has(resp[s], ReadyMsg(d)))
        BY Zenon, <1>0, <2>2 DEF ChunkAns
      <3>2. CASE d = c
        <4>1. ~ Has(resp'[s], ReadyMsg(c))
          BY ZenonT(60), <2>2, <2>3, <3>1, <3>2 DEF ChunkAns
        <4> QED
          BY Zenon, <2>1, <2>3, <3>1, <3>2, <4>1 DEF ChunkAns
      <3>3. CASE d # c
        BY Zenon, <2>1, <2>4, <3>1, <3>3 DEF ChunkAns, Asked
      <3> QED
        BY Zenon, <3>2, <3>3
    <2> QED
      BY Zenon, <2>1, <2>2, <2>4, <2>5, <2>6, <2>7, AnswerFrame
  <1>5. CASE SendAbort(s)
    <2>1. /\ cpc[s] = "failing" /\ cpc' = [cpc EXCEPT ![s] = "aborting"] /\ Ask(s, AbortReq)
          /\ openPc[s] # "none"
          /\ UNCHANGED <<next, target, decode, resp, openPc, abortPc, pull>>
      BY ZenonT(60), <1>5 DEF SendAbort, GoTo, ClientAbort, slotVars
    <2>2. /\ \A z \in Session : z # s => req'[z] = req[z]
          /\ \A n \in ReqMsg : Has(req'[s], {n}) <=> Asked(s, n) \/ n = AbortReq
      BY Zenon, <2>1, Asking, Messages
    <2>3. cpc'[s] = "aborting" /\ \A z \in Session : z # s => cpc'[z] = cpc[z]
      BY Zenon, <1>0, <2>1
    <2>4. OpenAns(s)'
      BY Zenon, <1>0, <2>1, <2>3 DEF OpenAns
    <2>5. AbortAns(s)'
      BY ZenonT(60), <1>0, <2>1, <2>3 DEF AbortAns, Aborted
    <2>6. ASSUME NEW c \in Chunk PROVE ChunkAns(s, c)'
      <3>1. Has(req'[s], {c}) <=> Asked(s, c)
        BY ZenonT(60), <2>2, Messages
      <3> QED
        BY ZenonT(60), <1>0, <2>1, <3>1 DEF ChunkAns, Asked
    <2> QED
      BY Zenon, <1>0, <2>1, <2>2, <2>3, <2>4, <2>5, <2>6, AnswerFrame
  <1>6. CASE AbortRecv(s)
    <2>1. /\ cpc[s] = "aborting" /\ ClientRead(s)
          /\ UNCHANGED <<next, target, decode, req, openPc, abortPc, pull>>
          /\ \E pc \in {"aborting", "cleanup"} : cpc' = [cpc EXCEPT ![s] = pc]
      BY Zenon, <1>6 DEF AbortRecv, GoTo, ClientRead, slotVars
    <2>2. /\ resp' \in [Session -> Seq(Msg)] /\ \A z \in Session : z # s => resp'[z] = resp[z]
          /\ \A M : /\ Has(resp'[s], M) => Has(resp[s], M)
                    /\ Once(resp[s], M) => Once(resp'[s], M)
      BY ZenonT(60), <2>1, Received
    <2>3. cpc'[s] \in {"aborting", "cleanup"} /\ \A z \in Session : z # s => cpc'[z] = cpc[z]
      BY Zenon, <1>0, <2>1
    <2>4. OpenAns(s)'
      <3>1. Once(resp'[s], OpenedMsg) /\ ~ Has(resp'[s], OpenedMsg)
        BY Zenon, <1>0, <2>1, <2>2 DEF OpenAns
      <3> QED
        BY Zenon, <1>0, <2>1, <2>3, <3>1 DEF OpenAns
    <2>5. AbortAns(s)'
      BY Zenon, <1>0, <2>1, <2>2, <2>3 DEF AbortAns, Asked, Aborted
    <2>6. ASSUME NEW c \in Chunk PROVE ChunkAns(s, c)'
      <3>1. Once(resp'[s], ReadyMsg(c)) /\ (Has(resp'[s], ReadyMsg(c)) => Has(resp[s], ReadyMsg(c)))
        BY ZenonT(60), <1>0, <2>2 DEF ChunkAns
      <3> QED
        BY ZenonT(60), <1>0, <2>1, <3>1 DEF ChunkAns, Asked
    <2> QED
      BY Zenon, <2>1, <2>2, <2>3, <2>4, <2>5, <2>6, AnswerFrame
  <1> QED
    BY ZenonT(60), <1>1, <1>2, <1>3, <1>4, <1>5, <1>6 DEF Issuer

\* Its other steps, and those of its decode tasks.
Inside(s) ==
    \/ RecvTimeout(s) \/ GatherStart(s) \/ GatherDone(s) \/ AbortTimeout(s) \/ Cleanup(s)
    \/ SlotsDrained(s) \/ Decoder(s)
\* They send and read nothing, and leave what has been pulled as it is.
LEMMA AnswerInside ==
    ASSUME AnswerInv, OwnType, NEW s \in Session, Inside(s)
    PROVE  AnswerInv'
  <1>0. /\ cpc \in [Session -> {"idle", "opening", "stream", "leave", "gather", "failing",
                                "aborting", "cleanup", "drain", "done"}]
        /\ decode \in [Session -> [Chunk -> {"none", "job", "ok", "failed"}]]
        /\ resp \in [Session -> Seq(Msg)]
        /\ OpenAns(s) /\ AbortAns(s) /\ \A c \in Chunk : ChunkAns(s, c)
    BY Zenon DEF AnswerInv, OwnType
  <1>1. UNCHANGED <<next, target, req, resp, openPc, abortPc, pull>>
    BY Zenon DEF Inside, RecvTimeout, GatherStart, GatherDone, AbortTimeout, Cleanup, SlotsDrained,
           Decoder, DecodeDone, DecodeFailed, prodVars, slotVars
  <1>2. /\ \A z \in Session : z # s => cpc'[z] = cpc[z] /\ decode'[z] = decode[z]
        /\ \A c \in Chunk : decode'[s][c] = "none" <=> decode[s][c] = "none"
    <2>1. CASE Decoder(s)
      <3>1. PICK c \in Chunk, v \in {"ok", "failed"} :
              /\ decode[s][c] = "job" /\ decode' = [decode EXCEPT ![s][c] = v]
              /\ cpc' = cpc \/ \E pc : cpc' = [cpc EXCEPT ![s] = pc]
        BY Zenon, <2>1 DEF Decoder, DecodeDone, DecodeFailed, GoTo
      <3> QED
        BY Zenon, <1>0, <3>1
    <2>2. CASE ~ Decoder(s)
      <3>1. decode' = decode /\ \E pc : cpc' = [cpc EXCEPT ![s] = pc]
        BY ZenonT(60), <2>2 DEF Inside, RecvTimeout, GatherStart, GatherDone, AbortTimeout, Cleanup,
                    SlotsDrained, GoTo
      <3> QED
        BY Zenon, <1>0, <3>1
    <2> QED
      BY Zenon, <2>1, <2>2
  <1>3. CASE cpc'[s] = cpc[s]
    <2>1. OpenAns(s)' /\ AbortAns(s)'
      BY ZenonT(60), <1>0, <1>1, <1>3 DEF OpenAns, AbortAns, Asked
    <2>2. ASSUME NEW c \in Chunk PROVE ChunkAns(s, c)'
      BY ZenonT(60), <1>0, <1>1, <1>2 DEF ChunkAns, Asked
    <2> QED
      BY Zenon, <1>0, <1>1, <1>2, <2>1, <2>2, AnswerFrame
  <1>4. CASE cpc'[s] # cpc[s]
    <2>1. /\ cpc[s] \in {"stream", "leave", "gather", "aborting", "cleanup", "drain"}
          /\ cpc'[s] \in {"failing", "cleanup", "gather", "drain", "done"}
          /\ cpc[s] \in Aborted => cpc'[s] \in Aborted
      BY ZenonT(60), <1>0, <1>4 DEF Inside, RecvTimeout, GatherStart, GatherDone, AbortTimeout, Cleanup,
           SlotsDrained, Decoder, DecodeDone, DecodeFailed, GoTo, Aborted
    <2>2. OpenAns(s)'
      BY ZenonT(60), <1>0, <1>1, <2>1 DEF OpenAns, Asked
    <2>3. AbortAns(s)'
      BY ZenonT(60), <1>0, <1>1, <2>1 DEF AbortAns, Asked
    <2>4. ASSUME NEW c \in Chunk PROVE ChunkAns(s, c)'
      BY Zenon, <1>0, <1>1, <1>2 DEF ChunkAns, Asked
    <2> QED
      BY Zenon, <1>0, <1>1, <1>2, <2>2, <2>3, <2>4, AnswerFrame
  <1> QED
    BY Zenon, <1>3, <1>4

\* Every step of the composition keeps the answers in order.
LEMMA AnswerStep ==
    ASSUME QueueInv, AnswerInv, OwnType, [ConsNext]_sessionVars
    PROVE  AnswerInv'
  <1>1. CASE UNCHANGED sessionVars
    BY Zenon, <1>1, AnswerKept DEF sessionVars, prodVars, consVars, slotVars
  <1> QED
    BY Zenon, <1>1, AnswerProducer, AnswerTalk, AnswerInside DEF ConsNext, SessionCoroutine, Inside


-----------------------------------------------------------------------------
\* The receivers' slots

\* A step of one session leaves the others alone.
LEMMA OwnFrame ==
    ASSUME OwnInv, NEW s \in Session, OwnType', PoolInv', OwnOf(s)',
           \A z \in Session : z # s =>
              /\ cpc'[z] = cpc[z] /\ target'[z] = target[z]
              /\ decode'[z] = decode[z] /\ owned'[z] = owned[z]
    PROVE  OwnInv'
  <1>1. ASSUME NEW z \in Session, z # s
        PROVE  OwnOf(z)'
    <2>1. OwnOf(z)
      BY Zenon DEF OwnInv
    <2>2. \A c \in Chunk : Live(z, c)' <=> Live(z, c)
      BY Zenon, <1>1 DEF Live
    <2>3. NoDecode(z)' <=> NoDecode(z)
      BY Zenon, <1>1 DEF NoDecode
    <2> QED
      BY Zenon, <1>1, <2>1, <2>2, <2>3 DEF OwnOf
  <1> QED
    BY Zenon, <1>1 DEF OwnInv

\* The pool of receive slots, left alone.
LEMMA PoolKept ==
    ASSUME PoolInv, UNCHANGED <<owned, rfree>>
    PROVE  PoolInv'
  BY Zenon DEF PoolInv

\* A step of the producer touches none of the consumer's slots.
LEMMA OwnKept ==
    ASSUME OwnInv, UNCHANGED consVars
    PROVE  OwnInv'
  <1>0. UNCHANGED <<cpc, next, target, decode, owned, rfree>>
    BY Zenon DEF consVars
  <1>1. OwnType'
    BY Zenon, <1>0 DEF OwnInv, OwnType
  <1>2. PoolInv'
    BY Zenon, <1>0, PoolKept DEF OwnInv
  <1>3. ASSUME NEW z \in Session PROVE OwnOf(z)'
    <2>1. OwnOf(z)
      BY Zenon DEF OwnInv
    <2>2. \A c \in Chunk : Live(z, c)' <=> Live(z, c)
      BY Zenon, <1>0 DEF Live
    <2>3. NoDecode(z)' <=> NoDecode(z)
      BY Zenon, <1>0 DEF NoDecode
    <2> QED
      BY Zenon, <1>0, <2>1, <2>2, <2>3 DEF OwnOf
  <1> QED
    BY Zenon, <1>1, <1>2, <1>3 DEF OwnInv

\* A coroutine that is not over moves on and holds what it holds.
LEMMA OwnMove ==
    ASSUME OwnInv, NEW s \in Session, cpc[s] # "done",
           NEW pc \in {"opening", "stream", "leave", "gather", "failing", "aborting", "cleanup",
                       "drain", "done"},
           cpc' = [cpc EXCEPT ![s] = pc], next' \in [Session -> Nat],
           UNCHANGED <<target, owned, rfree, decode>>,
           pc \in {"drain", "done"} => NoDecode(s)
    PROVE  OwnInv'
  <1>1. OwnType' /\ cpc'[s] = pc /\ \A z \in Session : z # s => cpc'[z] = cpc[z]
    BY Zenon DEF OwnInv, OwnType
  <1>2. OwnOf(s)'
    <2>1. OwnOf(s)
      BY Zenon DEF OwnInv
    <2>2. \A c \in Chunk : Live(s, c)' => Live(s, c)
      BY Zenon DEF Live
    <2>3. NoDecode(s)' <=> NoDecode(s)
      BY Zenon DEF NoDecode
    <2> QED
      BY Zenon, <1>1, <2>1, <2>2, <2>3 DEF OwnOf
  <1>3. PoolInv'
    BY Zenon, PoolKept DEF OwnInv
  <1> QED
    BY Zenon, <1>1, <1>2, <1>3, OwnFrame

\* A pull takes a free slot into the session that issues it.
LEMMA OwnIssue ==
    ASSUME AnswerInv, OwnInv, NEW s \in Session, NEW k \in RecvSlot, IssueChunk(s, k)
    PROVE  OwnInv'
  <1> DEFINE c == next[s]
  <1>0. /\ OwnType /\ PoolInv /\ OwnOf(s) /\ next[s] \in Nat /\ owned[s] \subseteq RecvSlot
        /\ rfree[k] \in {0, 1}
    BY Zenon DEF OwnInv, OwnType
  <1>1. /\ cpc[s] \in {"stream", "failing", "aborting"} /\ c < TotalChunks[s]
        /\ rfree[k] > 0 /\ rfree' = [rfree EXCEPT ![k] = @ - 1]
        /\ owned' = [owned EXCEPT ![s] = @ \cup {k}]
        /\ target' = [target EXCEPT ![s][c] = k] /\ next' = [next EXCEPT ![s] = c + 1]
        /\ UNCHANGED <<cpc, decode>>
    BY Zenon DEF IssueChunk
  <1>2. c \in Nat /\ c \in Chunk
    <2>1. c \in Nat
      BY Zenon, <1>0
    <2> QED
      BY SMTT(60), Z3T(60), <1>1, <2>1, ChunkAssumption DEF Chunk
  <1>3. target[s][c] = None
    <2>1. target[s][c] # None => c < c
      BY Zenon, <1>2 DEF AnswerInv, ChunkAns
    <2> QED
      BY SMTT(60), Z3T(60), <1>2, <2>1
  <1>4. rfree[k] = 1 /\ rfree'[k] = 0 /\ \A j \in RecvSlot : j # k => rfree'[j] = rfree[j]
    BY SMTT(60), Z3T(60), <1>0, <1>1 DEF OwnType
  <1>5. /\ owned'[s] = owned[s] \cup {k} /\ \A z \in Session : z # s => owned'[z] = owned[z]
        /\ \A z \in Session : k \notin owned[z]
    BY SMTT(60), Z3T(60), <1>0, <1>1, <1>4 DEF OwnType, PoolInv
  <1> HIDE DEF c
  <1>6. /\ target'[s][c] = k /\ \A d \in Chunk : d # c => target'[s][d] = target[s][d]
        /\ \A z \in Session : z # s => target'[z] = target[z]
    BY Zenon, <1>0, <1>1, <1>2 DEF OwnType
  <1>7. OwnType'
    <2>1. rfree' \in [RecvSlot -> {0, 1}]
      BY Zenon, <1>0, <1>1, <1>4 DEF OwnType
    <2>2. owned' \in [Session -> SUBSET RecvSlot]
      BY Zenon, <1>0, <1>1 DEF OwnType
    <2>3. target' \in [Session -> [Chunk -> RecvSlot \cup {None}]]
      BY Zenon, <1>0, <1>1, <1>2 DEF OwnType
    <2>4. next' \in [Session -> Nat]
      BY SMTT(60), Z3T(60), <1>0, <1>1, <1>2 DEF OwnType
    <2> QED
      BY Zenon, <1>0, <1>1, <2>1, <2>2, <2>3, <2>4 DEF OwnType
  <1>8. PoolInv'
    <2>1. ASSUME NEW z \in Session, NEW j \in owned'[z] PROVE rfree'[j] = 0
      <3>1. j \in owned[z] \/ j = k
        BY Zenon, <1>5, <2>1
      <3>2. j \in owned[z] => j \in RecvSlot /\ rfree[j] = 0
        BY Zenon, <1>0 DEF OwnType, PoolInv
      <3> QED
        BY Zenon, <1>4, <3>1, <3>2
    <2>2. ASSUME NEW y \in Session, NEW z \in Session, z # y PROVE owned'[y] \cap owned'[z] = {}
      <3>1. owned[y] \cap owned[z] = {} /\ k \notin owned[y] /\ k \notin owned[z]
        BY Zenon, <1>0, <1>5, <2>2 DEF PoolInv
      <3>2. owned'[y] = owned[y] \/ (y = s /\ owned'[y] = owned[y] \cup {k})
        BY Zenon, <1>5
      <3>3. owned'[z] = owned[z] \/ (z = s /\ owned'[z] = owned[z] \cup {k})
        BY Zenon, <1>5
      <3> QED
        BY Zenon, <2>2, <3>1, <3>2, <3>3
    <2>3. ASSUME NEW j \in RecvSlot, rfree'[j] = 0 PROVE \E z \in Session : j \in owned'[z]
      <3>1. CASE j = k
        BY Zenon, <1>5, <3>1
      <3>2. CASE j # k
        <4>1. PICK z \in Session : j \in owned[z]
          BY Zenon, <1>0, <1>4, <2>3, <3>2 DEF PoolInv
        <4>2. j \in owned'[z]
          BY Zenon, <1>5, <4>1
        <4> QED
          BY Zenon, <4>2
      <3> QED
        BY Zenon, <3>1, <3>2
    <2> QED
      BY Zenon, <2>1, <2>2, <2>3 DEF PoolInv
  <1>9. OwnOf(s)'
    <2>1. \A d \in Chunk : d # c /\ Live(s, d)' => Live(s, d) /\ target'[s][d] \in owned[s]
      BY Zenon, <1>0, <1>1, <1>6 DEF Live, OwnOf
    <2>2. ASSUME NEW d \in Chunk, Live(s, d)' PROVE target'[s][d] \in owned'[s]
      BY Zenon, <1>5, <1>6, <2>1, <2>2
    <2>3. ASSUME NEW d \in Chunk, NEW e \in Chunk, Live(s, d)', Live(s, e)', target'[s][d] = target'[s][e]
          PROVE  d = e
      <3>1. CASE d # c /\ e # c
        BY Zenon, <1>0, <1>6, <2>1, <2>3, <3>1 DEF OwnOf
      <3>2. CASE d = c \/ e = c
        BY Zenon, <1>5, <1>6, <2>1, <2>3, <3>2
      <3> QED
        BY Zenon, <3>1, <3>2
    <2> QED
      BY Zenon, <1>1, <2>2, <2>3 DEF OwnOf
  <1> QED
    BY Zenon, <1>1, <1>5, <1>6, <1>7, <1>8, <1>9, OwnFrame

\* A decode job that runs reads a slot its session owns.
LEMMA JobLive ==
    ASSUME AnswerInv, OwnInv, NEW s \in Session, NEW c \in Chunk, decode[s][c] = "job"
    PROVE  /\ target[s][c] \in RecvSlot /\ Live(s, c) /\ cpc[s] \notin {"drain", "done"}
           /\ target[s][c] \in owned[s]
  <1>0. OwnOf(s) /\ ChunkAns(s, c) /\ target[s][c] \in RecvSlot \cup {None}
    BY ZenonT(60) DEF OwnInv, OwnType, AnswerInv
  <1>1. target[s][c] \in RecvSlot
    BY ZenonT(60), <1>0 DEF ChunkAns
  <1>2. cpc[s] \notin {"drain", "done"}
    BY Zenon, <1>0 DEF OwnOf, NoDecode
  <1>3. Live(s, c)
    BY Zenon, <1>0, <1>1, <1>2 DEF Live, ChunkAns
  <1> QED
    BY ZenonT(60), <1>0, <1>1, <1>2, <1>3 DEF OwnOf

\* A decode that ends puts its slot back and takes it out of the session.
LEMMA OwnDecoded ==
    ASSUME AnswerInv, OwnInv, NEW s \in Session, NEW c \in Chunk, DecodeDone(s, c)
    PROVE  OwnInv'
  <1> DEFINE k == target[s][c]
  <1>0. OwnType /\ PoolInv /\ OwnOf(s)
    BY Zenon DEF OwnInv
  <1>1. /\ decode[s][c] = "job" /\ decode' = [decode EXCEPT ![s][c] = "ok"]
        /\ owned' = [owned EXCEPT ![s] = @ \ {k}] /\ rfree' = [rfree EXCEPT ![k] = @ + 1]
        /\ UNCHANGED <<cpc, next, target>>
    BY Zenon DEF DecodeDone
  <1>2. k \in RecvSlot /\ Live(s, c) /\ cpc[s] \notin {"drain", "done"} /\ k \in owned[s]
    BY Zenon, <1>1, JobLive
  <1> HIDE DEF k
  <1>3. rfree'[k] = 1 /\ \A j \in RecvSlot : j # k => rfree'[j] = rfree[j]
    <2>1. rfree[k] = 0
      BY Zenon, <1>0, <1>2 DEF PoolInv
    <2> QED
      BY SMTT(60), Z3T(60), <1>0, <1>1, <1>2, <2>1 DEF OwnType
  <1>4. /\ owned'[s] = owned[s] \ {k} /\ \A z \in Session : z # s => owned'[z] = owned[z]
        /\ \A z \in Session : k \notin owned'[z]
    <2>1. owned'[s] = owned[s] \ {k} /\ \A z \in Session : z # s => owned'[z] = owned[z]
      BY Zenon, <1>0, <1>1 DEF OwnType
    <2>2. ASSUME NEW z \in Session, z # s PROVE k \notin owned[z]
      BY Zenon, <1>0, <1>2, <2>2 DEF PoolInv
    <2> QED
      BY Zenon, <2>1, <2>2
  <1>5. /\ decode'[s][c] = "ok" /\ \A d \in Chunk : d # c => decode'[s][d] = decode[s][d]
        /\ \A z \in Session : z # s => decode'[z] = decode[z]
    BY Zenon, <1>0, <1>1 DEF OwnType
  <1>6. OwnType'
    <2>1. rfree' \in [RecvSlot -> {0, 1}]
      BY ZenonT(60), <1>0, <1>1, <1>3 DEF OwnType
    <2>2. owned' \in [Session -> SUBSET RecvSlot]
      BY Zenon, <1>0, <1>1 DEF OwnType
    <2>3. decode' \in [Session -> [Chunk -> {"none", "job", "ok", "failed"}]]
      BY Zenon, <1>0, <1>1 DEF OwnType
    <2> QED
      BY Zenon, <1>0, <1>1, <2>1, <2>2, <2>3 DEF OwnType
  <1>7. PoolInv'
    <2>1. ASSUME NEW z \in Session, NEW j \in owned'[z] PROVE rfree'[j] = 0
      <3>1. j \in owned[z] /\ j # k
        BY Zenon, <1>4, <2>1
      <3>2. j \in RecvSlot /\ rfree[j] = 0
        BY Zenon, <1>0, <3>1 DEF OwnType, PoolInv
      <3> QED
        BY Zenon, <1>3, <3>1, <3>2
    <2>2. ASSUME NEW y \in Session, NEW z \in Session, z # y PROVE owned'[y] \cap owned'[z] = {}
      <3>1. owned[y] \cap owned[z] = {}
        BY Zenon, <1>0, <2>2 DEF PoolInv
      <3>2. owned'[y] \subseteq owned[y] /\ owned'[z] \subseteq owned[z]
        BY Zenon, <1>4
      <3> QED
        BY Zenon, <3>1, <3>2
    <2>3. ASSUME NEW j \in RecvSlot, rfree'[j] = 0 PROVE \E z \in Session : j \in owned'[z]
      <3>1. j # k
        BY SMTT(60), Z3T(60), <1>3, <2>3
      <3>2. PICK z \in Session : j \in owned[z]
        BY Zenon, <1>0, <1>3, <2>3, <3>1 DEF PoolInv
      <3>3. j \in owned'[z]
        BY Zenon, <1>4, <3>1, <3>2
      <3> QED
        BY Zenon, <3>3
    <2> QED
      BY Zenon, <2>1, <2>2, <2>3 DEF PoolInv
  <1>8. OwnOf(s)'
    <2>1. \A d \in Chunk : Live(s, d)' => d # c /\ Live(s, d)
      BY Zenon, <1>1, <1>5 DEF Live
    <2>2. ASSUME NEW d \in Chunk, Live(s, d)' PROVE target'[s][d] \in owned'[s]
      <3>1. d # c /\ Live(s, d)
        BY Zenon, <2>1, <2>2
      <3>2. target[s][d] \in owned[s] /\ target[s][d] # k
        BY Zenon, <1>0, <1>2, <3>1 DEF OwnOf, k
      <3> QED
        BY Zenon, <1>1, <1>4, <3>2
    <2> QED
      BY Zenon, <1>0, <1>1, <1>2, <2>1, <2>2 DEF OwnOf
  <1> QED
    BY Zenon, <1>1, <1>4, <1>5, <1>6, <1>7, <1>8, OwnFrame

\* The drain puts back every slot the session still owns.
LEMMA OwnDrained ==
    ASSUME OwnInv, NEW s \in Session, SlotsDrained(s)
    PROVE  OwnInv'
  <1>0. OwnType /\ PoolInv /\ OwnOf(s)
    BY Zenon DEF OwnInv
  <1>1. /\ cpc[s] = "drain" /\ cpc' = [cpc EXCEPT ![s] = "done"]
        /\ rfree' = [j \in RecvSlot |-> rfree[j] + (IF j \in owned[s] THEN 1 ELSE 0)]
        /\ owned' = [owned EXCEPT ![s] = {}] /\ UNCHANGED <<next, target, decode>>
    BY Zenon DEF SlotsDrained, GoTo
  <1>2. cpc'[s] = "done" /\ \A z \in Session : z # s => cpc'[z] = cpc[z]
    BY Zenon, <1>0, <1>1 DEF OwnType
  <1>3. owned'[s] = {} /\ \A z \in Session : z # s => owned'[z] = owned[z]
    BY Zenon, <1>0, <1>1 DEF OwnType
  <1>4. \A j \in RecvSlot : rfree'[j] \in {0, 1}
                            /\ (rfree'[j] = 0 <=> rfree[j] = 0 /\ j \notin owned[s])
    <2> TAKE j \in RecvSlot
    <2>1. rfree[j] \in {0, 1} /\ (j \in owned[s] => rfree[j] = 0)
      BY Zenon, <1>0 DEF OwnType, PoolInv
    <2>2. rfree'[j] = rfree[j] + (IF j \in owned[s] THEN 1 ELSE 0)
      BY Zenon, <1>1
    <2> QED
      BY SMTT(60), Z3T(60), <2>1, <2>2
  <1>5. OwnType'
    <2>1. rfree' \in [RecvSlot -> {0, 1}]
      BY Zenon, <1>1, <1>4
    <2> QED
      BY Zenon, <1>0, <1>1, <2>1 DEF OwnType
  <1>6. PoolInv'
    <2>1. ASSUME NEW z \in Session, NEW j \in owned'[z] PROVE rfree'[j] = 0
      <3>1. z # s /\ j \in owned[z]
        BY Zenon, <1>3, <2>1
      <3>2. j \in RecvSlot /\ rfree[j] = 0 /\ j \notin owned[s]
        BY Zenon, <1>0, <3>1 DEF OwnType, PoolInv
      <3> QED
        BY Zenon, <1>4, <3>2
    <2>2. ASSUME NEW y \in Session, NEW z \in Session, z # y PROVE owned'[y] \cap owned'[z] = {}
      BY ZenonT(60), <1>0, <1>3, <2>2 DEF PoolInv
    <2>3. ASSUME NEW j \in RecvSlot, rfree'[j] = 0 PROVE \E z \in Session : j \in owned'[z]
      <3>1. rfree[j] = 0 /\ j \notin owned[s]
        BY Zenon, <1>4, <2>3
      <3>2. PICK z \in Session : j \in owned[z]
        BY Zenon, <1>0, <3>1 DEF PoolInv
      <3>3. j \in owned'[z]
        BY ZenonT(60), <1>3, <3>1, <3>2
      <3> QED
        BY Zenon, <3>3
    <2> QED
      BY Zenon, <2>1, <2>2, <2>3 DEF PoolInv
  <1>7. OwnOf(s)'
    BY Zenon, <1>0, <1>1, <1>2 DEF OwnOf, Live, NoDecode
  <1> QED
    BY Zenon, <1>1, <1>2, <1>3, <1>5, <1>6, <1>7, OwnFrame

\* A decode task begins or ends without giving its slot back.
LEMMA OwnTask ==
    ASSUME OwnInv, NEW s \in Session, NEW c \in Chunk, NEW v \in {"job", "failed"},
           NEW pc \in {"stream", "leave", "gather", "failing", "aborting", "cleanup"},
           decode[s][c] # "ok", cpc[s] # "done", decode' = [decode EXCEPT ![s][c] = v],
           cpc' = [cpc EXCEPT ![s] = pc], UNCHANGED <<next, target, owned, rfree>>
    PROVE  OwnInv'
  <1>0. OwnType /\ PoolInv /\ OwnOf(s)
    BY Zenon DEF OwnInv
  <1>1. cpc'[s] = pc /\ \A z \in Session : z # s => cpc'[z] = cpc[z] /\ decode'[z] = decode[z]
    BY Zenon, <1>0 DEF OwnType
  <1>2. \A d \in Chunk : decode'[s][d] # "ok" => decode[s][d] # "ok"
    BY Zenon, <1>0 DEF OwnType
  <1>3. OwnType'
    <2>1. decode' \in [Session -> [Chunk -> {"none", "job", "ok", "failed"}]]
      BY Zenon, <1>0 DEF OwnType
    <2> QED
      BY Zenon, <1>0, <2>1 DEF OwnType
  <1>4. OwnOf(s)'
    <2>1. \A d \in Chunk : Live(s, d)' => Live(s, d)
      BY Zenon, <1>2 DEF Live
    <2> QED
      BY Zenon, <1>0, <1>1, <2>1 DEF OwnOf
  <1> QED
    BY Zenon, <1>0, <1>1, <1>3, <1>4, PoolKept, OwnFrame

\* Every step of the composition keeps the slots with their owners.
LEMMA OwnStep ==
    ASSUME AnswerInv, OwnInv, [ConsNext]_sessionVars
    PROVE  OwnInv'
  <1>0. /\ next \in [Session -> Nat] /\ TotalChunks \in [Session -> Nat]
        /\ cpc \in [Session -> {"idle", "opening", "stream", "leave", "gather", "failing",
                                "aborting", "cleanup", "drain", "done"}]
    BY SMTT(60), Z3T(60), ChunkAssumption DEF OwnInv, OwnType
  <1>1. CASE UNCHANGED sessionVars \/ HelperProducer
    BY Zenon, <1>1, OwnKept DEF sessionVars, HelperProducer
  <1>2. ASSUME NEW s \in Session,
               \/ SessionStart(s) \/ SessionOpened(s) \/ RecvTimeout(s) \/ GatherStart(s)
               \/ GatherDone(s) \/ SendAbort(s) \/ AbortRecv(s) \/ AbortTimeout(s) \/ Cleanup(s)
        PROVE  OwnInv'
    <2>1. cpc[s] # "done" /\ UNCHANGED <<target, owned, rfree, decode>>
      BY Zenon, <1>2 DEF SessionStart, SessionOpened, RecvTimeout, GatherStart, GatherDone, SendAbort,
                  AbortRecv, AbortTimeout, Cleanup
    <2>2. \E pc \in {"opening", "stream", "leave", "gather", "failing", "aborting", "cleanup",
                     "drain", "done"} :
             cpc' = [cpc EXCEPT ![s] = pc] /\ (pc \in {"drain", "done"} => NoDecode(s))
      BY Zenon, <1>2 DEF SessionStart, SessionOpened, RecvTimeout, GatherStart, GatherDone, SendAbort,
                  AbortRecv, AbortTimeout, Cleanup, GoTo
    <2>3. next' \in [Session -> Nat]
      <3>1. next' = next \/ next' = [next EXCEPT ![s] = TotalChunks[s]]
        BY ZenonT(60), <1>2 DEF SessionStart, SessionOpened, RecvTimeout, GatherStart, GatherDone, SendAbort,
                    AbortRecv, AbortTimeout, Cleanup
      <3> QED
        BY Zenon, <1>0, <3>1
    <2> QED
      BY ZenonT(60), <2>1, <2>2, <2>3, OwnMove
  <1>3. ASSUME NEW s \in Session, RecvReady(s)
        PROVE  OwnInv'
    <2> DEFINE c == Head(resp[s]).chunk
    <2>1. cpc[s] = "stream" /\ ClientRead(s) /\ UNCHANGED <<next, target, owned, rfree>>
      BY Zenon, <1>3 DEF RecvReady
    <2>2. c \in Chunk /\ decode[s][c] = "none"
      BY Zenon, <2>1, ReadyHead
    <2>3. \E pc \in {"stream", "leave", "failing"} :
             /\ cpc' = [cpc EXCEPT ![s] = pc]
             /\ decode' = decode \/ decode' = [decode EXCEPT ![s][c] = "job"]
      BY Zenon, <1>3 DEF RecvReady, GoTo
    <2> HIDE DEF c
    <2> QED
      BY Zenon, <1>0, <2>1, <2>2, <2>3, OwnMove, OwnTask
  <1>4. ASSUME NEW s \in Session, NEW c \in Chunk, DecodeFailed(s, c)
        PROVE  OwnInv'
    <2>1. /\ decode[s][c] = "job" /\ decode' = [decode EXCEPT ![s][c] = "failed"]
          /\ cpc' = [cpc EXCEPT ![s] = IF cpc[s] = "gather" THEN "failing" ELSE cpc[s]]
          /\ UNCHANGED <<next, target, owned, rfree>>
      BY Zenon, <1>4 DEF DecodeFailed, GoTo
    <2>2. cpc[s] \notin {"drain", "done"}
      BY Zenon, <2>1, JobLive
    <2>3. cpc[s] \notin {"idle", "opening"}
      <3>1. OpenAns(s) /\ ChunkAns(s, c) /\ next[s] \in Nat
        BY Zenon, <1>0 DEF AnswerInv
      <3>2. c < next[s]
        BY Zenon, <2>1, <3>1 DEF ChunkAns
      <3> QED
        BY SMTT(60), Z3T(60), <3>1, <3>2, ChunkAssumption DEF OpenAns, Chunk
    <2>4. \E pc \in {"stream", "leave", "gather", "failing", "aborting", "cleanup"} :
             cpc' = [cpc EXCEPT ![s] = pc]
      BY Zenon, <1>0, <2>1, <2>2, <2>3
    <2> QED
      BY ZenonT(60), <2>1, <2>2, <2>4, OwnTask
  <1> QED
    BY Zenon, <1>1, <1>2, <1>3, <1>4, OwnIssue, OwnDecoded, OwnDrained
    DEF ConsNext, SessionCoroutine, Issuer, Decoder


-----------------------------------------------------------------------------
\* Which chunks have been answered

\* n distinct numbers below n are all of them.
LEMMA AllOf ==
    ASSUME SetFacts, NEW n \in Nat, NEW S \in SUBSET (0 .. (n - 1)), Cardinality(S) = n
    PROVE  0 .. (n - 1) \subseteq S
  <1> SUFFICES ASSUME NEW c \in 0 .. (n - 1), c \notin S
               PROVE  FALSE
    OBVIOUS
  <1>1. {c} \in SUBSET (0 .. (n - 1)) /\ S \cap {c} = {}
    OBVIOUS
  <1>2. n <= Cardinality(S)
    OBVIOUS
  <1>3. {c} = {}
    BY ONLY SetFacts, <1>1, <1>2, NoneLeft, n \in Nat, S \in SUBSET (0 .. (n - 1)), Zenon
  <1> QED
    BY Zenon, <1>3

\* A step of one session leaves the others alone.
LEMMA DeliverFrame ==
    ASSUME DeliverInv, NEW s \in Session, DeliverOf(s)',
           completedC' \in [Session -> Nat], outcome' \in [Session -> {"none", "ok", "failed"}],
           \A z \in Session : z # s =>
              /\ cpc'[z] = cpc[z] /\ decode'[z] = decode[z]
              /\ completedC'[z] = completedC[z] /\ outcome'[z] = outcome[z]
    PROVE  DeliverInv'
  <1>1. ASSUME NEW z \in Session, z # s
        PROVE  DeliverOf(z)'
    <2>1. DeliverOf(z)
      BY Zenon DEF DeliverInv
    <2>2. Answered(z)' = Answered(z)
      BY ZenonT(60), <1>1 DEF Answered
    <2>3. Complete(z)' <=> Complete(z)
      BY ZenonT(60), <1>1 DEF Complete
    <2> QED
      BY ZenonT(60), <1>1, <2>1, <2>2, <2>3 DEF DeliverOf
  <1> QED
    BY Zenon, <1>1 DEF DeliverInv

\* A step that answers no chunk.
LEMMA DeliverKept ==
    ASSUME DeliverInv, NEW s \in Session, completedC' = completedC,
           outcome' \in [Session -> {"none", "ok", "failed"}],
           \A z \in Session : z # s => /\ cpc'[z] = cpc[z] /\ decode'[z] = decode[z]
                                       /\ outcome'[z] = outcome[z],
           \A c \in Chunk : decode'[s][c] = "none" <=> decode[s][c] = "none",
           Complete(s)' => Complete(s) \/ TotalChunks[s] = 0,
           cpc'[s] = "aborting" => outcome'[s] = "failed",
           outcome'[s] = "ok" => cpc'[s] \in {"drain", "done"}
    PROVE  DeliverInv'
  <1>1. DeliverOf(s)
    BY Zenon DEF DeliverInv
  <1>2. Answered(s)' = Answered(s)
    BY Zenon DEF Answered
  <1>3. Complete(s)' => 0 .. (TotalChunks[s] - 1) \subseteq Answered(s)
    BY SMTT(60), Z3T(60), <1>1 DEF DeliverOf
  <1>4. DeliverOf(s)'
    BY ZenonT(60), <1>1, <1>2, <1>3 DEF DeliverOf
  <1> QED
    BY ZenonT(60), <1>4, DeliverFrame DEF DeliverInv

\* An answered chunk is counted once, and the last one ends the loop.
LEMMA DeliverReady ==
    ASSUME SetFacts, QueueInv, AnswerInv, OwnType, DeliverInv, NEW s \in Session, RecvReady(s),
           Head(resp[s]).ok
    PROVE  DeliverInv'
  <1> DEFINE c == Head(resp[s]).chunk
             n == TotalChunks[s]
  <1>0. /\ cpc \in [Session -> {"idle", "opening", "stream", "leave", "gather", "failing",
                                "aborting", "cleanup", "drain", "done"}]
        /\ decode \in [Session -> [Chunk -> {"none", "job", "ok", "failed"}]]
        /\ completedC \in [Session -> Nat] /\ outcome \in [Session -> {"none", "ok", "failed"}]
        /\ DeliverOf(s) /\ n \in Nat
    BY SMTT(60), Z3T(60), ChunkAssumption DEF DeliverInv, OwnType
  <1>1. /\ cpc[s] = "stream" /\ ClientRead(s)
        /\ decode' = [decode EXCEPT ![s][c] = "job"]
        /\ completedC' = [completedC EXCEPT ![s] = @ + 1]
        /\ cpc' = [cpc EXCEPT ![s] = IF completedC[s] + 1 = n THEN "leave" ELSE "stream"]
        /\ outcome' = outcome
    BY Zenon DEF RecvReady, GoTo
  <1>2. c \in Chunk /\ pull[s][c] = "done" /\ decode[s][c] = "none"
    BY Zenon, <1>1, ReadyHead
  <1>3. c < n
    BY ZenonT(60), <1>2 DEF QueueInv, QueueOf
  <1> HIDE DEF c, n
  <1>4. /\ completedC'[s] = completedC[s] + 1
        /\ cpc'[s] = IF completedC[s] + 1 = n THEN "leave" ELSE "stream"
        /\ \A z \in Session : z # s => /\ cpc'[z] = cpc[z] /\ decode'[z] = decode[z]
                                       /\ completedC'[z] = completedC[z]
    BY Zenon, <1>0, <1>1
  <1>5. Answered(s)' = Answered(s) \cup {c} /\ c \notin Answered(s) /\ Answered(s) \in SUBSET Chunk
    BY Zenon, <1>0, <1>1, <1>2 DEF Answered
  <1>6. Cardinality(Answered(s)') = Cardinality(Answered(s)) + 1
    BY Zenon, <1>2, <1>5, ChunkSets
  <1>7. completedC'[s] = Cardinality(Answered(s)')
    BY Zenon, <1>0, <1>4, <1>6 DEF DeliverOf
  <1>8. \A d \in Answered(s)' : d < n
    BY Zenon, <1>0, <1>3, <1>5 DEF DeliverOf, n
  <1>9. outcome[s] # "ok"
    BY Zenon, <1>0, <1>1 DEF DeliverOf
  <1>10. Complete(s)' => 0 .. (n - 1) \subseteq Answered(s)'
    <2> SUFFICES ASSUME Complete(s)' PROVE 0 .. (n - 1) \subseteq Answered(s)'
      OBVIOUS
    <2>1. completedC[s] + 1 = n
      BY Zenon, <1>1, <1>4, <1>9 DEF Complete
    <2>2. Answered(s)' \in SUBSET (0 .. (n - 1))
      <3>1. \A d \in Answered(s)' : d \in Nat
        BY SMTT(60), Z3T(60), <1>2, <1>5, ChunkAssumption DEF Chunk
      <3> QED
        BY SMTT(60), Z3T(60), <1>0, <1>8, <3>1
    <2>3. Cardinality(Answered(s)') = n
      BY Zenon, <1>4, <1>7, <2>1
    <2> QED
      BY Zenon, <1>0, <2>2, <2>3, AllOf
  <1>11. DeliverOf(s)'
    BY SMTT(60), Z3T(60), <1>1, <1>4, <1>7, <1>8, <1>9, <1>10 DEF DeliverOf, n
  <1>12. completedC' \in [Session -> Nat]
    BY SMTT(60), Z3T(60), <1>0, <1>1
  <1> QED
    BY Zenon, <1>0, <1>1, <1>4, <1>11, <1>12, DeliverFrame

\* Every step of the composition keeps the count of answered chunks.
LEMMA DeliverStep ==
    ASSUME SetFacts, QueueInv, AnswerInv, OwnType, DeliverInv, [ConsNext]_sessionVars
    PROVE  DeliverInv'
  <1>0. /\ cpc \in [Session -> {"idle", "opening", "stream", "leave", "gather", "failing",
                                "aborting", "cleanup", "drain", "done"}]
        /\ decode \in [Session -> [Chunk -> {"none", "job", "ok", "failed"}]]
        /\ outcome \in [Session -> {"none", "ok", "failed"}]
    BY Zenon DEF DeliverInv, OwnType
  <1>1. CASE UNCHANGED <<cpc, decode, completedC, outcome>>
    <2>1. ASSUME NEW s \in Session PROVE DeliverOf(s)'
      <3>1. DeliverOf(s) /\ Answered(s)' = Answered(s) /\ (Complete(s)' <=> Complete(s))
        BY Zenon, <1>1 DEF DeliverInv, Answered, Complete
      <3> QED
        BY Zenon, <1>1, <3>1 DEF DeliverOf
    <2> QED
      BY Zenon, <1>1, <2>1 DEF DeliverInv
  <1>2. ASSUME NEW s \in Session,
               \/ SessionStart(s) \/ SessionOpened(s) \/ RecvTimeout(s) \/ GatherStart(s)
               \/ GatherDone(s) \/ AbortRecv(s) \/ AbortTimeout(s) \/ SlotsDrained(s)
               \/ (RecvReady(s) /\ ~ Head(resp[s]).ok)
        PROVE  DeliverInv'
    <2>0. DeliverOf(s)
      BY Zenon DEF DeliverInv
    <2>1. UNCHANGED <<decode, completedC, outcome>>
      BY Zenon, <1>2 DEF SessionStart, SessionOpened, RecvTimeout, GatherStart, GatherDone,
                  AbortRecv, AbortTimeout, SlotsDrained, RecvReady
    <2>2. \E pc : /\ cpc' = [cpc EXCEPT ![s] = pc]
                  /\ \/ pc \in {"opening", "stream", "failing"} /\ cpc[s] \notin {"drain", "done"}
                     \/ (cpc[s] = "opening" /\ TotalChunks[s] = 0 /\ pc = "cleanup")
                     \/ (cpc[s] \in {"leave", "gather"} /\ pc \in {"gather", "cleanup"})
                     \/ (cpc[s] = "aborting" /\ pc \in {"aborting", "cleanup"})
                     \/ (cpc[s] = "drain" /\ pc = "done")
      BY Zenon, <1>2 DEF SessionStart, SessionOpened, RecvTimeout, GatherStart, GatherDone,
                  AbortRecv, AbortTimeout, SlotsDrained, RecvReady, GoTo
    <2>3. \A z \in Session : z # s => cpc'[z] = cpc[z]
      BY Zenon, <1>0, <2>2
    <2>4. \/ cpc'[s] \in {"opening", "stream", "failing"} /\ cpc[s] \notin {"drain", "done"}
          \/ (cpc[s] = "opening" /\ TotalChunks[s] = 0 /\ cpc'[s] = "cleanup")
          \/ (cpc[s] \in {"leave", "gather"} /\ cpc'[s] \in {"gather", "cleanup"})
          \/ (cpc[s] = "aborting" /\ cpc'[s] \in {"aborting", "cleanup"})
          \/ (cpc[s] = "drain" /\ cpc'[s] = "done")
      BY Zenon, <1>0, <2>2
    <2>5. /\ cpc[s] = "aborting" => outcome[s] = "failed"
          /\ outcome[s] = "ok" => cpc[s] \in {"drain", "done"}
      BY Zenon, <2>0 DEF DeliverOf
    <2>6. /\ Complete(s)' => Complete(s) \/ TotalChunks[s] = 0
          /\ cpc'[s] = "aborting" => outcome'[s] = "failed"
          /\ outcome'[s] = "ok" => cpc'[s] \in {"drain", "done"}
      BY Zenon, <2>1, <2>4, <2>5 DEF Complete
    <2> QED
      BY ZenonT(60), <1>0, <2>1, <2>3, <2>6, DeliverKept
  <1>3. ASSUME NEW s \in Session, SendAbort(s)
        PROVE  DeliverInv'
    <2>1. /\ cpc' = [cpc EXCEPT ![s] = "aborting"] /\ outcome' = [outcome EXCEPT ![s] = "failed"]
          /\ UNCHANGED <<decode, completedC>>
      BY Zenon, <1>3 DEF SendAbort, GoTo
    <2>2. /\ cpc'[s] = "aborting" /\ outcome'[s] = "failed"
          /\ \A z \in Session : z # s => cpc'[z] = cpc[z] /\ outcome'[z] = outcome[z]
          /\ outcome' \in [Session -> {"none", "ok", "failed"}]
      BY Zenon, <1>0, <2>1
    <2>3. ~ Complete(s)'
      BY Zenon, <2>2 DEF Complete
    <2> QED
      BY Zenon, <2>1, <2>2, <2>3, DeliverKept
  <1>4. ASSUME NEW s \in Session, Cleanup(s)
        PROVE  DeliverInv'
    <2>1. /\ cpc[s] = "cleanup" /\ \E pc \in {"done", "drain"} : cpc' = [cpc EXCEPT ![s] = pc]
          /\ outcome' = [outcome EXCEPT ![s] = IF outcome[s] = "none" THEN "ok" ELSE outcome[s]]
          /\ UNCHANGED <<decode, completedC>>
      BY Zenon, <1>4 DEF Cleanup, GoTo
    <2>2. /\ cpc'[s] \in {"done", "drain"}
          /\ outcome'[s] = IF outcome[s] = "none" THEN "ok" ELSE outcome[s]
          /\ \A z \in Session : z # s => cpc'[z] = cpc[z] /\ outcome'[z] = outcome[z]
          /\ outcome' \in [Session -> {"none", "ok", "failed"}]
      BY Zenon, <1>0, <2>1
    <2>3. Complete(s)' => Complete(s)
      BY Zenon, <2>1, <2>2 DEF Complete
    <2> QED
      BY Zenon, <2>1, <2>2, <2>3, DeliverKept
  <1>5. ASSUME NEW s \in Session, Decoder(s)
        PROVE  DeliverInv'
    <2>0. DeliverOf(s)
      BY Zenon DEF DeliverInv
    <2>1. PICK c \in Chunk, v \in {"ok", "failed"} :
            /\ decode[s][c] = "job" /\ decode' = [decode EXCEPT ![s][c] = v]
            /\ \/ cpc' = cpc
               \/ cpc' = [cpc EXCEPT ![s] = IF cpc[s] = "gather" THEN "failing" ELSE cpc[s]]
            /\ UNCHANGED <<completedC, outcome>>
      BY Zenon, <1>5 DEF Decoder, DecodeDone, DecodeFailed, GoTo
    <2>2. /\ \A d \in Chunk : decode'[s][d] = "none" <=> decode[s][d] = "none"
          /\ \A z \in Session : z # s => cpc'[z] = cpc[z] /\ decode'[z] = decode[z]
          /\ cpc'[s] = cpc[s] \/ (cpc[s] = "gather" /\ cpc'[s] = "failing")
      BY Zenon, <1>0, <2>1
    <2>3. Complete(s)' => Complete(s)
      BY Zenon, <2>1, <2>2 DEF Complete
    <2>4. /\ cpc'[s] = "aborting" => outcome'[s] = "failed"
          /\ outcome'[s] = "ok" => cpc'[s] \in {"drain", "done"}
      BY Zenon, <2>0, <2>1, <2>2 DEF DeliverOf
    <2> QED
      BY Zenon, <1>0, <2>1, <2>2, <2>3, <2>4, DeliverKept
  <1>6. ASSUME NEW s \in Session, Issuer(s)
        PROVE  UNCHANGED <<cpc, decode, completedC, outcome>>
    BY Zenon, <1>6 DEF Issuer, IssueChunk
  <1>7. ASSUME UNCHANGED sessionVars \/ HelperProducer
        PROVE  UNCHANGED <<cpc, decode, completedC, outcome>>
    BY Zenon, <1>7 DEF sessionVars, HelperProducer, consVars
  <1> QED
    BY Zenon, <1>1, <1>2, <1>3, <1>4, <1>5, <1>6, <1>7, DeliverReady DEF ConsNext, SessionCoroutine

-----------------------------------------------------------------------------

ProdInv == QueueInv /\ QuietInv /\ SlotInv /\ LeaseInv
ConsInv == ProdInv /\ AnswerInv /\ OwnInv /\ DeliverInv

\* The initial states of the producer satisfy its invariant.
LEMMA ProdInvInit ==
    ASSUME ProdInit
    PROVE  QueueInv /\ QuietInv /\ SlotInv /\ LeaseInv
  <1>1. QueueInv
    <2>1. ASSUME NEW s \in Session PROVE QueueOf(s)
      <3>1. \A m : ~ Has(req[s], {m}) /\ Once(req[s], {m})
        BY Zenon, HasEmpty DEF ProdInit
      <3> QED
        BY Zenon, <3>1 DEF ProdInit, QueueOf, Asked
    <2> QED
      BY SMTT(60), Z3T(60), <2>1 DEF ProdInit, QueueInv
  <1>2. QuietInv
    <2>1. ASSUME NEW s \in Session PROVE QuietOf(s)
      <3>1. Running(s) = {} /\ Ended(s) = {}
        BY Zenon DEF ProdInit, Running, Ended
      <3> QED
        BY SMTT(60), Z3T(60), <3>1, CardinalitySmall DEF ProdInit, QuietOf
    <2> QED
      BY SMTT(60), Z3T(60), <2>1 DEF ProdInit, QuietInv
  <1>3. SlotInv
    BY SMTT(60), Z3T(60) DEF ProdInit, SlotInv
  <1>4. LeaseInv
    <2>1. LeaseType
      BY SMTT(60), Z3T(60) DEF ProdInit, LeaseType
    <2>2. \A o \in Obj : Claims(o) = {} /\ Overs(o) = {}
      BY Zenon DEF ProdInit, Claims, Overs, Claiming, Over
    <2>3. \A o \in Obj : CountOf(o) /\ ReadyOf(o)
      <3>1. \A o \in Obj : sending[o] = 0 /\ sent[o] = 0 /\ ready[o] = FALSE
        BY Zenon DEF ProdInit
      <3>2. Cardinality({}) = 0
        BY Zenon, CardinalitySmall
      <3> QED
        BY SMTT(60), Z3T(60), <2>2, <3>1, <3>2 DEF CountOf, ReadyOf
    <2>4. \A t \in Transfer : TableOf(t)
      BY SMTT(60), Z3T(60) DEF ProdInit, TableOf
    <2>5. \A s \in Session : OpenOf(s)
      <3>1. \A s \in Session : /\ openPc[s] = "none" /\ openObj[s] = None /\ inSess[s] = FALSE
                               /\ ready[s] = FALSE /\ meta[TransferOf[s]] = None
        BY ZenonT(60), Objects DEF ProdInit
      <3> QED
        BY ZenonT(60), <3>1, Objects DEF OpenOf, Claiming
    <2> QED
      BY Zenon, <2>1, <2>3, <2>4, <2>5 DEF LeaseInv
  <1> QED
    BY Zenon, <1>1, <1>2, <1>3, <1>4

\* The initial states of the composition satisfy the invariant.
LEMMA ConsInvInit ==
    ASSUME ConsInit
    PROVE  ConsInv
  <1>1. ProdInv
    BY Zenon, ProdInvInit DEF ConsInit, ProdInv
  <1>2. AnswerInv
    <2>1. resp = [s \in Session |-> <<>>] /\ req = [s \in Session |-> <<>>]
      BY Zenon DEF ConsInit, ProdInit
    <2>2. resp \in [Session -> Seq(Msg)]
      BY SMTT(60), Z3T(60), <2>1, HasEmpty
    <2>3. ASSUME NEW s \in Session
          PROVE  OpenAns(s) /\ AbortAns(s) /\ \A c \in Chunk : ChunkAns(s, c)
      <3>1. /\ \A M : ~ Has(resp[s], M) /\ Once(resp[s], M)
            /\ \A m : ~ Asked(s, m)
        BY Zenon, <2>1, HasEmpty DEF Asked
      <3>2. /\ cpc[s] = "idle" /\ openPc[s] = "none" /\ abortPc[s] = "none" /\ next[s] = 0
            /\ \A c \in Chunk : /\ pull[s][c] = "none" /\ decode[s][c] = "none"
                                /\ target[s][c] = None
        BY Zenon DEF ConsInit, ProdInit
      <3> QED
        BY Zenon, <3>1, <3>2 DEF OpenAns, AbortAns, ChunkAns
    <2> QED
      BY Zenon, <2>2, <2>3 DEF AnswerInv
  <1>3. OwnInv
    <2>1. OwnType
      BY Zenon DEF ConsInit, OwnType
    <2>2. PoolInv
      BY SMTT(60), Z3T(60) DEF ConsInit, PoolInv
    <2>3. \A s \in Session : OwnOf(s)
      BY Zenon DEF ConsInit, OwnOf, Live
    <2> QED
      BY Zenon, <2>1, <2>2, <2>3 DEF OwnInv
  <1>4. DeliverInv
    <2>1. ASSUME NEW s \in Session PROVE DeliverOf(s)
      <3>1. Answered(s) = {} /\ completedC[s] = 0 /\ cpc[s] = "idle" /\ outcome[s] = "none"
        BY Zenon DEF ConsInit, Answered
      <3>2. Cardinality({}) = 0
        BY Zenon, CardinalitySmall
      <3> QED
        BY Zenon, <3>1, <3>2 DEF DeliverOf, Complete
    <2> QED
      BY Zenon, <2>1 DEF ConsInit, DeliverInv
  <1> QED
    BY Zenon, <1>1, <1>2, <1>3, <1>4 DEF ConsInv

\* Every step preserves it: a step of a consumer is one the producer allows for.
LEMMA ConsInvStep ==
    ASSUME ConsInv, [ConsNext]_sessionVars
    PROVE  ConsInv'
  <1>0. /\ QueueInv /\ QuietInv /\ SlotInv /\ LeaseInv /\ AnswerInv /\ OwnInv /\ DeliverInv
        /\ OwnType
    BY Zenon DEF ConsInv, ProdInv, OwnInv
  <1>1. ProdStep
    BY ZenonT(60), <1>0, IsProdStep
  <1>2. QueueInv' /\ QuietInv' /\ SlotInv' /\ LeaseInv'
    BY Zenon, <1>0, <1>1, SetFactsHold, QueueStep, QuietStep, SlotStep, LeaseStep
  <1>3. AnswerInv' /\ OwnInv' /\ DeliverInv'
    BY Zenon, <1>0, SetFactsHold, AnswerStep, OwnStep, DeliverStep
  <1> QED
    BY Zenon, <1>2, <1>3 DEF ConsInv, ProdInv

\* The invariant holds of every state of every behaviour.
LEMMA ConsInvariant == SessionSpec => []ConsInv
  BY ConsInvInit, ConsInvStep, PTL DEF SessionSpec

\* A slot that is not in the pool has one holder, one in the pool has none.
LEMMA SlotsCounted ==
    ASSUME SlotInv
    PROVE  SenderSlotsConserved
  <1> SUFFICES ASSUME NEW k \in SenderSlot
               PROVE  free[k] + Cardinality(Holders(k)) = 1
    BY Zenon DEF SenderSlotsConserved
  <1>0. k # None /\ free[k] \in {0, 1}
    BY Zenon, SessionAssumption DEF SlotInv
  <1>1. CASE free[k] = 0
    <2>1. PICK s \in Session, c \in Chunk : slotOf[s][c] = k
      BY Zenon, <1>1 DEF SlotInv
    <2>2. ASSUME NEW sc \in Holders(k) PROVE sc = <<s, c>>
      <3>1. PICK z \in Session, d \in Chunk : sc = <<z, d>> /\ slotOf[z][d] = k
        BY SMTT(60), Z3T(60), <2>2 DEF Holders
      <3> QED
        BY SMTT(60), Z3T(60), <1>0, <2>1, <3>1 DEF SlotInv
    <2>3. Holders(k) = {<<s, c>>}
      BY SMTT(60), Z3T(60), <2>1, <2>2 DEF Holders
    <2>4. Cardinality({<<s, c>>}) = 1
      BY Zenon, CardinalitySmall
    <2> QED
      BY SMTT(60), Z3T(60), <1>1, <2>3, <2>4
  <1>2. CASE free[k] = 1
    <2>1. Holders(k) = {}
      BY SMTT(60), Z3T(60), <1>0, <1>2 DEF Holders, SlotInv
    <2> QED
      BY SMTT(60), Z3T(60), <1>2, <2>1, CardinalitySmall
  <1> QED
    BY Zenon, <1>0, <1>1, <1>2

\* When an AbortAck is sent no encode job of that session is running or will run
\* (_on_abort and _serve_producer_chunk), for any sessions, chunks and slots.
THEOREM SessionAckQuiet == SessionSpec => []AckMeansQuiet
  <1>1. ConsInv => AckMeansQuiet
    BY Zenon, AckFollows DEF ConsInv, ProdInv
  <1> QED
    BY <1>1, ConsInvariant, PTL

\* The engine is told to free the blocks of a request once, after it announced
\* them, and never while a session reads them (_finish_one_target and the sweep
\* against every order of opens, pulls, aborts and failures).
THEOREM SessionBlocksHeld == SessionSpec => []BlocksHeld
  <1>1. ConsInv => BlocksHeld
    BY Zenon, BlocksFollow DEF ConsInv, ProdInv
  <1> QED
    BY <1>1, ConsInvariant, PTL

\* No slot of a sender or a receiver is lost or put back twice, on any error path
\* of _serve_producer_chunk, _run_consumer_session or _decode_and_release.
THEOREM SessionSlots == SessionSpec => []SlotsConserved
  <1>1. ASSUME ConsInv PROVE SlotsConserved
    <2>1. SenderSlotsConserved
      BY Zenon, <1>1, SlotsCounted DEF ConsInv, ProdInv
    <2>2. ASSUME NEW k \in RecvSlot
          PROVE  rfree[k] + Cardinality({s \in Session : k \in owned[s]}) = 1
      <3> DEFINE O == {s \in Session : k \in owned[s]}
      <3>0. PoolInv /\ rfree[k] \in {0, 1}
        BY Zenon, <1>1 DEF ConsInv, OwnInv, OwnType
      <3>1. CASE rfree[k] = 0
        <4>1. PICK s \in Session : k \in owned[s]
          BY Zenon, <3>0, <3>1 DEF PoolInv
        <4>2. \A z \in Session : k \in owned[z] => z = s
          BY Zenon, <3>0, <4>1 DEF PoolInv
        <4>3. O = {s}
          BY ZenonT(60), <4>1, <4>2
        <4>4. Cardinality({s}) = 1
          BY Zenon, CardinalitySmall
        <4> QED
          BY SMTT(60), Z3T(60), <3>1, <4>3, <4>4
      <3>2. CASE rfree[k] = 1
        <4>1. O = {}
          BY SMTT(60), Z3T(60), <3>0, <3>2 DEF PoolInv
        <4>2. Cardinality({}) = 0
          BY Zenon, CardinalitySmall
        <4> QED
          BY SMTT(60), Z3T(60), <3>2, <4>1, <4>2
      <3> QED
        BY Zenon, <3>0, <3>1, <3>2
    <2> QED
      BY Zenon, <2>1, <2>2 DEF SlotsConserved
  <1> QED
    BY <1>1, ConsInvariant, PTL

\* A session that ends without failed blocks has had every chunk answered and
\* every decode job of it has ended, and a running decode job reads a slot that
\* is still the session's (_run_consumer_session, _decode_and_release).
THEOREM SessionDelivers == SessionSpec => []ChunksDelivered
  <1>1. ASSUME ConsInv PROVE ChunksDelivered
    <2>0. AnswerInv /\ OwnInv /\ DeliverInv
      BY Zenon, <1>1 DEF ConsInv
    <2>1. ASSUME NEW s \in Session, NEW c \in Chunk, decode[s][c] = "job"
          PROVE  target[s][c] \in owned[s]
      BY Zenon, <2>0, <2>1, JobLive
    <2>2. ASSUME NEW s \in Session, cpc[s] = "done", outcome[s] = "ok",
                 NEW c \in 0 .. (TotalChunks[s] - 1)
          PROVE  decode[s][c] \in {"ok", "failed"}
      <3>1. DeliverOf(s) /\ OwnOf(s)
        BY Zenon, <2>0 DEF DeliverInv, OwnInv
      <3>2. c \in Answered(s)
        BY Zenon, <2>2, <3>1 DEF DeliverOf, Complete
      <3>3. c \in Chunk /\ decode[s][c] # "none"
        BY Zenon, <3>2 DEF Answered
      <3>4. decode[s][c] # "job"
        BY Zenon, <2>2, <3>1, <3>3 DEF OwnOf, NoDecode
      <3>5. decode[s][c] \in {"none", "job", "ok", "failed"}
        BY Zenon, <2>0, <3>3 DEF OwnInv, OwnType
      <3> QED
        BY Zenon, <3>3, <3>4, <3>5
    <2> QED
      BY Zenon, <2>1, <2>2 DEF ChunksDelivered
  <1> QED
    BY <1>1, ConsInvariant, PTL
=============================================================================
