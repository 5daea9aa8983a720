----------------------- MODULE SessionProducerProofs -----------------------
(***************************************************************************)
(* The producer half of the session helper keeps the blocks it reads, its   *)
(* slots and the promise of an AbortAck, for any number of sessions, chunks *)
(* and slots.  The invariant has four parts, each about a few variables and *)
(* preserved by the producer and by whatever a client may ask: the queues   *)
(* of requests, the chunks, the sender slots and the leases of the blocks.  *)
(***************************************************************************)
EXTENDS SessionProducer, DataLemmas

\* The producer, and what a client may do at any time.
Client(s) ==
    ClientOpen(s) \/ (\E c \in Chunk : ClientPull(s, c)) \/ ClientAbort(s) \/ ClientRead(s)
ProdStep == Producer \/ (\E s \in Session : Client(s)) \/ UNCHANGED prodVars

\* Requests are queued once and in a sensible order: the open first, a chunk
\* before its task exists, an abort at most once.
ReqMsg == Chunk \cup {OpenReq, AbortReq}
Asked(s, m) == Has(req[s], {m})
QueueOf(s) ==
    /\ Asked(s, OpenReq) => openPc[s] = "none"
    /\ \A c \in Chunk : /\ Asked(s, c) => pull[s][c] = "none"
                        /\ Asked(s, c) \/ pull[s][c] # "none" => c < TotalChunks[s] /\ openPc[s] # "none"
    /\ Asked(s, AbortReq) => openPc[s] # "none" /\ abortPc[s] = "none"
    /\ \A m \in ReqMsg : Once(req[s], {m})
QueueInv ==
    /\ req \in [Session -> Seq(ReqMsg)]
    /\ openPc \in [Session -> {"none", "wait", "job", "done"}]
    /\ abortPc \in [Session -> {"none", "open", "drain", "done"}]
    /\ pull \in [Session -> [Chunk -> {"none", "slot", "job", "drain", "done"}]]
    /\ \A s \in Session : QueueOf(s)

-----------------------------------------------------------------------------
\* The queues of requests

\* The three kinds of request are different.
LEMMA Messages ==
    /\ OpenReq \in ReqMsg /\ AbortReq \in ReqMsg /\ Chunk \subseteq ReqMsg
    /\ OpenReq # AbortReq /\ OpenReq \notin Chunk /\ AbortReq \notin Chunk
  BY SMTT(60), Z3T(60), ChunkAssumption DEF ReqMsg, Chunk, OpenReq, AbortReq

\* A request is taken off the queue of s: it is asked for no more.
LEMMA Popped ==
    ASSUME QueueInv, NEW s \in Session, req[s] # <<>>, NextRequest(s)
    PROVE  /\ req' \in [Session -> Seq(ReqMsg)]
           /\ Head(req[s]) \in ReqMsg /\ Asked(s, Head(req[s])) /\ ~ Has(req'[s], {Head(req[s])})
           /\ \A z \in Session, m \in ReqMsg :
                 /\ Has(req'[z], {m}) => Asked(z, m)
                 /\ Once(req'[z], {m})
           /\ \A z \in Session : z # s => req'[z] = req[z]
  <1>1. req \in [Session -> Seq(ReqMsg)] /\ req[s] \in Seq(ReqMsg)
    BY Zenon DEF QueueInv
  <1>2. Head(req[s]) \in ReqMsg /\ Tail(req[s]) \in Seq(ReqMsg)
    BY Zenon, <1>1, HasTail
  <1>3. req' \in [Session -> Seq(ReqMsg)] /\ req'[s] = Tail(req[s])
        /\ \A z \in Session : z # s => req'[z] = req[z]
    BY Zenon, <1>1, <1>2 DEF NextRequest
  <1>4. \A z \in Session, m \in ReqMsg : Once(req[z], {m})
    BY Zenon DEF QueueInv, QueueOf
  <1>5. \A m \in ReqMsg : /\ Has(Tail(req[s]), {m}) => Has(req[s], {m})
                          /\ Once(Tail(req[s]), {m})
    BY Zenon, <1>1, <1>4, HasTail
  <1>6. Has(req[s], {Head(req[s])}) /\ ~ Has(Tail(req[s]), {Head(req[s])})
    BY Zenon, <1>1, <1>2, <1>4, HasTail
  <1>7. ASSUME NEW z \in Session, NEW m \in ReqMsg
        PROVE  (Has(req'[z], {m}) => Has(req[z], {m})) /\ Once(req'[z], {m})
    <2>1. CASE z = s
      BY Zenon, <1>3, <1>5, <2>1
    <2>2. CASE z # s
      BY Zenon, <1>3, <1>4, <2>2
    <2> QED
      BY Zenon, <2>1, <2>2
  <1> QED
    BY Zenon, <1>2, <1>3, <1>6, <1>7 DEF Asked

\* A request is added to the queue of s.
LEMMA Added ==
    ASSUME QueueInv, NEW s \in Session, NEW m \in ReqMsg, Ask(s, m), ~ Asked(s, m)
    PROVE  /\ req' \in [Session -> Seq(ReqMsg)]
           /\ \A z \in Session, n \in ReqMsg :
                 /\ Has(req'[z], {n}) => Asked(z, n) \/ (z = s /\ n = m)
                 /\ Once(req'[z], {n})
  <1>1. req \in [Session -> Seq(ReqMsg)] /\ req[s] \in Seq(ReqMsg)
    BY Zenon DEF QueueInv
  <1>2. Append(req[s], m) \in Seq(ReqMsg)
    BY Zenon, <1>1, HasAppend
  <1>3. req' \in [Session -> Seq(ReqMsg)] /\ req'[s] = Append(req[s], m)
        /\ \A z \in Session : z # s => req'[z] = req[z]
    BY Zenon, <1>1, <1>2 DEF Ask
  <1>4. \A z \in Session, n \in ReqMsg : Once(req[z], {n})
    BY Zenon DEF QueueInv, QueueOf
  <1>5. ASSUME NEW n \in ReqMsg
        PROVE  /\ Has(Append(req[s], m), {n}) => Has(req[s], {n}) \/ n = m
               /\ Once(Append(req[s], m), {n})
    <2>1. m \in {n} => ~ Has(req[s], {n})
      BY Zenon DEF Asked
    <2> QED
      BY SMTT(60), Z3T(60), <1>1, <1>4, <2>1, HasAppend
  <1>6. ASSUME NEW z \in Session, NEW n \in ReqMsg
        PROVE  /\ Has(req'[z], {n}) => Has(req[z], {n}) \/ (z = s /\ n = m)
               /\ Once(req'[z], {n})
    <2>1. CASE z = s
      BY Zenon, <1>3, <1>5, <2>1
    <2>2. CASE z # s
      BY Zenon, <1>3, <1>4, <2>2
    <2> QED
      BY Zenon, <2>1, <2>2
  <1> QED
    BY Zenon, <1>3, <1>6 DEF Asked

\* What a client may still ask for is not in its queue.
LEMMA NotAsked ==
    ASSUME QueueInv, NEW s \in Session, NEW m \in ReqMsg, Unasked(s, m)
    PROVE  ~ Asked(s, m)
  BY SMTT(60), Z3T(60) DEF QueueInv, Unasked, Asked, Has

\* Steps that leave the queues alone: what has begun stays begun.
LEMMA QueueKept ==
    ASSUME QueueInv, req' = req,
           openPc' \in [Session -> {"none", "wait", "job", "done"}],
           abortPc' \in [Session -> {"none", "open", "drain", "done"}],
           pull' \in [Session -> [Chunk -> {"none", "slot", "job", "drain", "done"}]],
           \A s \in Session : /\ openPc'[s] = "none" <=> openPc[s] = "none"
                              /\ abortPc'[s] = "none" <=> abortPc[s] = "none"
                              /\ \A c \in Chunk : pull'[s][c] = "none" <=> pull[s][c] = "none"
    PROVE  QueueInv'
  BY Zenon DEF QueueInv, QueueOf, Asked

\* Every step keeps each request in its queue at most once, before it is served.
LEMMA QueueStep ==
    ASSUME QueueInv, ProdStep
    PROVE  QueueInv'
  <1>0. /\ openPc \in [Session -> {"none", "wait", "job", "done"}]
        /\ abortPc \in [Session -> {"none", "open", "drain", "done"}]
        /\ pull \in [Session -> [Chunk -> {"none", "slot", "job", "drain", "done"}]]
        /\ \A z \in Session : QueueOf(z)
    BY Zenon DEF QueueInv
  <1>1. CASE UNCHANGED <<req, openPc, abortPc, pull>>
    BY Zenon, <1>0, <1>1, QueueKept
  <1>2. ASSUME NEW s \in Session,
               OpenReady(s) \/ OpenAbandon(s) \/ OpenDone(s) \/ OpenFailed(s)
        PROVE  QueueInv'
    <2>1. /\ openPc[s] \in {"wait", "job"} /\ UNCHANGED <<req, abortPc, pull>>
          /\ openPc' = [openPc EXCEPT ![s] = "job"] \/ openPc' = [openPc EXCEPT ![s] = "done"]
      BY Zenon, <1>2 DEF OpenReady, OpenAbandon, OpenDone, OpenFailed, slotVars
    <2> QED
      BY Zenon, <1>0, <2>1, QueueKept
  <1>3. ASSUME NEW s \in Session, AbortDrained(s) \/ AbortExpired(s)
        PROVE  QueueInv'
    <2>1. /\ abortPc[s] \in {"drain", "open"} /\ UNCHANGED <<req, openPc, pull>>
          /\ abortPc' = [abortPc EXCEPT ![s] = "done"]
      BY Zenon, <1>3 DEF AbortDrained, AbortExpired, AbortAnswer, DrainOver, slotVars
    <2> QED
      BY Zenon, <1>0, <2>1, QueueKept
  <1>4. ASSUME NEW s \in Session, NEW c \in Chunk,
               \/ \E k \in SenderSlot : PullSlot(s, c, k)
               \/ EncodeDone(s, c) \/ EncodeFailed(s, c) \/ DrainDone(s, c)
        PROVE  QueueInv'
    <2>1. /\ pull[s][c] \in {"slot", "job", "drain"} /\ UNCHANGED <<req, openPc, abortPc>>
          /\ \E v \in {"job", "drain", "done"} : pull' = [pull EXCEPT ![s][c] = v]
      BY Zenon, <1>4 DEF PullSlot, EncodeDone, EncodeFailed, DrainDone, ReleaseSlot, SetPull
    <2> QED
      BY SMTT(60), Z3T(60), <1>0, <2>1, QueueKept
  <1>5. ASSUME NEW s \in Session, DispatchOpen(s)
        PROVE  QueueInv'
    <2>1. /\ req[s] # <<>> /\ NextRequest(s) /\ Head(req[s]) = OpenReq
          /\ openPc' = [openPc EXCEPT ![s] = "wait"] /\ UNCHANGED <<abortPc, pull>>
      BY Zenon, <1>5 DEF DispatchOpen, slotVars
    <2>2. req' \in [Session -> Seq(ReqMsg)] /\ Head(req[s]) \in ReqMsg
          /\ Has(req[s], {Head(req[s])}) /\ ~ Has(req'[s], {Head(req[s])})
          /\ \A z \in Session, m \in ReqMsg :
                (Has(req'[z], {m}) => Has(req[z], {m})) /\ Once(req'[z], {m})
      BY Zenon, <2>1, Popped DEF Asked
    <2>3. ASSUME NEW z \in Session PROVE QueueOf(z)'
      BY Zenon, <1>0, <2>1, <2>2, Messages DEF QueueOf, Asked
    <2> QED
      BY Zenon, <1>0, <2>1, <2>2, <2>3 DEF QueueInv
  <1>6. ASSUME NEW s \in Session, DispatchPull(s) \/ RefusePull(s)
        PROVE  QueueInv'
    <2>1. /\ req[s] # <<>> /\ NextRequest(s) /\ Head(req[s]) \in Chunk
          /\ \E v \in {"slot", "done"} : pull' = [pull EXCEPT ![s][Head(req[s])] = v]
          /\ UNCHANGED <<openPc, abortPc>>
      BY Zenon, <1>6 DEF DispatchPull, RefusePull, SetPull
    <2>2. req' \in [Session -> Seq(ReqMsg)] /\ Head(req[s]) \in ReqMsg
          /\ Has(req[s], {Head(req[s])}) /\ ~ Has(req'[s], {Head(req[s])})
          /\ \A z \in Session, m \in ReqMsg :
                (Has(req'[z], {m}) => Has(req[z], {m})) /\ Once(req'[z], {m})
      BY Zenon, <2>1, Popped DEF Asked
    <2>3. ASSUME NEW z \in Session PROVE QueueOf(z)'
      <3>1. PICK v \in {"slot", "done"} : pull' = [pull EXCEPT ![s][Head(req[s])] = v]
        BY Zenon, <2>1
      <3>2. \A c \in Chunk : pull'[z][c] = IF z = s /\ c = Head(req[s]) THEN v ELSE pull[z][c]
        BY Zenon, <1>0, <2>1, <3>1
      <3> QED
        BY Zenon, <1>0, <2>1, <2>2, <3>2, Messages DEF QueueOf, Asked
    <2>4. pull' \in [Session -> [Chunk -> {"none", "slot", "job", "drain", "done"}]]
      BY SMTT(60), Z3T(60), <1>0, <2>1
    <2> QED
      BY Zenon, <1>0, <2>1, <2>2, <2>3, <2>4 DEF QueueInv
  <1>7. ASSUME NEW s \in Session, DispatchAbort(s)
        PROVE  QueueInv'
    <2>1. /\ req[s] # <<>> /\ NextRequest(s) /\ Head(req[s]) = AbortReq
          /\ \E v \in {"drain", "open"} : abortPc' = [abortPc EXCEPT ![s] = v]
          /\ UNCHANGED <<openPc, pull>>
      BY Zenon, <1>7 DEF DispatchAbort, slotVars
    <2>2. req' \in [Session -> Seq(ReqMsg)] /\ Head(req[s]) \in ReqMsg
          /\ Has(req[s], {Head(req[s])}) /\ ~ Has(req'[s], {Head(req[s])})
          /\ \A z \in Session, m \in ReqMsg :
                (Has(req'[z], {m}) => Has(req[z], {m})) /\ Once(req'[z], {m})
      BY Zenon, <2>1, Popped DEF Asked
    <2>3. ASSUME NEW z \in Session PROVE QueueOf(z)'
      BY ZenonT(60), <1>0, <2>1, <2>2, Messages DEF QueueOf, Asked
    <2> QED
      BY Zenon, <1>0, <2>1, <2>2, <2>3 DEF QueueInv
  <1>8. ASSUME NEW s \in Session, ClientOpen(s)
        PROVE  QueueInv'
    <2>1. /\ openPc[s] = "none" /\ req[s] = <<>> /\ Ask(s, OpenReq)
          /\ UNCHANGED <<openPc, abortPc, pull>>
      BY Zenon, <1>8 DEF ClientOpen, slotVars
    <2>2. ~ Asked(s, OpenReq)
      BY Zenon, <2>1, HasEmpty DEF Asked
    <2>8. req' \in [Session -> Seq(ReqMsg)]
          /\ \A z \in Session, n \in ReqMsg :
                /\ Has(req'[z], {n}) => Has(req[z], {n}) \/ (z = s /\ n = OpenReq)
                /\ Once(req'[z], {n})
      BY Zenon, <2>1, <2>2, Added, Messages DEF Asked
    <2>9. ASSUME NEW z \in Session PROVE QueueOf(z)'
      <3>1. /\ \A c \in Chunk : Has(req'[z], {c}) => Has(req[z], {c})
            /\ Has(req'[z], {AbortReq}) => Has(req[z], {AbortReq})
            /\ Has(req'[z], {OpenReq}) => Has(req[z], {OpenReq}) \/ z = s
        BY Zenon, <2>8, Messages
      <3> QED
        BY Zenon, <1>0, <2>1, <2>8, <3>1 DEF QueueOf, Asked
    <2> QED
      BY Zenon, <1>0, <2>1, <2>8, <2>9 DEF QueueInv
  <1>9. ASSUME NEW s \in Session, NEW c \in Chunk, ClientPull(s, c)
        PROVE  QueueInv'
    <2>1. /\ openPc[s] = "done" /\ c < TotalChunks[s] /\ pull[s][c] = "none" /\ Ask(s, c)
          /\ ~ Asked(s, c) /\ UNCHANGED <<openPc, abortPc, pull>>
      BY Zenon, <1>9, NotAsked, Messages DEF ClientPull, slotVars
    <2>8. req' \in [Session -> Seq(ReqMsg)]
          /\ \A z \in Session, n \in ReqMsg :
                /\ Has(req'[z], {n}) => Has(req[z], {n}) \/ (z = s /\ n = c)
                /\ Once(req'[z], {n})
      BY Zenon, <2>1, Added, Messages DEF Asked
    <2>9. ASSUME NEW z \in Session PROVE QueueOf(z)'
      BY ZenonT(60), <1>0, <2>1, <2>8, Messages DEF QueueOf, Asked
    <2> QED
      BY Zenon, <1>0, <2>1, <2>8, <2>9 DEF QueueInv
  <1>10. ASSUME NEW s \in Session, ClientAbort(s)
         PROVE  QueueInv'
    <2>1. /\ openPc[s] # "none" /\ abortPc[s] = "none" /\ Ask(s, AbortReq)
          /\ ~ Asked(s, AbortReq) /\ UNCHANGED <<openPc, abortPc, pull>>
      BY Zenon, <1>10, NotAsked, Messages DEF ClientAbort, slotVars
    <2>8. req' \in [Session -> Seq(ReqMsg)]
          /\ \A z \in Session, n \in ReqMsg :
                /\ Has(req'[z], {n}) => Has(req[z], {n}) \/ (z = s /\ n = AbortReq)
                /\ Once(req'[z], {n})
      BY Zenon, <2>1, Added, Messages DEF Asked
    <2>9. ASSUME NEW z \in Session PROVE QueueOf(z)'
      BY ZenonT(60), <1>0, <2>1, <2>8, Messages DEF QueueOf, Asked
    <2> QED
      BY Zenon, <1>0, <2>1, <2>8, <2>9 DEF QueueInv
  <1>11. ASSUME \/ \E t \in Transfer : Engine(t) \/ Sweep(t)
                \/ \E s \in Session : ClientRead(s)
                \/ UNCHANGED prodVars
         PROVE  UNCHANGED <<req, openPc, abortPc, pull>>
    BY Zenon, <1>11 DEF Engine, Publish, Announce, Drop, Sweep, ClientRead, prodVars, slotVars
  <1> QED
    BY Zenon, <1>1, <1>2, <1>3, <1>4, <1>5, <1>6, <1>7, <1>8, <1>9, <1>10, <1>11
    DEF ProdStep, Producer, Client, OpenTask, ChunkTask, AbortTask

\* What a chunk's task moving on does to pull.
LEMMA PullTyped ==
    ASSUME QueueInv, NEW s \in Session, NEW c \in Chunk, NEW v, SetPull(s, c, v)
    PROVE  /\ \A z \in Session : z # s => pull'[z] = pull[z]
           /\ \A d \in Chunk : d # c => pull'[s][d] = pull[s][d]
           /\ pull'[s][c] = v
  BY Zenon DEF QueueInv, SetPull

-----------------------------------------------------------------------------
\* Counting

\* When all n chunks have ended none is running.
LEMMA NoneLeft ==
    ASSUME SetFacts, NEW n \in Nat, NEW E \in SUBSET (0 .. (n - 1)),
           NEW R \in SUBSET (0 .. (n - 1)), E \cap R = {}, n <= Cardinality(E)
    PROVE  R = {}
  <1>1. /\ IsFiniteSet(0 .. (n - 1)) /\ Cardinality(0 .. (n - 1)) = n
        /\ Countable(0 .. (n - 1))
    BY Zenon DEF SetFacts
  <1>2. IsFiniteSet(E) /\ Cardinality(E) <= n
    BY SMTT(60), Z3T(60), <1>1 DEF Countable
  <1>3. Cardinality(E) \in Nat
    BY Zenon, <1>2 DEF SetFacts, Countable
  <1>4. Cardinality(E) = n
    BY SMTT(60), Z3T(60), <1>2, <1>3
  <1>5. E = 0 .. (n - 1)
    BY Zenon, <1>1, <1>4 DEF Countable
  <1> QED
    BY Zenon, <1>5

\* Sets of chunks can be counted.
LEMMA ChunkSets ==
    ASSUME SetFacts, NEW S \in SUBSET Chunk
    PROVE  /\ IsFiniteSet(S) /\ Cardinality(S) \in Nat /\ (Cardinality(S) = 0 <=> S = {})
           /\ \A c \in Chunk : /\ c \notin S => Cardinality(S \cup {c}) = Cardinality(S) + 1
                               /\ c \in S => Cardinality(S \ {c}) = Cardinality(S) - 1
  <1>1. Countable(Chunk)
    BY Zenon, ChunkAssumption DEF Chunk, SetFacts
  <1>2. IsFiniteSet(S)
    BY Zenon, <1>1 DEF Countable
  <1>3. Countable(S)
    BY Zenon, <1>2 DEF SetFacts
  <1> QED
    BY Zenon, <1>2, <1>3 DEF Countable

-----------------------------------------------------------------------------
\* A session has its chunks counted and is in _producer_sessions while one of
\* them runs; an abort closes it, and none of its chunks is encoded from the
\* moment the abort found no session or has answered.
Running(s) == {c \in Chunk : pull[s][c] \in {"slot", "job", "drain"}}
Ended(s) == {c \in Chunk : pull[s][c] = "done"}
QuietOf(s) ==
    /\ inflight[s] = Cardinality(Running(s))
    /\ completed[s] <= Cardinality(Ended(s))
    /\ Running(s) # {} => inSess[s]
    /\ inSess[s] => openPc[s] = "done"
    /\ abortPc[s] # "none" => closed[s] /\ openPc[s] # "none"
    /\ abortPc[s] \in {"open", "done"} => \A c \in Chunk : pull[s][c] # "job"
    /\ abortPc[s] = "done" => openPc[s] = "done"
QuietInv ==
    /\ inSess \in [Session -> BOOLEAN] /\ closed \in [Session -> BOOLEAN]
    /\ completed \in [Session -> Nat] /\ inflight \in [Session -> Int]
    /\ \A s \in Session : QuietOf(s)

\* A sender slot is in the pool or with the one chunk task that holds it.
SlotInv ==
    /\ slotOf \in [Session -> [Chunk -> SenderSlot \cup {None}]]
    /\ free \in [SenderSlot -> {0, 1}]
    /\ \A s \in Session, c \in Chunk :
          /\ slotOf[s][c] # None <=> pull[s][c] \in {"job", "drain"}
          /\ slotOf[s][c] # None => free[slotOf[s][c]] = 0
    /\ \A s, z \in Session, c, d \in Chunk :
          slotOf[s][c] # None /\ slotOf[s][c] = slotOf[z][d] => s = z /\ c = d
    /\ \A k \in SenderSlot :
          free[k] = 0 => \E s \in Session, c \in Chunk : slotOf[s][c] = k

\* A session waits for a block table, has claimed it as one of its targets, or
\* is over with it.
Waiting(s) == openPc[s] = "wait"
Claiming(s) == openPc[s] = "job" \/ inSess[s]
Over(s) == openPc[s] = "done" /\ ~ inSess[s]
Claims(o) == {s \in Session : openObj[s] = o /\ Claiming(s)}
Overs(o) == {s \in Session : openObj[s] = o /\ Over(s)}

\* The announced object of a transfer is tracked until the engine has been told
\* to free the blocks, and then nobody claims it or waits for it.
TargetsOf(t) == {s \in Session : TransferOf[s] = t}
LeaseType ==
    /\ eng \in [Transfer -> {"idle", "published", "announced", "dropped"}]
    /\ finals \in [Transfer -> {0, 1}]
    /\ meta \in [Transfer -> Obj \cup {None}] /\ ready \in [Obj -> BOOLEAN]
    /\ need \in [Obj -> {0, NeedSend}] /\ sent \in [Obj -> Nat] /\ sending \in [Obj -> Int]
    /\ openObj \in [Session -> Obj \cup {None}]
    /\ openPc \in [Session -> {"none", "wait", "job", "done"}] /\ inSess \in [Session -> BOOLEAN]
TableOf(t) ==
    /\ meta[t] # None => TOf(meta[t]) = t
    /\ finals[t] = 1 => eng[t] = "announced"
OpenOf(s) ==
    /\ openPc[s] = "none" <=> openObj[s] = None
    /\ openPc[s] = "none" => ~ ready[s] /\ meta[TransferOf[s]] # s
    /\ openObj[s] # None => TOf(openObj[s]) = TransferOf[s]
    /\ inSess[s] => openPc[s] = "done"
    /\ Claiming(s) => ready[openObj[s]] /\ need[openObj[s]] = NeedSend
CountOf(o) ==
    /\ sending[o] = Cardinality(Claims(o))
    /\ sent[o] <= Cardinality(Overs(o))
ReadyOf(o) ==
    ready[o] =>
        /\ eng[TOf(o)] = "announced"
        /\ \A p \in Obj : ready[p] /\ TOf(p) = TOf(o) => p = o
        /\ finals[TOf(o)] = 0 => meta[TOf(o)] = o
        /\ finals[TOf(o)] = 1 =>
              /\ meta[TOf(o)] # o /\ Claims(o) = {}
              /\ \A s \in Session : Waiting(s) => openObj[s] # o
LeaseInv ==
    /\ LeaseType
    /\ \A t \in Transfer : TableOf(t)
    /\ \A s \in Session : OpenOf(s)
    /\ \A o \in Obj : CountOf(o) /\ ReadyOf(o)

-----------------------------------------------------------------------------
\* The chunks of a session

\* The chunks that run and the chunks that ended, counted.
LEMMA CountFacts ==
    ASSUME SetFacts, NEW s \in Session
    PROVE  /\ Running(s) \subseteq Chunk /\ Ended(s) \subseteq Chunk
           /\ Cardinality(Running(s)) \in Nat /\ Cardinality(Ended(s)) \in Nat
           /\ Cardinality(Running(s)) = 0 <=> Running(s) = {}
  BY Zenon, ChunkSets DEF Running, Ended

\* A step of one session leaves the others alone.
LEMMA QuietFrame ==
    ASSUME QuietInv, NEW s \in Session,
           inSess' \in [Session -> BOOLEAN], closed' \in [Session -> BOOLEAN],
           completed' \in [Session -> Nat], inflight' \in [Session -> Int],
           \A z \in Session : z # s =>
              /\ pull'[z] = pull[z] /\ inflight'[z] = inflight[z] /\ completed'[z] = completed[z]
              /\ inSess'[z] = inSess[z] /\ openPc'[z] = openPc[z] /\ abortPc'[z] = abortPc[z]
              /\ closed'[z] = closed[z],
           QuietOf(s)'
    PROVE  QuietInv'
  <1>1. ASSUME NEW z \in Session, z # s PROVE QuietOf(z)'
    <2>1. Running(z)' = Running(z) /\ Ended(z)' = Ended(z)
      BY Zenon, <1>1 DEF Running, Ended
    <2> QED
      BY SMTT(60), Z3T(60), <1>1, <2>1 DEF QuietInv, QuietOf
  <1> QED
    BY Zenon, <1>1 DEF QuietInv

\* Only the task that ends a session takes it out of _producer_sessions.
LEMMA EndEffect ==
    ASSUME QuietInv, NEW s \in Session
    PROVE  /\ EndSession(s) => inSess' = [inSess EXCEPT ![s] = FALSE]
           /\ \A st, n : DiscardIdle(s, st, n) =>
                 inSess' = inSess \/ (n = 0 /\ inSess' = [inSess EXCEPT ![s] = FALSE])
  <1>1. EndSession(s) => inSess' = [inSess EXCEPT ![s] = FALSE]
    BY Zenon DEF QuietInv, EndSession
  <1> QED
    BY Zenon, <1>1 DEF DiscardIdle

\* The chunk sets after one chunk has moved on.
LEMMA PullMoved ==
    ASSUME QueueInv, NEW s \in Session, NEW c \in Chunk, NEW v, SetPull(s, c, v)
    PROVE  /\ \A z \in Session : z # s => pull'[z] = pull[z]
           /\ \A d \in Chunk : pull'[s][d] = IF d = c THEN v ELSE pull[s][d]
           /\ Running(s)' = IF v \in {"slot", "job", "drain"} THEN Running(s) \cup {c}
                            ELSE Running(s) \ {c}
           /\ Ended(s)' = IF v = "done" THEN Ended(s) \cup {c} ELSE Ended(s) \ {c}
  <1>1. /\ \A z \in Session : z # s => pull'[z] = pull[z]
        /\ \A d \in Chunk : pull'[s][d] = IF d = c THEN v ELSE pull[s][d]
    BY Zenon DEF QueueInv, SetPull
  <1> QED
    BY Zenon, <1>1 DEF Running, Ended

\* Every step of a session's tasks keeps what its chunks are counted as.
LEMMA QuietStep ==
    ASSUME SetFacts, QueueInv, QuietInv, ProdStep
    PROVE  QuietInv'
  <1>0. /\ openPc \in [Session -> {"none", "wait", "job", "done"}]
        /\ abortPc \in [Session -> {"none", "open", "drain", "done"}]
        /\ inSess \in [Session -> BOOLEAN] /\ closed \in [Session -> BOOLEAN]
        /\ completed \in [Session -> Nat] /\ inflight \in [Session -> Int]
        /\ \A z \in Session : QueueOf(z) /\ QuietOf(z)
    BY Zenon DEF QueueInv, QuietInv
  <1>1. ASSUME UNCHANGED <<openPc, abortPc, pull, closed, inSess, completed, inflight>>
        PROVE  QuietInv'
    BY ZenonT(60), <1>1 DEF QuietInv, QuietOf, Running, Ended
  <1>2. ASSUME NEW s \in Session, OpenTask(s)
        PROVE  QuietInv'
    <2>0. DispatchOpen(s) => openPc[s] = "none"
      <3>1. DispatchOpen(s) => Asked(s, OpenReq)
        BY Zenon, Popped DEF DispatchOpen
      <3> QED
        BY Zenon, <1>0, <3>1 DEF QueueOf
    <2>1. /\ openPc[s] # "done" /\ UNCHANGED <<abortPc, pull, completed, inflight>>
          /\ \E v \in {"wait", "job", "done"} :
                /\ openPc' = [openPc EXCEPT ![s] = v]
                /\ inSess' = inSess \/ (inSess' = [inSess EXCEPT ![s] = TRUE] /\ v = "done")
          /\ closed' = closed \/ closed' = [closed EXCEPT ![s] = TRUE]
      BY Zenon, <1>0, <1>2, <2>0
      DEF OpenTask, DispatchOpen, OpenReady, OpenAbandon, OpenDone, OpenFailed, slotVars, sessVars
    <2>2. PICK v \in {"wait", "job", "done"} :
             /\ openPc' = [openPc EXCEPT ![s] = v]
             /\ inSess' = inSess \/ (inSess' = [inSess EXCEPT ![s] = TRUE] /\ v = "done")
      BY Zenon, <2>1
    <2>3. /\ openPc'[s] = v /\ ~ inSess[s] /\ (inSess'[s] => v = "done") /\ (closed[s] => closed'[s])
          /\ inSess' \in [Session -> BOOLEAN] /\ closed' \in [Session -> BOOLEAN]
      BY Zenon, <1>0, <2>1, <2>2 DEF QuietOf
    <2>4. Running(s)' = Running(s) /\ Ended(s)' = Ended(s)
      BY Zenon, <2>1 DEF Running, Ended
    <2>5. QuietOf(s)'
      BY Zenon, <1>0, <2>1, <2>2, <2>3, <2>4 DEF QuietOf
    <2> QED
      BY Zenon, <1>0, <2>1, <2>2, <2>3, <2>5, QuietFrame
  <1>3. ASSUME NEW s \in Session, DispatchAbort(s) \/ AbortDrained(s) \/ AbortExpired(s)
        PROVE  QuietInv'
    <2>1. /\ UNCHANGED <<openPc, pull, completed, inflight>>
          /\ inSess' = inSess \/ (inflight[s] = 0 /\ inSess' = [inSess EXCEPT ![s] = FALSE])
      BY Zenon, <1>3, EndEffect DEF DispatchAbort, AbortDrained, AbortExpired, AbortAnswer, slotVars
    <2>2. Running(s)' = Running(s) /\ Ended(s)' = Ended(s)
      BY Zenon, <2>1 DEF Running, Ended
    <2>3. /\ inSess' \in [Session -> BOOLEAN] /\ (inSess'[s] => inSess[s])
          /\ Running(s) # {} => inSess'[s]
      BY Zenon, <1>0, <2>1, CountFacts DEF QuietOf
    <2>4. CASE DispatchAbort(s)
      <3>1. /\ closed' = [closed EXCEPT ![s] = TRUE] /\ openPc[s] # "none"
            /\ abortPc' = [abortPc EXCEPT ![s] = IF inSess[s] THEN "drain" ELSE "open"]
        <4>1. Asked(s, AbortReq)
          BY Zenon, <2>4, Popped DEF DispatchAbort
        <4> QED
          BY Zenon, <1>0, <2>4, <4>1 DEF DispatchAbort, QueueOf
      <3>2. ~ inSess[s] => \A c \in Chunk : pull[s][c] # "job"
        BY Zenon, <1>0 DEF QuietOf, Running
      <3>3. QuietOf(s)'
        BY Zenon, <1>0, <2>1, <2>2, <2>3, <3>1, <3>2 DEF QuietOf
      <3> QED
        BY Zenon, <1>0, <2>1, <2>3, <3>1, <3>3, QuietFrame
    <2>5. CASE AbortDrained(s) \/ AbortExpired(s)
      <3>1. /\ abortPc' = [abortPc EXCEPT ![s] = "done"] /\ closed' = closed
            /\ abortPc[s] \in {"drain", "open"} /\ openPc[s] \notin {"wait", "job"}
            /\ abortPc[s] = "drain" => \A c \in Chunk : pull[s][c] # "job"
        BY Zenon, <2>5 DEF AbortDrained, AbortExpired, AbortAnswer, DrainOver, ChunksDone, NoJob
      <3>2. QuietOf(s)'
        BY Zenon, <1>0, <2>1, <2>2, <2>3, <3>1 DEF QuietOf
      <3> QED
        BY Zenon, <1>0, <2>1, <2>3, <3>1, <3>2, QuietFrame
    <2> QED
      BY Zenon, <1>3, <2>4, <2>5
  <1>4. ASSUME NEW s \in Session, DispatchPull(s) \/ RefusePull(s)
        PROVE  QuietInv'
    <2> DEFINE c == Head(req[s])
    <2>1. c \in Chunk /\ pull[s][c] = "none"
      <3>1. c \in Chunk /\ Asked(s, c)
        BY Zenon, <1>4, Popped DEF DispatchPull, RefusePull
      <3> QED
        BY Zenon, <1>0, <3>1 DEF QueueOf
    <2>2. c \notin Running(s) /\ c \notin Ended(s)
      BY Zenon, <2>1 DEF Running, Ended
    <2>3. UNCHANGED <<openPc, abortPc, closed, completed>>
      BY Zenon, <1>4 DEF DispatchPull, RefusePull
    <2>4. CASE DispatchPull(s)
      <3>1. /\ SetPull(s, c, "slot") /\ inSess' = inSess /\ inSess[s]
            /\ inflight' = [inflight EXCEPT ![s] = @ + 1]
        BY Zenon, <2>4 DEF DispatchPull
      <3>2. /\ \A z \in Session : z # s => pull'[z] = pull[z]
            /\ \A d \in Chunk : pull'[s][d] = IF d = c THEN "slot" ELSE pull[s][d]
            /\ Running(s)' = Running(s) \cup {c} /\ Ended(s)' = Ended(s)
        <4> HIDE DEF c
        <4> QED
          BY SMTT(60), Z3T(60), <2>1, <2>2, <3>1, PullMoved
      <3>3. Cardinality(Running(s)') = Cardinality(Running(s)) + 1
        BY Zenon, <2>1, <2>2, <3>2, CountFacts, ChunkSets
      <3>4. QuietOf(s)'
        <4> HIDE DEF c
        <4> QED
          BY SMTT(60), Z3T(60), <1>0, <2>1, <2>3, <3>1, <3>2, <3>3, CountFacts DEF QuietOf
      <3> QED
        BY SMTT(60), Z3T(60), <1>0, <2>3, <3>1, <3>2, <3>4, QuietFrame
    <2>5. CASE RefusePull(s)
      <3>1. /\ SetPull(s, c, "done") /\ UNCHANGED inflight
            /\ inSess' = inSess \/ (inflight[s] = 0 /\ inSess' = [inSess EXCEPT ![s] = FALSE])
        BY Zenon, <2>5, EndEffect DEF RefusePull
      <3>2. /\ \A z \in Session : z # s => pull'[z] = pull[z]
            /\ \A d \in Chunk : pull'[s][d] = IF d = c THEN "done" ELSE pull[s][d]
            /\ Running(s)' = Running(s) /\ Ended(s)' = Ended(s) \cup {c}
        <4> HIDE DEF c
        <4> QED
          BY SMTT(60), Z3T(60), <2>1, <2>2, <3>1, PullMoved
      <3>3. Cardinality(Ended(s)') = Cardinality(Ended(s)) + 1
        BY ZenonT(60), <2>1, <2>2, <3>2, CountFacts, ChunkSets
      <3>4. /\ inSess' \in [Session -> BOOLEAN] /\ (inSess'[s] => inSess[s])
            /\ Running(s) # {} => inSess'[s]
        BY ZenonT(60), <1>0, <3>1, CountFacts DEF QuietOf
      <3>5. QuietOf(s)'
        <4> HIDE DEF c
        <4> QED
          BY SMTT(60), Z3T(60), <1>0, <2>1, <2>3, <3>1, <3>2, <3>3, <3>4, CountFacts DEF QuietOf
      <3> QED
        BY ZenonT(60), <1>0, <2>3, <3>1, <3>2, <3>4, <3>5, QuietFrame
    <2> QED
      BY Zenon, <1>4, <2>4, <2>5
  <1>5. ASSUME NEW s \in Session, NEW c \in Chunk,
               (\E k \in SenderSlot : PullSlot(s, c, k)) \/ EncodeFailed(s, c)
        PROVE  QuietInv'
    <2>1. /\ UNCHANGED <<openPc, abortPc, closed, inSess, completed, inflight>>
          /\ pull[s][c] \in {"slot", "job"}
          /\ SetPull(s, c, "drain") \/ (SetPull(s, c, "job") /\ ~ closed[s])
      BY Zenon, <1>5 DEF PullSlot, EncodeFailed
    <2>2. PICK v \in {"job", "drain"} : SetPull(s, c, v) /\ (v = "job" => ~ closed[s])
      BY Zenon, <2>1
    <2>3. c \in Running(s) /\ c \notin Ended(s)
      BY Zenon, <2>1 DEF Running, Ended
    <2>4. /\ \A z \in Session : z # s => pull'[z] = pull[z]
          /\ \A d \in Chunk : pull'[s][d] = IF d = c THEN v ELSE pull[s][d]
          /\ Running(s)' = Running(s) /\ Ended(s)' = Ended(s)
      BY SMTT(60), Z3T(60), <2>2, <2>3, PullMoved
    <2>5. QuietOf(s)'
      BY SMTT(60), Z3T(60), <1>0, <2>1, <2>2, <2>4 DEF QuietOf
    <2> QED
      BY Zenon, <1>0, <2>1, <2>4, <2>5, QuietFrame
  <1>6. ASSUME NEW s \in Session, NEW c \in Chunk, EncodeDone(s, c) \/ DrainDone(s, c)
        PROVE  QuietInv'
    <2>1. /\ UNCHANGED <<openPc, abortPc>> /\ pull[s][c] \in {"job", "drain"}
          /\ SetPull(s, c, "done") /\ inflight' = [inflight EXCEPT ![s] = @ - 1]
          /\ completed' = completed \/ completed' = [completed EXCEPT ![s] = @ + 1]
          /\ closed' = closed \/ closed' = [closed EXCEPT ![s] = @ \/ inSess[s]]
      BY Zenon, <1>6 DEF EncodeDone, DrainDone, ReleaseSlot
    <2>2. c \in Running(s) /\ c \notin Ended(s)
      BY Zenon, <2>1 DEF Running, Ended
    <2>3. /\ \A z \in Session : z # s => pull'[z] = pull[z]
          /\ \A d \in Chunk : pull'[s][d] = IF d = c THEN "done" ELSE pull[s][d]
          /\ Running(s)' = Running(s) \ {c} /\ Ended(s)' = Ended(s) \cup {c}
      BY SMTT(60), Z3T(60), <2>1, PullMoved
    <2>4. /\ Cardinality(Running(s)') = Cardinality(Running(s)) - 1
          /\ Cardinality(Ended(s)') = Cardinality(Ended(s)) + 1
      BY SMTT(60), Z3T(60), <2>2, <2>3, CountFacts, ChunkSets
    <2>5. /\ closed' \in [Session -> BOOLEAN] /\ (closed[s] => closed'[s])
          /\ \A z \in Session : z # s => closed'[z] = closed[z]
      BY Zenon, <1>0, <2>1
    <2>6. /\ completed' \in [Session -> Nat] /\ inflight' \in [Session -> Int]
          /\ completed'[s] <= completed[s] + 1 /\ inflight'[s] = inflight[s] - 1
          /\ \A z \in Session : z # s => completed'[z] = completed[z] /\ inflight'[z] = inflight[z]
      BY SMTT(60), Z3T(60), <1>0, <2>1
    <2>7. \/ inSess' = inSess
          \/ inSess' = [inSess EXCEPT ![s] = FALSE] /\ Running(s)' = {}
      <3>1. CASE /\ EncodeDone(s, c) /\ state[s] = "ACTIVE"
                 /\ completed[s] + 1 = TotalChunks[s]
        <4>1. inSess' = [inSess EXCEPT ![s] = FALSE]
          BY Zenon, <3>1, EndEffect DEF EncodeDone
        <4>2. TotalChunks[s] \in Nat /\ TotalChunks[s] <= Cardinality(Ended(s)')
          BY SMTT(60), Z3T(60), <1>0, <2>4, <3>1, ChunkAssumption, CountFacts DEF QuietOf
        <4>3. \A d \in Chunk : pull[s][d] # "none" => d \in 0 .. (TotalChunks[s] - 1)
          <5>1. \A d \in Chunk : pull[s][d] # "none" => d < TotalChunks[s]
            BY <1>0, Zenon DEF QueueOf
          <5>2. \A d \in Chunk : d \in Nat
            BY SMTT(60), Z3T(60), ChunkAssumption DEF Chunk
          <5> QED
            BY SMTT(60), Z3T(60), <4>2, <5>1, <5>2
        <4>4. /\ Ended(s)' \in SUBSET (0 .. (TotalChunks[s] - 1))
              /\ Running(s)' \in SUBSET (0 .. (TotalChunks[s] - 1))
              /\ Ended(s)' \cap Running(s)' = {}
          BY Zenon, <2>2, <2>3, <4>3 DEF Running, Ended
        <4> QED
          BY Zenon, <4>1, <4>2, <4>4, NoneLeft
      <3>2. CASE ~ (/\ EncodeDone(s, c) /\ state[s] = "ACTIVE"
                    /\ completed[s] + 1 = TotalChunks[s])
        <4>1. DiscardIdle(s, state[s], inflight[s] - 1)
          BY Zenon, <1>6, <3>2 DEF EncodeDone, DrainDone
        <4>2. inSess' = inSess \/ (inflight[s] - 1 = 0 /\ inSess' = [inSess EXCEPT ![s] = FALSE])
          BY Zenon, <4>1, EndEffect
        <4>3. inflight[s] - 1 = 0 => Running(s)' = {}
          <5>1. Running(s)' \in SUBSET Chunk
            BY Zenon, <2>3, CountFacts
          <5>2. Cardinality(Running(s)') = 0 <=> Running(s)' = {}
            BY Zenon, <5>1, ChunkSets
          <5> QED
            BY Zenon, <1>0, <2>4, <5>2 DEF QuietOf
        <4> QED
          BY Zenon, <4>2, <4>3
      <3> QED
        BY Zenon, <3>1, <3>2
    <2>8. /\ inSess' \in [Session -> BOOLEAN] /\ (inSess'[s] => inSess[s])
          /\ Running(s)' # {} => inSess'[s]
          /\ \A z \in Session : z # s => inSess'[z] = inSess[z]
      <3>1. Running(s)' # {} => Running(s) # {}
        BY Zenon, <2>3
      <3> QED
        BY Zenon, <1>0, <2>7, <3>1 DEF QuietOf
    <2>9. QuietOf(s)'
      BY SMTT(60), Z3T(60), <1>0, <2>1, <2>3, <2>4, <2>5, <2>6, <2>8, CountFacts DEF QuietOf
    <2> QED
      BY Zenon, <1>0, <2>1, <2>3, <2>5, <2>6, <2>8, <2>9, QuietFrame
  <1>7. ASSUME \/ \E t \in Transfer : Engine(t) \/ Sweep(t)
               \/ \E s \in Session : Client(s)
               \/ UNCHANGED prodVars
        PROVE  UNCHANGED <<openPc, abortPc, pull, closed, inSess, completed, inflight>>
    BY Zenon, <1>7 DEF Engine, Publish, Announce, Drop, Sweep, Client, ClientOpen, ClientPull,
                ClientAbort, ClientRead, prodVars, slotVars, sessVars
  <1> QED
    BY Zenon, <1>1, <1>2, <1>3, <1>4, <1>5, <1>6, <1>7
    DEF ProdStep, Producer, ChunkTask, AbortTask

-----------------------------------------------------------------------------
\* The sender slots

\* Only the task that takes or puts back a slot changes who holds it.
LEMMA SlotStep ==
    ASSUME QueueInv, SlotInv, ProdStep
    PROVE  SlotInv'
  <1>0. /\ pull \in [Session -> [Chunk -> {"none", "slot", "job", "drain", "done"}]]
        /\ slotOf \in [Session -> [Chunk -> SenderSlot \cup {None}]]
        /\ free \in [SenderSlot -> {0, 1}] /\ None \notin SenderSlot
    BY Zenon, SessionAssumption DEF QueueInv, SlotInv
  <1>h. \A z \in Session, d \in Chunk :
           /\ slotOf[z][d] # None <=> pull[z][d] \in {"job", "drain"}
           /\ slotOf[z][d] # None => free[slotOf[z][d]] = 0
    BY Zenon DEF SlotInv
  <1>p. \A j \in SenderSlot : free[j] = 0 => \E z \in Session, d \in Chunk : slotOf[z][d] = j
    BY Zenon DEF SlotInv
  <1>1. ASSUME UNCHANGED <<pull, slotOf, free>>
        PROVE  SlotInv'
    BY SMTT(60), Z3T(60), <1>1 DEF SlotInv
  <1>2. ASSUME NEW s \in Session, NEW c \in Chunk, NEW v, SetPull(s, c, v),
               UNCHANGED <<slotOf, free>>, pull[s][c] \in {"job", "drain"} <=> v \in {"job", "drain"}
        PROVE  SlotInv'
    <2>1. \A z \in Session, d \in Chunk :
             pull'[z][d] \in {"job", "drain"} <=> pull[z][d] \in {"job", "drain"}
      BY Zenon, <1>0, <1>2 DEF SetPull
    <2> QED
      BY SMTT(60), Z3T(60), <1>2, <2>1 DEF SlotInv
  <1>3. ASSUME NEW s \in Session, DispatchPull(s) \/ RefusePull(s)
        PROVE  SlotInv'
    <2>1. Head(req[s]) \in Chunk /\ Asked(s, Head(req[s])) /\ UNCHANGED <<slotOf, free>>
          /\ \E v \in {"slot", "done"} : SetPull(s, Head(req[s]), v)
      BY Zenon, <1>3, Popped DEF DispatchPull, RefusePull
    <2>2. pull[s][Head(req[s])] = "none"
      BY Zenon, <2>1 DEF QueueInv, QueueOf
    <2> QED
      BY Zenon, <1>2, <2>1, <2>2
  <1>4. ASSUME NEW s \in Session, NEW c \in Chunk, NEW k \in SenderSlot, PullSlot(s, c, k)
        PROVE  SlotInv'
    <2>1. PICK v \in {"job", "drain"} : SetPull(s, c, v)
      BY Zenon, <1>4 DEF PullSlot
    <2>2. /\ pull[s][c] = "slot" /\ free[k] = 1 /\ slotOf[s][c] = None
          /\ free' = [free EXCEPT ![k] = 0] /\ slotOf' = [slotOf EXCEPT ![s][c] = k]
      <3>1. /\ pull[s][c] = "slot" /\ free[k] = 1 /\ free' = [free EXCEPT ![k] = @ - 1]
            /\ slotOf' = [slotOf EXCEPT ![s][c] = k]
        BY SMTT(60), Z3T(60), <1>0, <1>4 DEF PullSlot
      <3> QED
        BY SMTT(60), Z3T(60), <1>0, <1>h, <3>1
    <2>3. \A z \in Session, d \in Chunk :
             /\ pull'[z][d] = IF z = s /\ d = c THEN v ELSE pull[z][d]
             /\ slotOf'[z][d] = IF z = s /\ d = c THEN k ELSE slotOf[z][d]
      BY Zenon, <1>0, <2>1, <2>2 DEF SetPull
    <2>4. \A j \in SenderSlot : free'[j] = IF j = k THEN 0 ELSE free[j]
      BY Zenon, <1>0, <2>2
    <2>5. slotOf' \in [Session -> [Chunk -> SenderSlot \cup {None}]] /\ free' \in [SenderSlot -> {0, 1}]
      BY Zenon, <1>0, <2>2
    <2>6. \A z \in Session, d \in Chunk : slotOf[z][d] # k
      BY SMTT(60), Z3T(60), <1>0, <1>h, <2>2
    <2>7. ASSUME NEW z \in Session, NEW d \in Chunk
          PROVE  /\ slotOf'[z][d] # None <=> pull'[z][d] \in {"job", "drain"}
                 /\ slotOf'[z][d] # None => free'[slotOf'[z][d]] = 0
      BY SMTT(60), Z3T(60), <1>0, <2>3, <2>4 DEF SlotInv
    <2>8. ASSUME NEW z \in Session, NEW y \in Session, NEW d \in Chunk, NEW e \in Chunk,
                 slotOf'[z][d] # None, slotOf'[z][d] = slotOf'[y][e]
          PROVE  z = y /\ d = e
      BY SMTT(60), Z3T(60), <2>3, <2>6, <2>8 DEF SlotInv
    <2>9. ASSUME NEW j \in SenderSlot, free'[j] = 0
          PROVE  \E z \in Session, d \in Chunk : slotOf'[z][d] = j
      BY SMTT(60), Z3T(60), <1>0, <2>2, <2>3, <2>4, <2>9 DEF SlotInv
    <2> QED
      BY SMTT(60), Z3T(60), <2>5, <2>7, <2>8, <2>9 DEF SlotInv
  <1>5. ASSUME NEW s \in Session, NEW c \in Chunk, EncodeFailed(s, c)
        PROVE  SlotInv'
    BY Zenon, <1>2, <1>5 DEF EncodeFailed
  <1>6. ASSUME NEW s \in Session, NEW c \in Chunk, EncodeDone(s, c) \/ DrainDone(s, c)
        PROVE  SlotInv'
    <2>1. ReleaseSlot(s, c) /\ pull[s][c] \in {"job", "drain"}
      BY Zenon, <1>6 DEF EncodeDone, DrainDone
    <2>2. PICK k \in SenderSlot : k = slotOf[s][c] /\ free[k] = 0
      BY SMTT(60), Z3T(60), <1>0, <2>1 DEF SlotInv
    <2>3. /\ free' = [free EXCEPT ![k] = 1] /\ slotOf' = [slotOf EXCEPT ![s][c] = None]
          /\ SetPull(s, c, "done")
      BY SMTT(60), Z3T(60), <1>0, <2>1, <2>2 DEF ReleaseSlot
    <2>4. \A z \in Session, d \in Chunk :
             /\ pull'[z][d] = IF z = s /\ d = c THEN "done" ELSE pull[z][d]
             /\ slotOf'[z][d] = IF z = s /\ d = c THEN None ELSE slotOf[z][d]
      BY Zenon, <1>0, <2>3 DEF SetPull
    <2>5. \A j \in SenderSlot : free'[j] = IF j = k THEN 1 ELSE free[j]
      BY Zenon, <1>0, <2>3
    <2>6. slotOf' \in [Session -> [Chunk -> SenderSlot \cup {None}]] /\ free' \in [SenderSlot -> {0, 1}]
      BY Zenon, <1>0, <2>3
    <2>7. ASSUME NEW z \in Session, NEW d \in Chunk
          PROVE  /\ slotOf'[z][d] # None <=> pull'[z][d] \in {"job", "drain"}
                 /\ slotOf'[z][d] # None => free'[slotOf'[z][d]] = 0
      BY SMTT(60), Z3T(60), <1>0, <2>2, <2>4, <2>5 DEF SlotInv
    <2>8. ASSUME NEW z \in Session, NEW y \in Session, NEW d \in Chunk, NEW e \in Chunk,
                 slotOf'[z][d] # None, slotOf'[z][d] = slotOf'[y][e]
          PROVE  z = y /\ d = e
      BY SMTT(60), Z3T(60), <2>4, <2>8 DEF SlotInv
    <2>9. ASSUME NEW j \in SenderSlot, free'[j] = 0
          PROVE  \E z \in Session, d \in Chunk : slotOf'[z][d] = j
      <3>1. j # k /\ free[j] = 0 /\ j # None
        BY SMTT(60), Z3T(60), <1>0, <2>5, <2>9
      <3>2. PICK z \in Session, d \in Chunk : slotOf[z][d] = j
        BY Zenon, <1>p, <3>1
      <3>3. ~ (z = s /\ d = c)
        BY Zenon, <2>2, <3>1, <3>2
      <3> QED
        BY Zenon, <2>4, <3>2, <3>3
    <2> QED
      BY SMTT(60), Z3T(60), <2>6, <2>7, <2>8, <2>9 DEF SlotInv
  <1>7. ASSUME \/ \E t \in Transfer : Engine(t) \/ Sweep(t)
               \/ \E s \in Session : Client(s) \/ OpenTask(s) \/ AbortTask(s)
               \/ UNCHANGED prodVars
        PROVE  UNCHANGED <<pull, slotOf, free>>
    BY Zenon, <1>7 DEF Engine, Publish, Announce, Drop, Sweep, Client, ClientOpen, ClientPull,
                ClientAbort, ClientRead, OpenTask, DispatchOpen, OpenReady, OpenAbandon,
                OpenDone, OpenFailed, AbortTask, DispatchAbort, AbortDrained, AbortExpired,
                AbortAnswer, prodVars, slotVars
  <1> QED
    BY Zenon, <1>1, <1>3, <1>4, <1>5, <1>6, <1>7 DEF ProdStep, Producer, ChunkTask

-----------------------------------------------------------------------------
\* The block tables

\* Two sets that differ at most in x.
LEMMA OneElement ==
    ASSUME SetFacts, NEW S, NEW T, NEW x, IsFiniteSet(S), S \ {x} = T \ {x}
    PROVE  /\ IsFiniteSet(T) /\ Cardinality(S) \in Nat /\ Cardinality(T) \in Nat
           /\ (x \in S <=> x \in T) => T = S
           /\ x \notin S /\ x \in T => Cardinality(T) = Cardinality(S) + 1
           /\ x \in S /\ x \notin T => Cardinality(T) = Cardinality(S) - 1
  <1>0. Countable(S) /\ Cardinality(S) \in Nat
    BY Zenon DEF SetFacts, Countable
  <1>1. CASE x \in S <=> x \in T
    <2>1. T = S
      BY SMTT(60), Z3T(60), <1>1
    <2> QED
      BY Zenon, <1>0, <1>1, <2>1
  <1>2. CASE x \notin S /\ x \in T
    <2>1. T = S \cup {x}
      BY Zenon, <1>2
    <2>2. IsFiniteSet(T) /\ Cardinality(T) = Cardinality(S) + 1
      BY Zenon, <1>0, <1>2, <2>1 DEF Countable
    <2> QED
      BY SMTT(60), Z3T(60), <1>0, <1>2, <2>2
  <1>3. CASE x \in S /\ x \notin T
    <2>1. T = S \ {x}
      BY Zenon, <1>3
    <2>2. IsFiniteSet(T) /\ Cardinality(T) = Cardinality(S) - 1
      BY Zenon, <1>0, <1>3, <2>1 DEF Countable
    <2>3. Cardinality(T) \in Nat
      BY Zenon, <2>2 DEF SetFacts, Countable
    <2> QED
      BY Zenon, <1>0, <1>3, <2>2, <2>3
  <1> QED
    BY Zenon, <1>1, <1>2, <1>3

\* Block tables belong to a transfer, and None is not one of them.
LEMMA Objects ==
    /\ \A o \in Obj : TOf(o) \in Transfer
    /\ \A t \in Transfer : t \in Obj /\ TOf(t) = t
    /\ \A s \in Session : s \in Obj /\ TOf(s) = TransferOf[s] /\ TransferOf[s] \in Transfer
    /\ None \notin Obj
  BY Zenon, SessionAssumption DEF Obj, TOf

\* The sessions that claim an object, or are over with it, pull its transfer.
LEMMA TargetSets ==
    ASSUME SetFacts, LeaseInv, NEW o \in Obj
    PROVE  /\ Claims(o) \subseteq TargetsOf(TOf(o)) /\ Overs(o) \subseteq TargetsOf(TOf(o))
           /\ IsFiniteSet(TargetsOf(TOf(o))) /\ Cardinality(TargetsOf(TOf(o))) <= NeedSend
           /\ Cardinality(TargetsOf(TOf(o))) \in Nat
           /\ IsFiniteSet(Claims(o)) /\ IsFiniteSet(Overs(o))
           /\ Cardinality(Claims(o)) \in Nat /\ Cardinality(Overs(o)) \in Nat
           /\ Cardinality(Claims(o)) = 0 <=> Claims(o) = {}
  <1>1. Claims(o) \subseteq TargetsOf(TOf(o)) /\ Overs(o) \subseteq TargetsOf(TOf(o))
    BY SMTT(60), Z3T(60), Objects DEF LeaseInv, OpenOf, Claims, Overs, TargetsOf
  <1>2. IsFiniteSet(TargetsOf(TOf(o))) /\ Cardinality(TargetsOf(TOf(o))) <= NeedSend
    BY Zenon, TargetAssumption, Objects DEF TargetsOf
  <1>3. IsFiniteSet(Claims(o)) /\ IsFiniteSet(Overs(o))
    <2>1. Countable(TargetsOf(TOf(o)))
      BY Zenon, <1>2 DEF SetFacts
    <2> QED
      BY Zenon, <1>1, <2>1 DEF Countable
  <1>4. Countable(Claims(o)) /\ Countable(Overs(o)) /\ Countable(TargetsOf(TOf(o)))
    BY Zenon, <1>2, <1>3 DEF SetFacts
  <1>5. Cardinality(Claims(o)) \in Nat /\ (Cardinality(Claims(o)) = 0 <=> Claims(o) = {})
    BY Zenon, <1>4 DEF Countable
  <1>6. Cardinality(Overs(o)) \in Nat /\ Cardinality(TargetsOf(TOf(o))) \in Nat
    BY Zenon, <1>4 DEF Countable
  <1> QED
    BY Zenon, <1>1, <1>2, <1>3, <1>5, <1>6

\* A step of session s moves no other session between the sets of an object.
LEMMA SessionMoved ==
    ASSUME SetFacts, LeaseInv, NEW s \in Session, NEW o \in Obj,
           \A z \in Session : z # s =>
              openObj'[z] = openObj[z] /\ openPc'[z] = openPc[z] /\ inSess'[z] = inSess[z]
    PROVE  /\ (s \in Claims(o) <=> s \in Claims(o)') => Claims(o)' = Claims(o)
           /\ s \notin Claims(o) /\ s \in Claims(o)' =>
                 Cardinality(Claims(o)') = Cardinality(Claims(o)) + 1
           /\ s \in Claims(o) /\ s \notin Claims(o)' =>
                 Cardinality(Claims(o)') = Cardinality(Claims(o)) - 1
           /\ (s \in Overs(o) <=> s \in Overs(o)') => Overs(o)' = Overs(o)
           /\ s \notin Overs(o) /\ s \in Overs(o)' =>
                 Cardinality(Overs(o)') = Cardinality(Overs(o)) + 1
  <1>1. Claims(o) \ {s} = Claims(o)' \ {s}
    BY Zenon DEF Claims, Claiming
  <1>2. Overs(o) \ {s} = Overs(o)' \ {s}
    BY Zenon DEF Overs, Over
  <1>3. IsFiniteSet(Claims(o)) /\ IsFiniteSet(Overs(o))
    BY Zenon, TargetSets
  <1> QED
    BY Zenon, <1>1, <1>2, <1>3, OneElement

\* _finish_send_meta: the target that session s has claimed, or claims and gives
\* up in one step, is done.
LEMMA FinishStep ==
    ASSUME SetFacts, LeaseInv, NEW s \in Session, NEW snd,
           \/ Claiming(s) /\ snd = sending
           \/ /\ Waiting(s) /\ ready[openObj[s]]
              /\ snd = [sending EXCEPT ![openObj[s]] = @ + 1],
           FinishSendMeta(openObj[s], snd, NeedSend),
           need' = [need EXCEPT ![openObj[s]] = NeedSend],
           openPc' = [openPc EXCEPT ![s] = "done"], inSess' = [inSess EXCEPT ![s] = FALSE],
           UNCHANGED <<eng, ready, openObj>>
    PROVE  LeaseInv'
  <1> DEFINE o == openObj[s]
             t == TOf(o)
  <1>0. LeaseType /\ OpenOf(s)
    BY Zenon DEF LeaseInv
  <1>1. /\ o \in Obj /\ ready[o] /\ t \in Transfer /\ t = TransferOf[s] /\ o # None
        /\ openPc[s] # "none" /\ ~ Over(s)
    BY SMTT(60), Z3T(60), <1>0, Objects DEF LeaseType, OpenOf, Claiming, Waiting, Over
  <1>2. finals[t] = 0 /\ meta[t] = o /\ eng[t] = "announced"
    <2>1. ReadyOf(o)
      BY ZenonT(60), <1>1 DEF LeaseInv
    <2>2. finals[t] # 1
      BY ZenonT(60), <1>1, <2>1 DEF ReadyOf, Claims, Waiting
    <2> QED
      BY Zenon, <1>0, <1>1, <2>1, <2>2 DEF ReadyOf, LeaseType
  <1>3. /\ sending' \in [Obj -> Int] /\ sent' \in [Obj -> Nat] /\ need' \in [Obj -> {0, NeedSend}]
        /\ \A p \in Obj : p # o => sending'[p] = sending[p] /\ sent'[p] = sent[p] /\ need'[p] = need[p]
        /\ sending'[o] = IF Claiming(s) THEN sending[o] - 1 ELSE sending[o]
        /\ sent'[o] = sent[o] + 1 /\ need'[o] = NeedSend
    <2>1. snd \in [Obj -> Int]
      BY SMTT(60), Z3T(60), <1>0, <1>1 DEF LeaseType
    <2>2. sending' = [snd EXCEPT ![o] = @ - 1] /\ sent' = [sent EXCEPT ![o] = @ + 1]
      BY Zenon DEF FinishSendMeta
    <2>3. Waiting(s) => ~ Claiming(s)
      BY Zenon, <1>0 DEF OpenOf, Waiting, Claiming
    <2>4. CASE Claiming(s)
      BY SMTT(60), Z3T(60), <1>0, <1>1, <2>2, <2>3, <2>4 DEF LeaseType
    <2>5. CASE ~ Claiming(s)
      BY SMTT(60), Z3T(60), <1>0, <1>1, <2>2, <2>5 DEF LeaseType
    <2> QED
      BY Zenon, <2>4, <2>5
  <1>4. /\ openPc' \in [Session -> {"none", "wait", "job", "done"}] /\ openPc'[s] = "done"
        /\ inSess' \in [Session -> BOOLEAN] /\ ~ inSess'[s]
        /\ \A z \in Session : z # s => openPc'[z] = openPc[z] /\ inSess'[z] = inSess[z]
    BY Zenon, <1>0 DEF LeaseType
  <1>5. \A p \in Obj : /\ p # o => Claims(p)' = Claims(p) /\ Overs(p)' = Overs(p)
                       /\ s \notin Claims(p)'
    <2>1. ASSUME NEW p \in Obj PROVE s \notin Claims(p)'
      BY Zenon, <1>4 DEF Claims, Claiming
    <2>2. ASSUME NEW p \in Obj, p # o
          PROVE  Claims(p)' = Claims(p) /\ Overs(p)' = Overs(p)
      <3>1. s \notin Claims(p) /\ s \notin Claims(p)' /\ s \notin Overs(p) /\ s \notin Overs(p)'
        BY Zenon, <2>2 DEF Claims, Overs
      <3> QED
        BY ZenonT(60), <1>4, <3>1, SessionMoved
    <2> QED
      BY Zenon, <2>1, <2>2
  <1>6. s \notin Overs(o) /\ s \in Overs(o)' /\ (s \in Claims(o) <=> Claiming(s))
    BY Zenon, <1>1, <1>4 DEF Claims, Overs, Over
  <1>7. /\ Cardinality(Claims(o)') = Cardinality(Claims(o)) - (IF Claiming(s) THEN 1 ELSE 0)
        /\ Cardinality(Overs(o)') = Cardinality(Overs(o)) + 1
    <2>1. s \notin Claims(o)'
      BY Zenon, <1>1, <1>5
    <2>2. /\ (s \in Claims(o) <=> s \in Claims(o)') => Claims(o)' = Claims(o)
          /\ s \in Claims(o) /\ s \notin Claims(o)' =>
                 Cardinality(Claims(o)') = Cardinality(Claims(o)) - 1
          /\ s \notin Overs(o) /\ s \in Overs(o)' =>
                 Cardinality(Overs(o)') = Cardinality(Overs(o)) + 1
      BY ZenonT(60), <1>1, <1>4, SessionMoved
    <2>3. Cardinality(Claims(o)) \in Nat
      BY ZenonT(60), <1>1, TargetSets
    <2> QED
      BY SMTT(60), Z3T(60), <1>6, <2>1, <2>2, <2>3
  <1>8. ASSUME NEW p \in Obj PROVE CountOf(p)'
    <2>1. CountOf(p) /\ Cardinality(Claims(p)) \in Nat /\ Cardinality(Overs(p)) \in Nat
      BY Zenon, TargetSets DEF LeaseInv
    <2>2. CASE p = o
      <3>1. /\ sending[o] = Cardinality(Claims(o)) /\ sent[o] <= Cardinality(Overs(o))
            /\ Cardinality(Claims(o)) \in Nat /\ Cardinality(Overs(o)) \in Nat /\ sent[o] \in Nat
        BY Zenon, <1>0, <1>1, <2>1, <2>2 DEF CountOf, LeaseType
      <3>2. /\ sending'[o] = IF Claiming(s) THEN sending[o] - 1 ELSE sending[o]
            /\ sent'[o] = sent[o] + 1
        BY Zenon, <1>3
      <3>3. sending'[o] = Cardinality(Claims(o)') /\ sent'[o] <= Cardinality(Overs(o)')
        BY ONLY SMT, <1>7, <3>1, <3>2
      <3> QED
        BY Zenon, <2>2, <3>3 DEF CountOf
    <2>3. CASE p # o
      BY Zenon, <1>3, <1>5, <2>1, <2>3 DEF CountOf
    <2> QED
      BY ZenonT(60), <2>2, <2>3
  \* The last of the targets: every session of the transfer is over with o.
  <1>9. ASSUME sent[o] + 1 = NeedSend
        PROVE  Claims(o)' = {} /\ \A z \in Session : Waiting(z)' => openObj[z] # o
    <2>1. Overs(o)' \subseteq TargetsOf(t)
      BY ZenonT(60), <1>1, <1>4, TargetSets DEF Overs, Over, TargetsOf
    <2>2. IsFiniteSet(TargetsOf(t)) /\ Cardinality(TargetsOf(t)) <= NeedSend
          /\ Cardinality(TargetsOf(t)) \in Nat /\ Cardinality(Overs(o)) \in Nat
      BY ZenonT(60), <1>1, TargetSets
    <2>3. CountOf(o) /\ sent[o] \in Nat
      BY Zenon, <1>0, <1>1 DEF LeaseInv, LeaseType
    <2>4. Cardinality(TargetsOf(t)) <= Cardinality(Overs(o)')
      BY SMTT(60), Z3T(60), <1>7, <1>9, <2>2, <2>3, NeedSendAssumption DEF CountOf
    <2>5. Overs(o)' = TargetsOf(t)
      <3>1. Cardinality(Overs(o)') <= Cardinality(TargetsOf(t)) /\ Cardinality(Overs(o)') \in Nat
            /\ (Cardinality(Overs(o)') = Cardinality(TargetsOf(t)) => Overs(o)' = TargetsOf(t))
        <4>1. Countable(TargetsOf(t))
          BY Zenon, <2>2 DEF SetFacts
        <4>2. IsFiniteSet(Overs(o)') /\ Cardinality(Overs(o)') <= Cardinality(TargetsOf(t))
              /\ (Cardinality(Overs(o)') = Cardinality(TargetsOf(t)) => Overs(o)' = TargetsOf(t))
          BY Zenon, <2>1, <4>1 DEF Countable
        <4> QED
          BY Zenon, <4>2 DEF SetFacts, Countable
      <3> QED
        BY SMTT(60), Z3T(60), <2>2, <2>4, <3>1
    <2>6. ASSUME NEW z \in Session, openObj[z] = o PROVE Over(z)'
      <3>1. z \in TargetsOf(t)
        BY SMTT(60), Z3T(60), <1>1, <2>6 DEF LeaseInv, OpenOf, TargetsOf
      <3> QED
        BY ZenonT(60), <2>5, <3>1 DEF Overs
    <2>7. ASSUME NEW z \in Session, Over(z)' PROVE ~ Waiting(z)' /\ ~ Claiming(z)'
      BY Zenon, <2>7 DEF Over, Waiting, Claiming
    <2> QED
      BY ZenonT(60), <2>6, <2>7 DEF Claims
  <1>10. /\ meta' = [meta EXCEPT ![t] = IF sent[o] + 1 = NeedSend THEN None ELSE o]
         /\ finals' = [finals EXCEPT ![t] = IF sent[o] + 1 = NeedSend THEN 1 ELSE 0]
    BY SMTT(60), Z3T(60), <1>0, <1>1, <1>2 DEF FinishSendMeta, LeaseType
  <1>11. ASSUME NEW p \in Obj PROVE ReadyOf(p)'
    <2> SUFFICES ASSUME ready[p] PROVE ReadyOf(p)'
      BY Zenon DEF ReadyOf
    <2>1. ReadyOf(p) /\ TOf(p) \in Transfer
      BY ZenonT(60), Objects DEF LeaseInv
    <2>2. CASE TOf(p) = t
      <3>1. p = o
        BY Zenon, <1>1, <2>1, <2>2 DEF ReadyOf
      <3>2. meta'[t] = (IF sent[o] + 1 = NeedSend THEN None ELSE o)
            /\ finals'[t] = (IF sent[o] + 1 = NeedSend THEN 1 ELSE 0)
        BY ZenonT(60), <1>0, <1>1, <1>10 DEF LeaseType
      <3> QED
        <4>0. 0 # 1
          BY ONLY SMT
        <4>1. CASE sent[o] + 1 = NeedSend
          BY Zenon, <1>1, <1>9, <2>1, <3>1, <3>2, <4>0, <4>1 DEF ReadyOf
        <4>2. CASE sent[o] + 1 # NeedSend
          BY Zenon, <1>1, <2>1, <3>1, <3>2, <4>0, <4>2 DEF ReadyOf
        <4> QED
          BY Zenon, <4>1, <4>2
    <2>3. CASE TOf(p) # t
      <3>1. p # o /\ meta'[TOf(p)] = meta[TOf(p)] /\ finals'[TOf(p)] = finals[TOf(p)]
        BY ZenonT(60), <1>0, <1>1, <1>10, <2>1, <2>3 DEF LeaseType
      <3>2. Claims(p)' = Claims(p)
        BY ZenonT(60), <1>5, <3>1
      <3>3. \A z \in Session : Waiting(z)' => Waiting(z)
        BY Zenon, <1>4 DEF Waiting
      <3> QED
        BY ZenonT(60), <2>1, <3>1, <3>2, <3>3 DEF ReadyOf
    <2> QED
      BY Zenon, <2>2, <2>3
  <1>12. ASSUME NEW z \in Session PROVE OpenOf(z)'
    <2>1. OpenOf(z) /\ openObj[z] \in Obj \cup {None} /\ TransferOf[z] \in Transfer /\ z # None
      BY ZenonT(60), <1>0, Objects DEF LeaseInv, LeaseType
    <2>2. CASE z = s
      BY Zenon, <1>1, <1>4, <2>1, <2>2 DEF OpenOf, Claiming
    <2>3. CASE z # s
      <3>1. meta'[TransferOf[z]] \in {meta[TransferOf[z]], None}
        BY ZenonT(60), <1>0, <1>1, <1>2, <1>10, <2>1 DEF LeaseType
      <3>2. openObj[z] # None => need'[openObj[z]] \in {need[openObj[z]], NeedSend}
        BY Zenon, <1>3, <2>1
      <3>3. openPc'[z] = openPc[z] /\ inSess'[z] = inSess[z] /\ (Claiming(z)' <=> Claiming(z))
        BY Zenon, <1>4, <2>3 DEF Claiming
      <3>4. Claiming(z) => openObj[z] # None
        BY Zenon, <2>1 DEF OpenOf, Claiming
      <3> QED
        BY ZenonT(60), <2>1, <3>1, <3>2, <3>3, <3>4 DEF OpenOf
    <2> QED
      BY Zenon, <2>2, <2>3
  <1>13. ASSUME NEW u \in Transfer PROVE TableOf(u)'
    <2>1. TableOf(u) /\ TableOf(t)
      BY ZenonT(60), <1>1 DEF LeaseInv
    <2>2. meta'[u] \in {meta[u], None} /\ (u # t => finals'[u] = finals[u])
      BY ZenonT(60), <1>0, <1>1, <1>2, <1>10 DEF LeaseType
    <2> QED
      BY ZenonT(60), <1>1, <1>2, <2>1, <2>2 DEF TableOf
  <1>14. LeaseType'
    BY Zenon, <1>0, <1>1, <1>3, <1>4, <1>10 DEF LeaseType
  <1> QED
    BY Zenon, <1>8, <1>11, <1>12, <1>13, <1>14 DEF LeaseInv

\* _apply_producer_metadata and _sweep_sends: the engine's metadata lands in an
\* object of the transfer, and a sweep takes an object that nobody uses.
LEMMA EngineStep ==
    ASSUME SetFacts, LeaseInv, NEW t \in Transfer, Engine(t) \/ Sweep(t)
    PROVE  LeaseInv'
  <1> DEFINE m == MetaObj(t)
  <1>0. LeaseType /\ TableOf(t) /\ meta[t] \in Obj \cup {None}
    BY Zenon DEF LeaseInv, LeaseType
  <1>1. UNCHANGED <<need, sent, sending, openObj, openPc, inSess>>
    BY ZenonT(60) DEF Engine, Publish, Announce, Drop, Sweep, sessVars
  <1>2. /\ \A o \in Obj : Claims(o)' = Claims(o) /\ CountOf(o)'
        /\ \A z \in Session : (Claiming(z)' <=> Claiming(z)) /\ (Waiting(z)' <=> Waiting(z))
    BY Zenon, <1>1 DEF LeaseInv, CountOf, Claims, Overs, Over, Claiming, Waiting
  <1>3. \A p \in Obj : ready[p] /\ TOf(p) = t => eng[t] = "announced"
    BY Zenon DEF LeaseInv, ReadyOf
  <1>4. m \in Obj /\ m # None /\ TOf(m) = t /\ (meta[t] # None => m = meta[t])
        /\ (meta[t] = None => m = t)
    BY Zenon, <1>0, Objects DEF MetaObj, TableOf
  <1>5. \A z \in Session : z # t /\ TransferOf[z] \in Transfer /\ z \in Obj /\ TOf(z) = TransferOf[z]
    BY Zenon, Objects, SessionAssumption
  <1> HIDE DEF m
  <1>6. CASE Publish(t) \/ Drop(t)
    <2>1. PICK x \in {m, None} : meta' = [meta EXCEPT ![t] = x]
      BY Zenon, <1>6 DEF Publish, Drop, m
    <2>2. PICK v \in {"published", "dropped"} : eng' = [eng EXCEPT ![t] = v]
      BY Zenon, <1>6 DEF Publish, Drop
    <2>3. UNCHANGED <<finals, ready>> /\ eng[t] # "announced"
      BY Zenon, <1>6 DEF Publish, Drop
    <2>4. LeaseType'
      BY Zenon, <1>0, <1>1, <1>4, <2>1, <2>2, <2>3 DEF LeaseType
    <2>5. \A u \in Transfer : /\ u # t => meta'[u] = meta[u] /\ eng'[u] = eng[u]
                              /\ meta'[t] = x
      BY Zenon, <1>0, <2>1, <2>2 DEF LeaseType
    <2>6. ASSUME NEW u \in Transfer PROVE TableOf(u)'
      <3>1. TableOf(u)
        BY Zenon DEF LeaseInv
      <3>2. CASE u = t
        BY Zenon, <1>0, <1>4, <2>3, <2>5, <3>1, <3>2 DEF TableOf
      <3>3. CASE u # t
        BY ZenonT(60), <2>3, <2>5, <3>1, <3>3 DEF TableOf
      <3> QED
        BY Zenon, <3>2, <3>3
    <2>7. ASSUME NEW z \in Session PROVE OpenOf(z)'
      <3>1. OpenOf(z)
        BY Zenon DEF LeaseInv
      <3>2. meta[TransferOf[z]] # z => meta'[TransferOf[z]] # z
        BY SMTT(60), Z3T(60), <1>4, <1>5, <2>5, SessionAssumption
      <3> QED
        BY Zenon, <1>1, <1>2, <2>3, <3>1, <3>2 DEF OpenOf
    <2>8. ASSUME NEW p \in Obj PROVE ReadyOf(p)'
      <3>1. ReadyOf(p) /\ TOf(p) \in Transfer
        BY Zenon, Objects DEF LeaseInv
      <3>2. ready[p] => TOf(p) # t
        BY Zenon, <1>3, <2>3
      <3> QED
        BY Zenon, <1>1, <1>2, <2>3, <2>5, <3>1, <3>2 DEF ReadyOf
    <2> QED
      BY Zenon, <1>2, <2>4, <2>6, <2>7, <2>8 DEF LeaseInv
  <1>7. CASE Announce(t)
    <2>1. /\ meta' = [meta EXCEPT ![t] = m] /\ ready' = [ready EXCEPT ![m] = TRUE]
          /\ eng' = [eng EXCEPT ![t] = "announced"] /\ UNCHANGED finals /\ eng[t] # "announced"
      BY Zenon, <1>7 DEF Announce, m
    <2>2. LeaseType'
      BY Zenon, <1>0, <1>1, <1>4, <2>1 DEF LeaseType
    <2>3. /\ \A u \in Transfer : u # t => meta'[u] = meta[u] /\ eng'[u] = eng[u]
          /\ meta'[t] = m /\ eng'[t] = "announced" /\ finals[t] = 0
          /\ \A p \in Obj : ready'[p] <=> (p = m \/ ready[p])
      BY Zenon, <1>0, <1>4, <2>1 DEF LeaseType, TableOf
    <2>4. ASSUME NEW u \in Transfer PROVE TableOf(u)'
      BY ZenonT(60), <1>4, <2>1, <2>3 DEF LeaseInv, TableOf
    <2>5. ASSUME NEW z \in Session PROVE OpenOf(z)'
      <3>1. OpenOf(z) /\ (openObj[z] # None => openObj[z] \in Obj)
        BY Zenon, <1>0 DEF LeaseInv, LeaseType
      <3>2. meta[TransferOf[z]] # z => meta'[TransferOf[z]] # z /\ z # m
        BY SMTT(60), Z3T(60), <1>4, <1>5, <2>3, SessionAssumption
      <3>3. Claiming(z) => openObj[z] # None
        BY Zenon, <3>1 DEF OpenOf, Claiming
      <3>4. Claiming(z) => ready'[openObj[z]]
        BY ZenonT(60), <2>3, <3>1, <3>3 DEF OpenOf
      <3>5. openPc[z] = "none" => ~ ready'[z]
        BY Zenon, <1>5, <2>3, <3>1, <3>2 DEF OpenOf
      <3> QED
        BY ZenonT(60), <1>1, <1>2, <3>1, <3>2, <3>4, <3>5 DEF OpenOf
    <2>6. ASSUME NEW p \in Obj PROVE ReadyOf(p)'
      <3>1. ReadyOf(p) /\ TOf(p) \in Transfer
        BY Zenon, Objects DEF LeaseInv
      <3>2. \A q \in Obj : ready[q] => TOf(q) # t
        BY Zenon, <1>3, <2>1
      <3>3. CASE p = m
        BY SMTT(60), Z3T(60), <1>4, <2>1, <2>3, <3>2, <3>3 DEF ReadyOf
      <3>4. CASE p # m
        BY Zenon, <1>1, <1>2, <1>4, <2>1, <2>3, <3>1, <3>2, <3>4 DEF ReadyOf
      <3> QED
        BY Zenon, <3>3, <3>4
    <2> QED
      BY Zenon, <1>2, <2>2, <2>4, <2>5, <2>6 DEF LeaseInv
  <1>8. CASE Sweep(t)
    <2>1. /\ meta[t] # None /\ ready[meta[t]] /\ sending[meta[t]] = 0
          /\ \A s \in Session : Waiting(s) => openObj[s] # meta[t]
          /\ meta' = [meta EXCEPT ![t] = None] /\ finals' = [finals EXCEPT ![t] = @ + 1]
          /\ UNCHANGED <<eng, ready>>
      BY Zenon, <1>8 DEF Sweep, Waiting
    <2>2. m = meta[t] /\ ready[m] /\ ReadyOf(m) /\ CountOf(m)
      BY Zenon, <1>4, <2>1 DEF LeaseInv
    <2>3. finals[t] = 0 /\ eng[t] = "announced" /\ Claims(m) = {}
      <3>1. Claims(m) = {}
        BY Zenon, <1>4, <2>1, <2>2, TargetSets DEF CountOf
      <3> QED
        BY Zenon, <1>0, <1>4, <2>2, <3>1 DEF ReadyOf, LeaseType
    <2>4. /\ \A u \in Transfer : u # t => meta'[u] = meta[u] /\ finals'[u] = finals[u]
          /\ meta'[t] = None /\ finals'[t] = 1
      BY SMTT(60), Z3T(60), <1>0, <2>1, <2>3 DEF LeaseType
    <2>5. LeaseType'
      BY SMTT(60), Z3T(60), <1>0, <1>1, <2>1, <2>3 DEF LeaseType
    <2>6. ASSUME NEW u \in Transfer PROVE TableOf(u)'
      BY ZenonT(60), <2>1, <2>3, <2>4 DEF LeaseInv, TableOf
    <2>7. ASSUME NEW z \in Session PROVE OpenOf(z)'
      <3>1. OpenOf(z)
        BY Zenon DEF LeaseInv
      <3>2. z # None /\ (meta[TransferOf[z]] # z => meta'[TransferOf[z]] # z)
        BY Zenon, <1>5, <2>4, Objects
      <3> QED
        BY Zenon, <1>1, <1>2, <2>1, <3>1, <3>2 DEF OpenOf
    <2>8. ASSUME NEW p \in Obj PROVE ReadyOf(p)'
      <3>1. ReadyOf(p) /\ TOf(p) \in Transfer
        BY Zenon, Objects DEF LeaseInv
      <3>2. CASE TOf(p) = t
        <4>1. ready[p] => p = m
          BY Zenon, <1>4, <2>2, <3>2 DEF ReadyOf
        <4> QED
          <5>0. 1 # 0
            BY ONLY SMT
          <5>1. CASE ready[p]
            BY Zenon, <1>1, <1>2, <1>4, <2>1, <2>2, <2>3, <2>4, <3>1, <3>2, <4>1, <5>0, <5>1 DEF ReadyOf
          <5>2. CASE ~ ready[p]
            BY Zenon, <2>1, <5>2 DEF ReadyOf
          <5> QED
            BY Zenon, <5>1, <5>2
      <3>3. CASE TOf(p) # t
        BY Zenon, <1>1, <1>2, <2>1, <2>4, <3>1, <3>3 DEF ReadyOf
      <3> QED
        BY Zenon, <3>2, <3>3
    <2> QED
      BY Zenon, <1>2, <2>5, <2>6, <2>7, <2>8 DEF LeaseInv
  <1> QED
    BY Zenon, <1>6, <1>7, <1>8 DEF Engine

\* Steps that leave the tables and the sessions alone.
LEMMA LeaseKept ==
    ASSUME LeaseInv, UNCHANGED <<eng, ready, need, openObj, openPc>>,
           UNCHANGED <<inSess, sending, sent, meta, finals>>
    PROVE  LeaseInv'
  <1>1. LeaseType'
    BY Zenon DEF LeaseInv, LeaseType
  <1>2. ASSUME NEW u \in Transfer PROVE TableOf(u)'
    BY ZenonT(60) DEF LeaseInv, TableOf
  <1>3. ASSUME NEW z \in Session PROVE OpenOf(z)'
    BY Zenon DEF LeaseInv, OpenOf, Claiming
  <1>4. \A o \in Obj : Claims(o)' = Claims(o) /\ Overs(o)' = Overs(o)
    BY Zenon DEF Claims, Overs, Over, Claiming
  <1>5. ASSUME NEW o \in Obj PROVE CountOf(o)' /\ ReadyOf(o)'
    BY ZenonT(60), <1>4 DEF LeaseInv, CountOf, ReadyOf, Waiting
  <1> QED
    BY Zenon, <1>1, <1>2, <1>3, <1>5 DEF LeaseInv

\* _complete_producer_session and _discard_producer_session
Ends(s) ==
    /\ UNCHANGED <<eng, ready, need, openObj, openPc>>
    /\ \/ EndSession(s)
       \/ \E st, n : DiscardIdle(s, st, n)
       \/ UNCHANGED <<inSess, sending, sent, meta, finals>>

\* _finish_one_target at the end of a session: it gives up its claim once.
LEMMA EndStep ==
    ASSUME SetFacts, LeaseInv, NEW s \in Session, Ends(s)
    PROVE  LeaseInv'
  <1>0. UNCHANGED <<eng, ready, need, openObj, openPc>>
    BY Zenon DEF Ends
  <1>1. CASE UNCHANGED <<inSess, sending, sent, meta, finals>>
    BY Zenon, <1>0, <1>1, LeaseKept
  <1>2. CASE ~ UNCHANGED <<inSess, sending, sent, meta, finals>>
    <2>1. EndSession(s) /\ inSess[s]
      BY Zenon, <1>2 DEF Ends, DiscardIdle, EndSession
    <2>2. /\ inSess' = [inSess EXCEPT ![s] = FALSE] /\ Claiming(s)
          /\ FinishSendMeta(openObj[s], sending, need[openObj[s]])
      BY Zenon, <2>1 DEF EndSession, Claiming
    <2>3. LeaseType /\ need[openObj[s]] = NeedSend /\ openPc[s] = "done" /\ openObj[s] \in Obj
      BY Zenon, <2>1, <2>2 DEF LeaseInv, LeaseType, OpenOf
    <2>4. /\ need' = [need EXCEPT ![openObj[s]] = NeedSend]
          /\ openPc' = [openPc EXCEPT ![s] = "done"]
      BY Zenon, <1>0, <2>3 DEF LeaseType
    <2> QED
      BY ZenonT(60), <1>0, <2>2, <2>3, <2>4, FinishStep
  <1> QED
    BY Zenon, <1>1, <1>2

\* _open_producer_session
LEMMA OpenStep ==
    ASSUME SetFacts, QueueInv, LeaseInv, NEW s \in Session, OpenTask(s)
    PROVE  LeaseInv'
  <1> DEFINE o == openObj[s]
             t == TransferOf[s]
  <1>0. /\ LeaseType /\ OpenOf(s) /\ t \in Transfer /\ s \in Obj /\ TOf(s) = t /\ s # None
        /\ o \in Obj \cup {None} /\ None \notin Obj
    BY Zenon, Objects DEF LeaseInv, LeaseType
  <1>1. CASE DispatchOpen(s)
    <2> DEFINE n == IF meta[t] = None THEN s ELSE meta[t]
    <2>1. openPc[s] = "none"
      <3>1. Asked(s, OpenReq)
        BY ZenonT(60), <1>1, Popped DEF DispatchOpen
      <3> QED
        BY Zenon, <3>1 DEF QueueInv, QueueOf
    <2>2. /\ meta' = [meta EXCEPT ![t] = n] /\ openObj' = [openObj EXCEPT ![s] = n]
          /\ openPc' = [openPc EXCEPT ![s] = "wait"]
          /\ UNCHANGED <<eng, finals, ready, need, sent, sending, inSess>>
      BY ZenonT(60), <1>1 DEF DispatchOpen, engVars, sessVars
    <2>3. n \in Obj /\ n # None /\ TOf(n) = t /\ (meta[t] # None => n = meta[t])
          /\ (meta[t] = None => n = s)
      BY ZenonT(60), <1>0 DEF LeaseInv, LeaseType, TableOf
    <2> HIDE DEF n
    <2>4. LeaseType'
      BY Zenon, <1>0, <2>2, <2>3 DEF LeaseType
    <2>5. /\ \A u \in Transfer : u # t => meta'[u] = meta[u]
          /\ meta'[t] = n /\ openObj'[s] = n /\ openPc'[s] = "wait" /\ ~ inSess[s] /\ ~ ready[s]
          /\ \A z \in Session : z # s => openObj'[z] = openObj[z] /\ openPc'[z] = openPc[z]
      BY Zenon, <1>0, <2>1, <2>2 DEF LeaseType, OpenOf
    <2>6. \A p \in Obj : Claims(p)' = Claims(p) /\ Overs(p)' = Overs(p)
      BY ZenonT(60), <2>1, <2>2, <2>5 DEF Claims, Overs, Claiming, Over
    <2>7. ASSUME NEW u \in Transfer PROVE TableOf(u)'
      BY Zenon, <2>2, <2>3, <2>5 DEF LeaseInv, TableOf
    <2>8. ASSUME NEW z \in Session PROVE OpenOf(z)'
      <3>1. CASE z = s
        BY ZenonT(60), <2>2, <2>3, <2>5, <3>1 DEF OpenOf, Claiming
      <3>2. CASE z # s
        <4>1. OpenOf(z) /\ TransferOf[z] \in Transfer
          BY Zenon, Objects DEF LeaseInv
        <4>2. meta[TransferOf[z]] # z => meta'[TransferOf[z]] # z
          BY Zenon, <2>3, <2>5, <3>2, <4>1
        <4> QED
          BY ZenonT(60), <2>2, <2>5, <3>2, <4>1, <4>2 DEF OpenOf, Claiming
      <3> QED
        BY Zenon, <3>1, <3>2
    <2>9. ASSUME NEW p \in Obj PROVE ReadyOf(p)'
      <3>1. ReadyOf(p) /\ TOf(p) \in Transfer /\ finals[TOf(p)] \in {0, 1}
        BY ZenonT(60), <1>0, Objects DEF LeaseInv, LeaseType
      <3>2. CASE TOf(p) = t /\ ready[p]
        <4>1. finals[t] = 0 => meta[t] = p /\ n = p
          BY ZenonT(60), <2>3, <3>1, <3>2, <1>0 DEF ReadyOf
        <4>2. finals[t] = 1 => n # p
          BY ZenonT(60), <2>3, <2>5, <3>1, <3>2 DEF ReadyOf
        <4>3. finals[t] = 1 => \A z \in Session : Waiting(z)' => openObj'[z] # p
          BY ZenonT(60), <2>5, <3>1, <3>2, <4>2 DEF ReadyOf, Waiting
        <4> QED
          BY ZenonT(60), <2>2, <2>5, <2>6, <3>1, <3>2, <4>1, <4>2, <4>3 DEF ReadyOf
      <3>3. CASE TOf(p) # t /\ ready[p]
        <4>1. n # p
          BY Zenon, <2>3, <3>3
        <4>2. finals[TOf(p)] = 1 => \A z \in Session : Waiting(z)' => openObj'[z] # p
          BY ZenonT(60), <2>5, <3>1, <3>3, <4>1 DEF ReadyOf, Waiting
        <4> QED
          BY Zenon, <2>2, <2>5, <2>6, <3>1, <3>3, <4>2 DEF ReadyOf
      <3> QED
        BY ZenonT(60), <2>2, <3>2, <3>3 DEF ReadyOf
    <2>10. ASSUME NEW p \in Obj PROVE CountOf(p)'
      BY ZenonT(60), <2>2, <2>6 DEF LeaseInv, CountOf
    <2> QED
      BY Zenon, <2>4, <2>7, <2>8, <2>9, <2>10 DEF LeaseInv
  \* The session that waits claims a target, or drops out of an object that is
  \* not announced.
  <1>2. CASE OpenReady(s) /\ closed[s]
    <2>1. /\ Waiting(s) /\ ready[o] /\ o \in Obj /\ need[o] \in {0, NeedSend} /\ ~ inSess[s]
      BY Zenon, <1>0, <1>2 DEF OpenReady, Waiting, OpenOf, LeaseType
    <2>2. (IF need[o] = 0 THEN NeedSend ELSE need[o]) = NeedSend
      BY Zenon, <2>1
    <2>3. /\ openPc' = [openPc EXCEPT ![s] = "done"] /\ UNCHANGED <<eng, ready, openObj, inSess>>
          /\ need' = [need EXCEPT ![o] = NeedSend]
          /\ FinishSendMeta(o, [sending EXCEPT ![o] = @ + 1], NeedSend)
      BY Zenon, <1>2, <2>2 DEF OpenReady, sessVars
    <2>4. inSess' = [inSess EXCEPT ![s] = FALSE]
      BY Zenon, <1>0, <2>1, <2>3 DEF LeaseType
    <2> QED
      BY ZenonT(60), <2>1, <2>3, <2>4, FinishStep
  <1>3. CASE OpenReady(s) /\ ~ closed[s]
    <2>1. /\ Waiting(s) /\ ready[o] /\ o \in Obj /\ need[o] \in {0, NeedSend} /\ ~ inSess[s]
          /\ openPc[s] = "wait" /\ TOf(o) = t
      BY Zenon, <1>0, <1>3 DEF OpenReady, Waiting, OpenOf, LeaseType
    <2>2. (IF need[o] = 0 THEN NeedSend ELSE need[o]) = NeedSend
      BY Zenon, <2>1
    <2>3. /\ openPc' = [openPc EXCEPT ![s] = "job"]
          /\ need' = [need EXCEPT ![o] = NeedSend] /\ sending' = [sending EXCEPT ![o] = @ + 1]
          /\ UNCHANGED <<eng, ready, openObj, inSess, sent, meta, finals>>
      BY Zenon, <1>3, <2>2 DEF OpenReady, sessVars
    <2>4. LeaseType'
      BY SMTT(60), Z3T(60), <1>0, <2>1, <2>3 DEF LeaseType
    <2>5. /\ openPc'[s] = "job" /\ \A z \in Session : z # s => openPc'[z] = openPc[z]
          /\ \A p \in Obj : p # o => need'[p] = need[p] /\ sending'[p] = sending[p]
          /\ need'[o] = NeedSend /\ sending'[o] = sending[o] + 1 /\ sending[o] \in Int
      BY Zenon, <1>0, <2>1, <2>3 DEF LeaseType
    <2>6. /\ s \notin Claims(o) /\ s \in Claims(o)'
          /\ \A p \in Obj : p # o => s \notin Claims(p) /\ s \notin Claims(p)'
          /\ \A p \in Obj : s \notin Overs(p) /\ s \notin Overs(p)'
      BY ZenonT(60), <2>1, <2>3, <2>5 DEF Claims, Overs, Claiming, Over
    <2>7. /\ Cardinality(Claims(o)') = Cardinality(Claims(o)) + 1
          /\ \A p \in Obj : /\ p # o => Claims(p)' = Claims(p)
                            /\ Overs(p)' = Overs(p)
      <3>1. \A z \in Session : z # s =>
               openObj'[z] = openObj[z] /\ openPc'[z] = openPc[z] /\ inSess'[z] = inSess[z]
        BY Zenon, <2>3, <2>5
      <3>2. Cardinality(Claims(o)') = Cardinality(Claims(o)) + 1
        <4>1. PICK p \in Obj : p = o
          BY Zenon, <2>1
        <4>2. Claims(p)' = Claims(o)' /\ Claims(p) = Claims(o)
          BY Zenon, <2>3, <4>1 DEF Claims
        <4>3. s \notin Claims(p) /\ s \in Claims(p)'
          BY Zenon, <2>6, <4>2
        <4>4. Cardinality(Claims(p)') = Cardinality(Claims(p)) + 1
          BY ZenonT(60), <3>1, <4>3, SessionMoved
        <4> QED
          BY Zenon, <4>2, <4>4
      <3>3. ASSUME NEW p \in Obj
            PROVE  (p # o => Claims(p)' = Claims(p)) /\ Overs(p)' = Overs(p)
        BY ZenonT(60), <3>1, <2>6, SessionMoved
      <3> QED
        BY Zenon, <3>2, <3>3
    <2>8. ASSUME NEW p \in Obj PROVE CountOf(p)'
      <3>1. CountOf(p)
        BY Zenon DEF LeaseInv
      <3>2. CASE p = o
        BY ZenonT(60), <2>3, <2>5, <2>7, <3>1, <3>2 DEF CountOf
      <3>3. CASE p # o
        BY ZenonT(60), <2>3, <2>5, <2>7, <3>1, <3>3 DEF CountOf
      <3> QED
        BY Zenon, <3>2, <3>3
    <2>9. ASSUME NEW z \in Session PROVE OpenOf(z)'
      <3>1. OpenOf(z) /\ openObj[z] \in Obj \cup {None}
        BY ZenonT(60), <1>0 DEF LeaseInv, LeaseType
      <3>2. CASE z = s
        BY ZenonT(60), <2>1, <2>3, <2>5, <3>1, <3>2 DEF OpenOf, Claiming
      <3>3. CASE z # s
        <4>1. Claiming(z) => openObj[z] \in Obj
          BY ZenonT(60), <3>1 DEF OpenOf, Claiming
        <4>2. Claiming(z) => need'[openObj[z]] = NeedSend
          BY Zenon, <2>5, <3>1, <4>1 DEF OpenOf
        <4> QED
          BY ZenonT(60), <2>3, <2>5, <3>1, <3>3, <4>2 DEF OpenOf, Claiming
      <3> QED
        BY Zenon, <3>2, <3>3
    <2>10. ASSUME NEW p \in Obj PROVE ReadyOf(p)'
      <3>1. ReadyOf(p)
        BY Zenon DEF LeaseInv
      <3>2. \A z \in Session : Waiting(z)' => Waiting(z)
        BY Zenon, <2>5 DEF Waiting
      <3>3. ready[p] /\ finals[TOf(p)] = 1 => p # o
        BY Zenon, <2>1, <3>1 DEF ReadyOf, Waiting
      <3> QED
        BY Zenon, <2>3, <2>7, <3>1, <3>2, <3>3 DEF ReadyOf
    <2>11. ASSUME NEW u \in Transfer PROVE TableOf(u)'
      BY ZenonT(60), <2>3 DEF LeaseInv, TableOf
    <2> QED
      BY Zenon, <2>4, <2>8, <2>9, <2>10, <2>11 DEF LeaseInv
  <1>4. CASE OpenAbandon(s)
    <2>1. /\ Waiting(s) /\ ~ ready[o] /\ o \in Obj /\ ~ inSess[s] /\ openPc[s] = "wait"
      BY ZenonT(60), <1>0, <1>4 DEF OpenAbandon, Waiting, OpenOf, LeaseType
    <2>2. /\ openPc' = [openPc EXCEPT ![s] = "done"]
          /\ UNCHANGED <<eng, finals, ready, need, sent, sending, openObj, inSess>>
      BY ZenonT(60), <1>4 DEF OpenAbandon, engVars, sessVars
    <2>3. meta' = meta \/ (~ ready[s] /\ meta[t] = s /\ meta' = [meta EXCEPT ![t] = None])
      BY Zenon, <1>4, <2>1 DEF OpenAbandon
    <2>4. LeaseType'
      BY Zenon, <1>0, <2>2, <2>3 DEF LeaseType
    <2>5. /\ openPc'[s] = "done" /\ \A z \in Session : z # s => openPc'[z] = openPc[z]
          /\ \A u \in Transfer : meta'[u] \in {meta[u], None}
          /\ \A u \in Transfer : meta'[u] # meta[u] => u = t /\ meta[u] = s /\ ~ ready[s]
      BY Zenon, <1>0, <2>2, <2>3 DEF LeaseType
    <2>6. /\ \A p \in Obj : s \notin Claims(p) /\ s \notin Claims(p)' /\ s \notin Overs(p)
          /\ \A p \in Obj : p # o => s \notin Overs(p)'
          /\ s \in Overs(o)'
      BY Zenon, <2>1, <2>2, <2>5 DEF Claims, Overs, Claiming, Over
    <2>7. /\ \A p \in Obj : Claims(p)' = Claims(p)
          /\ \A p \in Obj : p # o => Overs(p)' = Overs(p)
          /\ Cardinality(Overs(o)') = Cardinality(Overs(o)) + 1
      BY ZenonT(60), <2>1, <2>2, <2>5, <2>6, SessionMoved
    <2>8. ASSUME NEW p \in Obj PROVE CountOf(p)'
      <3>1. CountOf(p) /\ sent[p] \in Nat /\ Cardinality(Overs(p)) \in Nat
        BY ZenonT(60), <1>0, TargetSets DEF LeaseInv, LeaseType
      <3>2. CASE p = o
        BY SMTT(60), Z3T(60), <2>2, <2>7, <3>1, <3>2 DEF CountOf
      <3>3. CASE p # o
        BY Zenon, <2>2, <2>7, <3>1, <3>3 DEF CountOf
      <3> QED
        BY Zenon, <3>2, <3>3
    <2>9. ASSUME NEW z \in Session PROVE OpenOf(z)'
      <3>1. OpenOf(z) /\ TransferOf[z] \in Transfer /\ z # None
        BY Zenon, Objects DEF LeaseInv
      <3>2. meta[TransferOf[z]] # z => meta'[TransferOf[z]] # z
        BY Zenon, <2>5, <3>1
      <3>3. CASE z = s
        BY ZenonT(60), <2>1, <2>2, <2>5, <3>1, <3>3 DEF OpenOf, Claiming
      <3>4. CASE z # s
        BY ZenonT(60), <2>2, <2>5, <3>1, <3>2, <3>4 DEF OpenOf, Claiming
      <3> QED
        BY Zenon, <3>3, <3>4
    <2>10. ASSUME NEW p \in Obj PROVE ReadyOf(p)'
      <3>1. ReadyOf(p) /\ TOf(p) \in Transfer
        BY Zenon, Objects DEF LeaseInv
      <3>2. \A z \in Session : Waiting(z)' => Waiting(z)
        BY Zenon, <2>5 DEF Waiting
      <3>3. ready[p] => (meta[TOf(p)] = p => meta'[TOf(p)] = p)
        BY Zenon, <2>5, <3>1
      <3>4. meta[TOf(p)] # p => meta'[TOf(p)] # p
        BY Zenon, <1>0, <2>5, <3>1
      <3> QED
        BY ZenonT(60), <2>2, <2>7, <3>1, <3>2, <3>3, <3>4 DEF ReadyOf
    <2>11. ASSUME NEW u \in Transfer PROVE TableOf(u)'
      BY Zenon, <2>2, <2>5 DEF LeaseInv, TableOf
    <2> QED
      BY Zenon, <2>4, <2>8, <2>9, <2>10, <2>11 DEF LeaseInv
  <1>5. CASE \/ OpenDone(s) /\ TotalChunks[s] = 0
             \/ OpenFailed(s)
    <2>1. /\ openPc[s] = "job" /\ Claiming(s) /\ need[o] = NeedSend /\ o \in Obj /\ ~ inSess[s]
      BY ZenonT(60), <1>0, <1>5 DEF OpenDone, OpenFailed, OpenOf, Claiming
    <2>2. /\ openPc' = [openPc EXCEPT ![s] = "done"] /\ FinishSendMeta(o, sending, NeedSend)
          /\ UNCHANGED <<eng, ready, need, openObj, inSess>>
      BY Zenon, <1>5, <2>1 DEF OpenDone, OpenFailed, sessVars
    <2>3. /\ need' = [need EXCEPT ![o] = NeedSend]
          /\ inSess' = [inSess EXCEPT ![s] = FALSE]
      BY Zenon, <1>0, <2>1, <2>2 DEF LeaseType
    <2> QED
      BY ZenonT(60), <2>1, <2>2, <2>3, FinishStep
  <1>6. CASE OpenDone(s) /\ TotalChunks[s] # 0
    <2>1. openPc[s] = "job" /\ ~ inSess[s] /\ openPc' = [openPc EXCEPT ![s] = "done"]
          /\ inSess' = [inSess EXCEPT ![s] = TRUE]
          /\ UNCHANGED <<eng, finals, meta, ready, need, sent, sending, openObj>>
      BY Zenon, <1>0, <1>6 DEF OpenDone, OpenOf
    <2>2. LeaseType'
      BY Zenon, <1>0, <2>1 DEF LeaseType
    <2>3. /\ openPc'[s] = "done" /\ inSess'[s]
          /\ \A z \in Session : z # s => openPc'[z] = openPc[z] /\ inSess'[z] = inSess[z]
      BY Zenon, <1>0, <2>1 DEF LeaseType
    <2>4. /\ \A z \in Session : Claiming(z)' <=> Claiming(z)
          /\ \A z \in Session : (Over(z)' <=> Over(z)) /\ (Waiting(z)' => Waiting(z))
      BY Zenon, <2>1, <2>3 DEF Claiming, Over, Waiting
    <2>5. \A p \in Obj : Claims(p)' = Claims(p) /\ Overs(p)' = Overs(p)
      BY Zenon, <2>1, <2>4 DEF Claims, Overs
    <2>6. ASSUME NEW z \in Session PROVE OpenOf(z)'
      <3>1. OpenOf(z) /\ OpenOf(s)
        BY Zenon, <1>0 DEF LeaseInv
      <3>2. CASE z = s
        BY ZenonT(60), <2>1, <2>3, <2>4, <3>1, <3>2 DEF OpenOf
      <3>3. CASE z # s
        BY ZenonT(60), <2>1, <2>3, <2>4, <3>1, <3>3 DEF OpenOf
      <3> QED
        BY Zenon, <3>2, <3>3
    <2>7. ASSUME NEW p \in Obj PROVE CountOf(p)' /\ ReadyOf(p)'
      BY ZenonT(60), <2>1, <2>4, <2>5 DEF LeaseInv, CountOf, ReadyOf
    <2>8. ASSUME NEW u \in Transfer PROVE TableOf(u)'
      BY Zenon, <2>1 DEF LeaseInv, TableOf
    <2> QED
      BY Zenon, <2>2, <2>6, <2>7, <2>8 DEF LeaseInv
  <1> QED
    BY Zenon, <1>1, <1>2, <1>3, <1>4, <1>5, <1>6 DEF OpenTask

\* Every step of the producer keeps the blocks with those that read them.
LEMMA LeaseStep ==
    ASSUME SetFacts, QueueInv, LeaseInv, ProdStep
    PROVE  LeaseInv'
  <1>1. ASSUME NEW t \in Transfer, Engine(t) \/ Sweep(t)
        PROVE  LeaseInv'
    BY Zenon, <1>1, EngineStep
  <1>2. ASSUME NEW s \in Session, OpenTask(s)
        PROVE  LeaseInv'
    BY Zenon, <1>2, OpenStep
  <1>3. ASSUME NEW s \in Session, ChunkTask(s) \/ AbortTask(s) \/ Client(s)
        PROVE  LeaseInv'
    <2>1. CASE DispatchPull(s) \/ RefusePull(s)
      BY Zenon, <2>1, EndStep DEF DispatchPull, RefusePull, engVars, objVars, Ends
    <2>2. ASSUME NEW c \in Chunk, NEW k \in SenderSlot, PullSlot(s, c, k)
          PROVE  LeaseInv'
      BY Zenon, <2>2, LeaseKept DEF PullSlot, engVars, objVars
    <2>3. ASSUME NEW c \in Chunk, EncodeFailed(s, c)
          PROVE  LeaseInv'
      BY Zenon, <2>3, LeaseKept DEF EncodeFailed, engVars, objVars
    <2>4. ASSUME NEW c \in Chunk, EncodeDone(s, c) \/ DrainDone(s, c)
          PROVE  LeaseInv'
      <3>1. Ends(s)
        BY Zenon, <2>4 DEF EncodeDone, DrainDone, Ends
      <3> QED
        BY Zenon, <3>1, EndStep
    <2>5. CASE AbortTask(s)
      <3>1. Ends(s)
        BY ZenonT(60), <2>5 DEF AbortTask, DispatchAbort, AbortDrained, AbortExpired, AbortAnswer, Ends
      <3> QED
        BY Zenon, <3>1, EndStep
    <2>6. CASE Client(s)
      BY Zenon, <2>6, LeaseKept DEF Client, ClientOpen, ClientPull, ClientAbort, ClientRead, engVars,
                             objVars, sessVars
    <2> QED
      BY Zenon, <1>3, <2>1, <2>2, <2>3, <2>4, <2>5, <2>6 DEF ChunkTask
  <1>4. ASSUME UNCHANGED prodVars PROVE LeaseInv'
    BY Zenon, <1>4, LeaseKept DEF prodVars, engVars, objVars, sessVars
  <1> QED
    BY Zenon, <1>1, <1>2, <1>3, <1>4 DEF ProdStep, Producer

-----------------------------------------------------------------------------
\* What the invariant says of the producer

\* The promise of an answered abort follows from the part on the chunks.
LEMMA AckFollows ==
    ASSUME QuietInv
    PROVE  AckMeansQuiet
  BY Zenon DEF QuietInv, QuietOf, AckMeansQuiet, NoJob

\* A session that reads the blocks claims its object, and the blocks of an object
\* that is claimed have not been given back.
LEMMA BlocksFollow ==
    ASSUME QuietInv, LeaseInv
    PROVE  BlocksHeld
  <1> SUFFICES ASSUME NEW t \in Transfer
               PROVE  finals[t] <= 1 /\ (finals[t] = 1 => eng[t] = "announced" /\ Reading(t) = {})
    BY Zenon DEF BlocksHeld
  <1>1. finals[t] \in {0, 1} /\ TableOf(t)
    BY Zenon DEF LeaseInv, LeaseType
  <1>2. ASSUME finals[t] = 1, NEW s \in Reading(t)
        PROVE  FALSE
    <2>1. s \in Session /\ TransferOf[s] = t /\ Claiming(s)
      BY ZenonT(60) DEF Reading, QuietInv, QuietOf, Running, Claiming
    <2>2. OpenOf(s) /\ openObj[s] \in Obj \cup {None}
      BY Zenon, <2>1 DEF LeaseInv, LeaseType
    <2>3. openObj[s] \in Obj /\ ready[openObj[s]] /\ TOf(openObj[s]) = t
      BY Zenon, <2>1, <2>2 DEF OpenOf, Claiming
    <2>4. Claims(openObj[s]) = {}
      BY Zenon, <1>2, <2>3 DEF LeaseInv, ReadyOf
    <2> QED
      BY Zenon, <2>1, <2>4 DEF Claims
  <1> QED
    BY SMTT(60), Z3T(60), <1>1, <1>2 DEF TableOf
=============================================================================
