------------------------- MODULE MooncakeRawProofs -------------------------
(***************************************************************************)
(* What MooncakeRaw promises, for any number of prefill and decode workers, *)
(* requests and batches: RawBlocksHeld and FinishedMeansWritten.            *)
(*                                                                          *)
(* The inductive invariant RawInv has one conjunct per piece of shared      *)
(* state:                                                                   *)
(*   TaskInv    a channel is queued at most once, and what its sender task  *)
(*              still waits for and what it is sending are disjoint parts   *)
(*              of the batch;                                               *)
(*   EntryInv   a task that uses an entry uses the one reqs_need_send       *)
(*              holds, which is ready and not freed;                        *)
(*   ClaimInv   meta.sending is the number of tasks that use the entry, and *)
(*              meta.sent does not exceed the decode workers served, so the *)
(*              task that frees the entry is the last one;                  *)
(*   AnswerInv  an answered request was sent, the counter of a decode       *)
(*              worker is at least the number of prefill workers still      *)
(*              missing, and a report without invalid blocks misses none.   *)
(***************************************************************************)
EXTENDS MooncakeRaw, DataLemmas

-----------------------------------------------------------------------------
\* The invariant.

\* The types of what the actions read and write, in the groups the lemmas use.
ObjTypes ==
    /\ seen \in [PW -> [Req -> {"idle", "published", "announced", "dropped"}]]
    /\ cur \in [PW -> [Req -> Obj \cup {None}]]
    /\ ready \subseteq Key
    /\ sent \in [Key -> Nat] /\ sending \in [Key -> Int]
    /\ freed \in [PW -> [Req -> Nat]]
TaskTypes ==
    /\ queue \in [PW -> Seq(Ch)]
    /\ task \in [Ch -> {"none", "queued", "wait", "xfer", "raised", "done"}]
    /\ pend \in [Ch -> SUBSET Req] /\ cohort \in [Ch -> SUBSET Req]
    /\ hold \in [Ch -> [Req -> Obj \cup {None}]]
Answer == [status : {"FINISH", "CONTINUE", "ERROR"}, ok : SUBSET Req, err : SUBSET Req]
RecvTypes ==
    /\ resp \in [Ch -> Seq(Answer)]
    /\ dpc \in [Ch -> {"none", "recv", "done"}]
    /\ count \in [DW -> [Req -> Int]] /\ failed \in [DW -> SUBSET Req]
    /\ fin \in [DW -> [Req -> Nat]] /\ inv \in [DW -> [Req -> Nat]]
RawTypes == ObjTypes /\ TaskTypes /\ RecvTypes

\* The sender task of ch has begun; it uses the object of r, or will when it
\* wakes; it is over with r.
Started(ch) == task[ch] \notin {"none", "queued"}
Active(ch, r) == \/ task[ch] = "xfer" /\ r \in cohort[ch]
                 \/ r \in pend[ch] /\ <<ch[1], r, hold[ch][r]>> \in ready
Over(ch, r) == Started(ch) /\ r \notin pend[ch] /\ r \notin cohort[ch]

TaskOf(ch) ==
    /\ ~ Started(ch) => pend[ch] = {} /\ cohort[ch] = {}
    /\ task[ch] \in {"done", "raised"} => pend[ch] = {}
    /\ task[ch] \in {"done", "wait"} => cohort[ch] = {}
    /\ pend[ch] \cup cohort[ch] \subseteq ReqsOf[ch[3]]
    /\ pend[ch] \cap cohort[ch] = {}
    /\ \A r \in pend[ch] \cup cohort[ch] : hold[ch][r] # None
    /\ dpc[ch] = "none" => task[ch] = "none"
QueueOf(p) ==
    /\ \A i \in DOMAIN queue[p] : queue[p][i][1] = p /\ task[queue[p][i]] = "queued"
    /\ \A i, j \in DOMAIN queue[p] : queue[p][i] = queue[p][j] => i = j
TaskInv == (\A ch \in Ch : TaskOf(ch)) /\ (\A p \in PW : QueueOf(p))

EntryOf(p, r) ==
    /\ freed[p][r] <= 1
    /\ freed[p][r] > 0 => seen[p][r] = "announced" /\ <<p, r, cur[p][r]>> \notin ready
    /\ \A o \in Obj : <<p, r, o>> \in ready => seen[p][r] = "announced"
UseOf(ch, r) ==
    /\ ~ Started(ch) /\ r \in ReqsOf[ch[3]] =>
          <<ch[1], r, ch[2]>> \notin ready /\ cur[ch[1]][r] # ch[2]
    /\ Active(ch, r) => /\ freed[ch[1]][r] = 0 /\ cur[ch[1]][r] = hold[ch][r]
                        /\ <<ch[1], r, hold[ch][r]>> \in ready
EntryInv ==
    /\ \A p \in PW, r \in Req : EntryOf(p, r)
    /\ \A ch \in Ch, r \in Req : UseOf(ch, r)

Users(p, r, o) == {d \in DW : \E b \in Batch : r \in cohort[<<p, d, b>>] /\ hold[<<p, d, b>>][r] = o}
Served(p, r) == {d \in DW : \E b \in Batch : r \in ReqsOf[b] /\ Over(<<p, d, b>>, r)}
ClaimOf(p, r, o) ==
    /\ sending[<<p, r, o>>] = Cardinality(Users(p, r, o))
    /\ sent[<<p, r, o>>] <= Cardinality(Served(p, r))
ClaimInv == \A p \in PW, r \in Req, o \in Obj : ClaimOf(p, r, o)

Sent(p, r) == \E o \in Obj : sent[<<p, r, o>>] > 0
Answered(ch, r) == \E i \in DOMAIN resp[ch] : r \in resp[ch][i].ok
Got(ch, r) == Over(ch, r) /\ Sent(ch[1], r) /\ ~ Answered(ch, r)
AnswerOf(ch, r) ==
    /\ Answered(ch, r) => r \in ReqsOf[ch[3]] /\ Over(ch, r) /\ Sent(ch[1], r)
    /\ \A i, j \in DOMAIN resp[ch] : r \in resp[ch][i].ok /\ r \in resp[ch][j].ok => i = j
From(d, b, r) == {p \in PW : Got(<<p, d, b>>, r)}
CountOf(d, b, r) ==
    r \in ReqsOf[b] /\ (\E p \in PW : task[<<p, d, b>>] # "none") =>
        count[d][r] >= Cardinality(PW) - Cardinality(From(d, b, r))
FinOf(d, r) ==
    fin[d][r] > 0 /\ inv[d][r] = 0 =>
        \A p \in PW : \E b \in Batch : r \in ReqsOf[b] /\ Got(<<p, d, b>>, r)
AnswerInv ==
    /\ \A ch \in Ch, r \in Req : AnswerOf(ch, r)
    /\ \A d \in DW, b \in Batch, r \in Req : CountOf(d, b, r)
    /\ \A d \in DW, r \in Req : FinOf(d, r)

RawInv == RawTypes /\ TaskInv /\ EntryInv /\ ClaimInv /\ AnswerInv

-----------------------------------------------------------------------------
\* Types.

\* A channel is a triple.
LEMMA ChFacts ==
    /\ \A ch \in Ch : /\ ch[1] \in PW /\ ch[2] \in DW /\ ch[3] \in Batch
                      /\ ch = <<ch[1], ch[2], ch[3]>>
                      /\ ReqsOf[ch[3]] \subseteq Req
    /\ \A p \in PW, d \in DW, b \in Batch :
          /\ <<p, d, b>> \in Ch
          /\ <<p, d, b>>[1] = p /\ <<p, d, b>>[2] = d /\ <<p, d, b>>[3] = b
  BY SMTT(60), BatchAssumption DEF Ch

\* Assigning one entry of a function, or of a function of functions.
LEMMA AssignType ==
    ASSUME NEW S, NEW T, NEW f \in [S -> T], NEW x \in S, NEW v \in T
    PROVE  [f EXCEPT ![x] = v] \in [S -> T]
  OBVIOUS

\* An assignment to one element of a table of tables.
LEMMA AssignType2 ==
    ASSUME NEW S, NEW R, NEW T, NEW f \in [S -> [R -> T]], NEW x \in S, NEW y \in R, NEW v \in T
    PROVE  [f EXCEPT ![x][y] = v] \in [S -> [R -> T]]
  OBVIOUS

\* The prefill scheduler and record_send_reqs.
LEMMA RecordTypes ==
    ASSUME RawTypes,
           \/ \E r \in Req : SchedPublish(r) \/ SchedAnnounce(r) \/ SchedDrop(r)
           \/ \E p \in PW : \E r \in Req : RecordPublish(p, r) \/ RecordAnnounce(p, r) \/ Sweep(p, r)
           \/ \E p \in PW : \E N \in SUBSET Req : \E popped \in SUBSET N : RecordDrop(p, N, popped)
           \/ \E p \in PW : Crash(p)
    PROVE  RawTypes'
  <1> USE DEF RawTypes
  <1>1. TaskTypes' /\ RecvTypes'
    <2>1. UNCHANGED <<taskVars, resp, dVars>>
      BY Zenon DEF SchedPublish, SchedAnnounce, SchedDrop, RecordPublish, RecordAnnounce, Sweep,
         RecordDrop, Crash
    <2> QED
      BY Zenon, <2>1 DEF TaskTypes, RecvTypes, taskVars, dVars
  <1>2. ObjTypes'
    <2>1. CASE (\E r \in Req : SchedPublish(r) \/ SchedAnnounce(r) \/ SchedDrop(r)) \/ \E p \in PW : Crash(p)
      BY Zenon, <2>1 DEF ObjTypes, objVars, SchedPublish, SchedAnnounce, SchedDrop, Crash
    <2>2. ASSUME NEW p \in PW, NEW r \in Req, RecordPublish(p, r) PROVE ObjTypes'
      <3>1. seen' = [seen EXCEPT ![p][r] = "published"]
            /\ cur' = [cur EXCEPT ![p][r] = IF cur[p][r] = None THEN Engine ELSE cur[p][r]]
            /\ UNCHANGED <<ready, sent, sending, freed>>
        BY Zenon, <2>2 DEF RecordPublish
      <3>2. (IF cur[p][r] = None THEN Engine ELSE cur[p][r]) \in Obj \cup {None}
        BY ZenonT(60) DEF ObjTypes, Obj
      <3>3. seen' \in [PW -> [Req -> {"idle", "published", "announced", "dropped"}]]
        BY Zenon, <3>1 DEF ObjTypes
      <3>4. cur' \in [PW -> [Req -> Obj \cup {None}]]
        BY Zenon, <3>1, <3>2, AssignType2 DEF ObjTypes
      <3> QED
        BY Zenon, <3>1, <3>3, <3>4 DEF ObjTypes
    <2>3. ASSUME NEW p \in PW, NEW r \in Req, RecordAnnounce(p, r) PROVE ObjTypes'
      <3>1. seen' = [seen EXCEPT ![p][r] = "announced"]
            /\ ready' = ready \cup {k \in Key : k = <<p, r, cur[p][r]>>}
            /\ UNCHANGED <<cur, sent, sending, freed>>
        BY Zenon, <2>3 DEF RecordAnnounce
      <3>3. seen' \in [PW -> [Req -> {"idle", "published", "announced", "dropped"}]]
        BY Zenon, <3>1 DEF ObjTypes
      <3>4. ready' \subseteq Key
        BY Zenon, <3>1 DEF ObjTypes
      <3> QED
        BY Zenon, <3>1, <3>3, <3>4 DEF ObjTypes
    <2>4. ASSUME NEW p \in PW, NEW r \in Req, Sweep(p, r) PROVE ObjTypes'
      <3>1. /\ freed' = [freed EXCEPT ![p][r] = freed[p][r] + 1]
            /\ cur' = [cur EXCEPT ![p][r] = None]
            /\ UNCHANGED <<seen, ready, sent, sending>>
        BY Zenon, <2>4 DEF Sweep
      <3>2. freed' \in [PW -> [Req -> Nat]]
        BY SMTT(60), <3>1 DEF ObjTypes
      <3>3. cur' \in [PW -> [Req -> Obj \cup {None}]]
        BY Zenon, <3>1 DEF ObjTypes
      <3> QED
        BY Zenon, <3>1, <3>2, <3>3 DEF ObjTypes
    <2>5. ASSUME NEW p \in PW, NEW N \in SUBSET Req, NEW popped \in SUBSET N, RecordDrop(p, N, popped)
          PROVE  ObjTypes'
      <3>1. /\ seen' = [seen EXCEPT ![p] = [r \in Req |-> IF r \in N THEN "dropped" ELSE seen[p][r]]]
            /\ cur' = [cur EXCEPT ![p] = [r \in Req |-> IF r \in popped THEN None ELSE cur[p][r]]]
            /\ UNCHANGED <<ready, sent, sending, freed>>
        BY Zenon, <2>5 DEF RecordDrop
      <3>2. seen' \in [PW -> [Req -> {"idle", "published", "announced", "dropped"}]]
        BY Zenon, <3>1 DEF ObjTypes
      <3>3. cur' \in [PW -> [Req -> Obj \cup {None}]]
        BY Zenon, <3>1 DEF ObjTypes
      <3> QED
        BY Zenon, <3>1, <3>2, <3>3 DEF ObjTypes
    <2> QED
      BY Zenon, <2>1, <2>2, <2>3, <2>4, <2>5
  <1> QED
    BY Zenon, <1>1, <1>2

\* An answer is appended to the channel's answers.
LEMMA RespondTypes ==
    ASSUME RecvTypes, NEW ch \in Ch, NEW st \in {"FINISH", "CONTINUE", "ERROR"},
           NEW ok \in SUBSET Req, NEW err \in SUBSET Req, Respond(ch, st, ok, err),
           UNCHANGED dVars
    PROVE  RecvTypes'
  <1>1. [status |-> st, ok |-> ok, err |-> err] \in Answer
    BY Zenon DEF Answer
  <1>2. resp[ch] \in Seq(Answer)
    BY Zenon DEF RecvTypes
  <1>3. Append(resp[ch], [status |-> st, ok |-> ok, err |-> err]) \in Seq(Answer)
    BY SMTT(60), <1>1, <1>2
  <1>4. resp' \in [Ch -> Seq(Answer)]
    BY Zenon, <1>3, AssignType DEF RecvTypes, Respond
  <1> QED
    BY Zenon, <1>4 DEF RecvTypes, dVars

\* The sender tasks.
LEMMA SenderTypes ==
    ASSUME RawTypes,
           \/ \E p \in PW : TakeRequest(p) \/ RefuseRequest(p)
           \/ \E ch \in Ch : \/ Wake(ch) \/ XferRaise(ch) \/ WaitTimeout(ch)
                             \/ \E E \in SUBSET Req : XferEnd(ch, E)
    PROVE  RawTypes'
  <1> USE DEF RawTypes
  <1>0. ASSUME NEW p \in PW, NEW ch, Dequeue(p, ch) PROVE queue' \in [PW -> Seq(Ch)]
    <2>1. Tail(queue[p]) \in Seq(Ch)
      BY SMTT(60), <1>0 DEF TaskTypes, Dequeue
    <2> QED
      BY Zenon, <1>0, <2>1, AssignType DEF TaskTypes, Dequeue
  <1>1. ASSUME NEW p \in PW, NEW ch \in Ch, Dequeue(p, ch),
               NEW entry, entry = [r \in Req |-> IF r \in ReqsOf[ch[3]] /\ cur[p][r] = None
                                                 THEN ch[2] ELSE cur[p][r]],
               cur' = [cur EXCEPT ![p] = entry], hold' = [hold EXCEPT ![ch] = entry],
               pend' = [pend EXCEPT ![ch] = ReqsOf[ch[3]]],
               task' = [task EXCEPT ![ch] = "wait"],
               UNCHANGED <<seen, ready, sent, sending, freed, cohort, resp, dVars>>
        PROVE  RawTypes'
    <2>1. entry \in [Req -> Obj \cup {None}]
      BY SMTT(60), <1>1, ChFacts DEF ObjTypes, Obj
    <2>2. cur' \in [PW -> [Req -> Obj \cup {None}]] /\ hold' \in [Ch -> [Req -> Obj \cup {None}]]
      BY Zenon, <1>1, <2>1, AssignType DEF ObjTypes, TaskTypes
    <2>3. ReqsOf[ch[3]] \in SUBSET Req
      BY Zenon, ChFacts
    <2>4. pend' \in [Ch -> SUBSET Req]
      BY Zenon, <1>1, <2>3, AssignType DEF TaskTypes
    <2>5. task' \in [Ch -> {"none", "queued", "wait", "xfer", "raised", "done"}]
      BY Zenon, <1>1 DEF TaskTypes
    <2> QED
      BY Zenon, <1>0, <1>1, <2>2, <2>4, <2>5 DEF ObjTypes, TaskTypes, RecvTypes, dVars
  <1>2. ASSUME NEW p \in PW, TakeRequest(p) PROVE RawTypes'
    <2>1. PICK ch \in Ch :
              /\ Dequeue(p, ch)
              /\ LET entry == [r \in Req |-> IF r \in ReqsOf[ch[3]] /\ cur[p][r] = None
                                            THEN ch[2] ELSE cur[p][r]] IN
                 cur' = [cur EXCEPT ![p] = entry] /\ hold' = [hold EXCEPT ![ch] = entry]
              /\ pend' = [pend EXCEPT ![ch] = ReqsOf[ch[3]]]
              /\ task' = [task EXCEPT ![ch] = "wait"]
              /\ UNCHANGED <<seen, ready, sent, sending, freed, cohort, resp, dVars>>
      BY Zenon, <1>2 DEF TakeRequest
    <2> QED
      BY Zenon, <1>1, <2>1
  <1>3. ASSUME NEW p \in PW, RefuseRequest(p) PROVE RawTypes'
    <2>1. PICK ch \in Ch : /\ Dequeue(p, ch) /\ task' = [task EXCEPT ![ch] = "done"]
                           /\ Respond(ch, "ERROR", {}, {})
                           /\ UNCHANGED <<seen, objVars, pend, hold, cohort, dVars>>
      BY Zenon, <1>3 DEF RefuseRequest
    <2>2. task' \in [Ch -> {"none", "queued", "wait", "xfer", "raised", "done"}]
      BY Zenon, <2>1 DEF TaskTypes
    <2>3. RecvTypes'
      <3>1. "ERROR" \in {"FINISH", "CONTINUE", "ERROR"} /\ {} \in SUBSET Req
        BY Zenon
      <3> QED
        BY Zenon, <2>1, <3>1, RespondTypes
    <2> QED
      BY Zenon, <1>0, <2>1, <2>2, <2>3 DEF ObjTypes, TaskTypes, objVars
  <1>4. ASSUME NEW ch \in Ch, Wake(ch) PROVE RawTypes'
    <2>1. PICK st : /\ st = {r \in ReadyOf(ch) : cur[ch[1]][r] # None}
                    /\ pend' = [pend EXCEPT ![ch] = pend[ch] \ ReadyOf(ch)]
                    /\ cohort' = [cohort EXCEPT ![ch] = st]
                    /\ sending' = [k \in Key |-> sending[k] + IF k \in Held(ch, st) THEN 1 ELSE 0]
                    /\ task' = [task EXCEPT ![ch] = "xfer"]
                    /\ UNCHANGED <<seen, cur, ready, sent, freed, queue, hold, resp, dVars>>
      BY Zenon, <1>4 DEF Wake
    <2>2. pend[ch] \ ReadyOf(ch) \in SUBSET Req /\ st \in SUBSET Req
      BY Zenon, <2>1 DEF TaskTypes, ReadyOf
    <2>3. pend' \in [Ch -> SUBSET Req] /\ cohort' \in [Ch -> SUBSET Req]
      BY Zenon, <2>1, <2>2, AssignType DEF TaskTypes
    <2>4. task' \in [Ch -> {"none", "queued", "wait", "xfer", "raised", "done"}]
      BY Zenon, <2>1 DEF TaskTypes
    <2>5. sending' \in [Key -> Int]
      <3> HIDE DEF RawTypes
      <3> DEFINE H == Held(ch, st)
      <3> HIDE DEF H
      <3>1. sending \in [Key -> Int]
        BY Zenon DEF ObjTypes, RawTypes
      <3>2. sending' = [k \in Key |-> sending[k] + IF k \in H THEN 1 ELSE 0]
        BY Zenon, <2>1 DEF H
      <3> QED
        BY SMTT(60), <3>1, <3>2
    <2> QED
      BY Zenon, <2>1, <2>3, <2>4, <2>5 DEF ObjTypes, TaskTypes, RecvTypes, dVars
  <1>5. ASSUME NEW ch \in Ch, NEW E \in SUBSET Req, XferEnd(ch, E) PROVE RawTypes'
    <2> DEFINE p == ch[1]
               ok == cohort[ch] \ E
               last == {r \in ok : /\ sent[<<p, r, hold[ch][r]>>] + 1 = NeedSend
                                   /\ cur[p][r] # None}
    <2>0.
              /\ sending' = [k \in Key |-> sending[k] - IF k \in Held(ch, Unmarked(ch, E)) THEN 1 ELSE 0]
              /\ sent' = [k \in Key |-> sent[k] + IF k \in Held(ch, ok) THEN 1 ELSE 0]
              /\ freed' = [freed EXCEPT ![p] = [r \in Req |-> freed[p][r] + IF r \in last THEN 1 ELSE 0]]
              /\ cur' = [cur EXCEPT ![p] = [r \in Req |-> IF r \in last THEN None ELSE cur[p][r]]]
              /\ Respond(ch, IF pend[ch] = {} THEN "FINISH" ELSE "CONTINUE", ok, E)
              /\ cohort' = [cohort EXCEPT ![ch] = {}]
              /\ task' = [task EXCEPT ![ch] = IF pend[ch] = {} THEN "done" ELSE "wait"]
              /\ UNCHANGED <<seen, ready, queue, pend, hold, dVars>>
      BY Zenon, <1>5 DEF XferEnd
    <2> HIDE DEF last
    <2>1. p \in PW /\ ok \in SUBSET Req
      BY Zenon, ChFacts DEF TaskTypes
    <2> HIDE DEF p, ok
    <2>2. sending' \in [Key -> Int] /\ sent' \in [Key -> Nat]
      <3> DEFINE H == Held(ch, ok)  G == Held(ch, Unmarked(ch, E))
      <3> HIDE DEF H, G, RawTypes
      <3>1. sending \in [Key -> Int] /\ sent \in [Key -> Nat]
        BY Zenon DEF ObjTypes, RawTypes
      <3>2. /\ sending' = [k \in Key |-> sending[k] - IF k \in G THEN 1 ELSE 0]
            /\ sent' = [k \in Key |-> sent[k] + IF k \in H THEN 1 ELSE 0]
        BY Zenon, <2>0 DEF H, G
      <3> QED
        BY SMTT(60), <3>1, <3>2
    <2>3. [r \in Req |-> freed[p][r] + IF r \in last THEN 1 ELSE 0] \in [Req -> Nat]
      BY SMTT(60), <2>1 DEF ObjTypes
    <2>4. [r \in Req |-> IF r \in last THEN None ELSE cur[p][r]] \in [Req -> Obj \cup {None}]
      BY SMTT(60), <2>1 DEF ObjTypes
    <2>5. freed' \in [PW -> [Req -> Nat]] /\ cur' \in [PW -> [Req -> Obj \cup {None}]]
      BY Zenon, <2>0, <2>1, <2>3, <2>4, AssignType DEF ObjTypes
    <2>6. cohort' \in [Ch -> SUBSET Req]
          /\ task' \in [Ch -> {"none", "queued", "wait", "xfer", "raised", "done"}]
      BY Zenon, <2>0 DEF TaskTypes
    <2>7. RecvTypes'
      <3>1. (IF pend[ch] = {} THEN "FINISH" ELSE "CONTINUE") \in {"FINISH", "CONTINUE", "ERROR"}
        BY Zenon
      <3> QED
        BY Zenon, <2>0, <2>1, <3>1, RespondTypes
    <2> QED
      BY Zenon, <2>0, <2>2, <2>5, <2>6, <2>7 DEF ObjTypes, TaskTypes
  <1>6. ASSUME NEW ch \in Ch, XferRaise(ch) \/ WaitTimeout(ch) PROVE RawTypes'
    <2>1. /\ pend' = [pend EXCEPT ![ch] = {}]
          /\ \E v \in {"raised", "done"} : task' = [task EXCEPT ![ch] = v]
          /\ UNCHANGED <<seen, objVars, queue, hold, cohort, dVars>>
          /\ \E st \in {"ERROR", "FINISH"}, err \in {{}, pend[ch]} : Respond(ch, st, {}, err)
      BY Zenon, <1>6 DEF XferRaise, WaitTimeout, TimedOut
    <2>2. pend' \in [Ch -> SUBSET Req]
          /\ task' \in [Ch -> {"none", "queued", "wait", "xfer", "raised", "done"}]
      BY Zenon, <2>1 DEF TaskTypes
    <2>3. RecvTypes'
      <3>1. PICK st \in {"ERROR", "FINISH"}, err \in {{}, pend[ch]} : Respond(ch, st, {}, err)
        BY Zenon, <2>1
      <3>2. st \in {"FINISH", "CONTINUE", "ERROR"} /\ err \in SUBSET Req /\ {} \in SUBSET Req
        BY Zenon DEF TaskTypes
      <3> QED
        BY Zenon, <2>1, <3>1, <3>2, RespondTypes
    <2> QED
      BY Zenon, <2>1, <2>2, <2>3 DEF ObjTypes, TaskTypes, objVars
  <1> QED
    BY Zenon, <1>2, <1>3, <1>4, <1>5, <1>6

\* _handle_failed_recv.
LEMMA FailTypes ==
    ASSUME RawTypes, NEW d \in DW, NEW R \in SUBSET Req, FailRecv(d, R)
    PROVE  /\ failed' \in [DW -> SUBSET Req]
           /\ fin' \in [DW -> [Req -> Nat]] /\ inv' \in [DW -> [Req -> Nat]]
  <1> USE DEF RawTypes, RecvTypes
  <1> DEFINE rep == NewlyFailed(d, R)
  <1>1. /\ failed' = [failed EXCEPT ![d] = failed[d] \cup R]
        /\ inv' = [inv EXCEPT ![d] = [r \in Req |-> inv[d][r] + IF r \in rep THEN 1 ELSE 0]]
        /\ fin' = [fin EXCEPT ![d] = [r \in Req |-> fin[d][r] + IF r \in rep THEN 1 ELSE 0]]
    BY Zenon DEF FailRecv
  <1> HIDE DEF rep
  <1>2. failed' \in [DW -> SUBSET Req]
    BY Zenon, <1>1
  <1>3. /\ [r \in Req |-> inv[d][r] + IF r \in rep THEN 1 ELSE 0] \in [Req -> Nat]
        /\ [r \in Req |-> fin[d][r] + IF r \in rep THEN 1 ELSE 0] \in [Req -> Nat]
    BY SMTT(60)
  <1>4. fin' \in [DW -> [Req -> Nat]] /\ inv' \in [DW -> [Req -> Nat]]
    BY Zenon, <1>1, <1>3, AssignType
  <1> QED
    BY Zenon, <1>2, <1>4

\* The receive tasks.
LEMMA ReceiverTypes ==
    ASSUME RawTypes,
           \/ \E d \in DW, b \in Batch : ReceiveKv(d, b) \/ EngineUnknown(d, b)
           \/ \E ch \in Ch : OnResponse(ch) \/ OnTimeout(ch)
    PROVE  RawTypes'
  <1> USE DEF RawTypes
  <1>1. ASSUME NEW d \in DW, NEW b \in Batch, ReceiveKv(d, b) PROVE RawTypes'
    <2>0. /\ dpc' = [ch \in Ch |-> IF ch[2] = d /\ ch[3] = b THEN "recv" ELSE dpc[ch]]
          /\ count' = [count EXCEPT ![d] =
                         [r \in Req |-> IF r \in ReqsOf[b] THEN Cardinality(PW) ELSE count[d][r]]]
          /\ queue' = [p \in PW |-> Append(queue[p], <<p, d, b>>)]
          /\ task' = [ch \in Ch |-> IF ch[2] = d /\ ch[3] = b THEN "queued" ELSE task[ch]]
          /\ UNCHANGED <<seen, objVars, pend, hold, cohort, resp, failed, fin, inv>>
      BY Zenon, <1>1 DEF ReceiveKv, To, PullTasks
    <2>1. Cardinality(PW) \in Nat
      BY Zenon, WorkerAssumption, CardinalityRemove
    <2>2. count' \in [DW -> [Req -> Int]]
      <3>1. [r \in Req |-> IF r \in ReqsOf[b] THEN Cardinality(PW) ELSE count[d][r]] \in [Req -> Int]
        BY SMTT(60), <2>1 DEF RecvTypes
      <3> QED
        BY Zenon, <2>0, <3>1, AssignType DEF RecvTypes
    <2>3. queue' \in [PW -> Seq(Ch)]
      <3>1. ASSUME NEW p \in PW PROVE Append(queue[p], <<p, d, b>>) \in Seq(Ch)
        BY SMTT(60), ChFacts DEF TaskTypes
      <3> QED
        BY Zenon, <2>0, <3>1
    <2>4. dpc' \in [Ch -> {"none", "recv", "done"}]
          /\ task' \in [Ch -> {"none", "queued", "wait", "xfer", "raised", "done"}]
      BY Zenon, <2>0 DEF RecvTypes, TaskTypes
    <2> QED
      BY Zenon, <2>0, <2>2, <2>3, <2>4 DEF ObjTypes, TaskTypes, RecvTypes, objVars
  <1>2. ASSUME NEW d \in DW, NEW b \in Batch, EngineUnknown(d, b) PROVE RawTypes'
    <2>0. /\ dpc' = [ch \in Ch |-> IF ch[2] = d /\ ch[3] = b THEN "done" ELSE dpc[ch]]
          /\ FailRecv(d, ReqsOf[b])
          /\ UNCHANGED <<seen, objVars, taskVars, resp, count>>
      BY Zenon, <1>2 DEF EngineUnknown, To
    <2>1. ReqsOf[b] \in SUBSET Req
      BY Zenon, BatchAssumption
    <2>2. dpc' \in [Ch -> {"none", "recv", "done"}]
      BY Zenon, <2>0 DEF RecvTypes
    <2>3. failed' \in [DW -> SUBSET Req] /\ fin' \in [DW -> [Req -> Nat]] /\ inv' \in [DW -> [Req -> Nat]]
      BY Zenon, <2>0, <2>1, FailTypes
    <2> QED
      BY Zenon, <2>0, <2>2, <2>3 DEF ObjTypes, TaskTypes, RecvTypes, objVars, taskVars
  <1>3. ASSUME NEW ch \in Ch, OnTimeout(ch) PROVE RawTypes'
    <2>0. /\ dpc' = [dpc EXCEPT ![ch] = "done"]
          /\ FailRecv(ch[2], ReqsOf[ch[3]])
          /\ UNCHANGED <<seen, objVars, taskVars, resp, count>>
      BY Zenon, <1>3 DEF OnTimeout
    <2>1. ReqsOf[ch[3]] \in SUBSET Req /\ ch[2] \in DW
      BY Zenon, ChFacts
    <2>2. dpc' \in [Ch -> {"none", "recv", "done"}]
      BY Zenon, <2>0 DEF RecvTypes
    <2>3. failed' \in [DW -> SUBSET Req] /\ fin' \in [DW -> [Req -> Nat]] /\ inv' \in [DW -> [Req -> Nat]]
      BY Zenon, <2>0, <2>1, FailTypes
    <2> QED
      BY Zenon, <2>0, <2>2, <2>3 DEF ObjTypes, TaskTypes, RecvTypes, objVars, taskVars
  <1>4. ASSUME NEW ch \in Ch, OnResponse(ch) PROVE RawTypes'
    <2> DEFINE d == ch[2]
               m == Head(resp[ch])
               err == FailedBy(ch, m)
               report == NewlyFailed(d, err)
               done == report \cup Completed(d, m.ok)
               gone == m.ok \ failed[d]
    <2>0. /\ resp[ch] # <<>> /\ resp' = [resp EXCEPT ![ch] = Tail(resp[ch])]
          /\ count' = [count EXCEPT ![d] = [r \in Req |-> count[d][r] - IF r \in gone THEN 1 ELSE 0]]
          /\ failed' = [failed EXCEPT ![d] = failed[d] \cup err]
          /\ inv' = [inv EXCEPT ![d] = [r \in Req |-> inv[d][r] + IF r \in report THEN 1 ELSE 0]]
          /\ fin' = [fin EXCEPT ![d] = [r \in Req |-> fin[d][r] + IF r \in done THEN 1 ELSE 0]]
          /\ dpc' = [dpc EXCEPT ![ch] = IF m.status = "CONTINUE" THEN "recv" ELSE "done"]
          /\ UNCHANGED <<seen, objVars, queue, task, pend, hold, cohort>>
      BY Zenon, <1>4 DEF OnResponse
    <2>1. d \in DW /\ resp[ch] \in Seq(Answer) /\ ReqsOf[ch[3]] \in SUBSET Req
      BY Zenon, ChFacts DEF RecvTypes
    <2>2. m \in Answer /\ Tail(resp[ch]) \in Seq(Answer)
      BY SMTT(60), <2>0, <2>1
    <2>3. err \in SUBSET Req
      BY Zenon, <2>1, <2>2 DEF FailedBy, Answer
    <2>4. resp' \in [Ch -> Seq(Answer)]
      BY Zenon, <2>0, <2>2, AssignType DEF RecvTypes
    <2> HIDE DEF d, report, done, gone, err, m
    <2>5. dpc' \in [Ch -> {"none", "recv", "done"}]
      BY Zenon, <2>0 DEF RecvTypes
    <2>6. failed' \in [DW -> SUBSET Req]
      BY Zenon, <2>0, <2>1, <2>3 DEF RecvTypes
    <2>7. /\ [r \in Req |-> count[d][r] - IF r \in gone THEN 1 ELSE 0] \in [Req -> Int]
          /\ [r \in Req |-> inv[d][r] + IF r \in report THEN 1 ELSE 0] \in [Req -> Nat]
          /\ [r \in Req |-> fin[d][r] + IF r \in done THEN 1 ELSE 0] \in [Req -> Nat]
      BY SMTT(60), <2>1 DEF RecvTypes
    <2>8. /\ count' \in [DW -> [Req -> Int]]
          /\ fin' \in [DW -> [Req -> Nat]] /\ inv' \in [DW -> [Req -> Nat]]
      BY Zenon, <2>0, <2>1, <2>7, AssignType DEF RecvTypes
    <2> QED
      BY Zenon, <2>0, <2>4, <2>5, <2>6, <2>8 DEF ObjTypes, TaskTypes, RecvTypes, objVars
  <1> QED
    BY Zenon, <1>1, <1>2, <1>3, <1>4

\* Every step keeps the types.
LEMMA NextTypes ==
    ASSUME RawTypes, [RawNext]_rawVars
    PROVE  RawTypes'
  <1>1. ASSUME UNCHANGED rawVars PROVE RawTypes'
    BY Zenon, <1>1 DEF rawVars, objVars, taskVars, dVars, RawTypes, ObjTypes, TaskTypes, RecvTypes
  <1> QED
    BY Zenon, <1>1, RecordTypes, SenderTypes, ReceiverTypes DEF RawNext

-----------------------------------------------------------------------------
\* The sender tasks and their queues.

\* What a step does to the sender task of ch, and to no other.
Only(ch) == \A x \in Ch : x # ch => /\ task'[x] = task[x] /\ pend'[x] = pend[x]
                                    /\ cohort'[x] = cohort[x] /\ hold'[x] = hold[x]
MoveTo(ch, t, P, C, h) ==
    /\ task'[ch] = t /\ pend'[ch] = P /\ cohort'[ch] = C /\ hold'[ch] = h
    /\ Only(ch)

\* The entries a sender task takes, and the requests it wakes for.
Entry(p, ch) == [r \in Req |-> IF r \in ReqsOf[ch[3]] /\ cur[p][r] = None THEN ch[2] ELSE cur[p][r]]
Still(ch) == {r \in ReadyOf(ch) : cur[ch[1]][r] # None}

\* What an EXCEPT per table says of the task it moves and of the others.
LEMMA MoveOnly ==
    ASSUME TaskTypes, NEW ch \in Ch, NEW t, NEW P, NEW C, NEW h,
           task' = [task EXCEPT ![ch] = t], (pend' = pend /\ P = pend[ch]) \/ pend' = [pend EXCEPT ![ch] = P],
           (cohort' = cohort /\ C = cohort[ch]) \/ cohort' = [cohort EXCEPT ![ch] = C],
           (hold' = hold /\ h = hold[ch]) \/ hold' = [hold EXCEPT ![ch] = h]
    PROVE  MoveTo(ch, t, P, C, h)
  <1>1. task'[ch] = t /\ \A x \in Ch : x # ch => task'[x] = task[x]
    BY Zenon DEF TaskTypes
  <1>2. pend'[ch] = P /\ \A x \in Ch : x # ch => pend'[x] = pend[x]
    BY Zenon DEF TaskTypes
  <1>3. cohort'[ch] = C /\ \A x \in Ch : x # ch => cohort'[x] = cohort[x]
    BY Zenon DEF TaskTypes
  <1>4. hold'[ch] = h /\ \A x \in Ch : x # ch => hold'[x] = hold[x]
    BY Zenon DEF TaskTypes
  <1> QED
    BY Zenon, <1>1, <1>2, <1>3, <1>4 DEF MoveTo, Only

\* The sender loop takes a request: the task waits for all of its batch, with the
\* entries that reqs_need_send holds or that it makes.
LEMMA MoveTake ==
    ASSUME TaskTypes, NEW p \in PW, TakeRequest(p)
    PROVE  \E ch \in Ch : /\ Dequeue(p, ch)
                          /\ MoveTo(ch, "wait", ReqsOf[ch[3]], cohort[ch], Entry(p, ch))
                          /\ cur' = [cur EXCEPT ![p] = Entry(p, ch)]
                          /\ UNCHANGED <<seen, ready, sent, sending, freed, resp, dVars>>
  <1>1. PICK ch \in Ch : /\ Dequeue(p, ch) /\ pend' = [pend EXCEPT ![ch] = ReqsOf[ch[3]]]
                         /\ task' = [task EXCEPT ![ch] = "wait"]
                         /\ cur' = [cur EXCEPT ![p] = Entry(p, ch)]
                         /\ hold' = [hold EXCEPT ![ch] = Entry(p, ch)]
                         /\ UNCHANGED <<seen, ready, sent, sending, freed, cohort, resp, dVars>>
    BY Zenon DEF TakeRequest, Entry
  <1>2. MoveTo(ch, "wait", ReqsOf[ch[3]], cohort[ch], Entry(p, ch))
    BY Zenon, <1>1, MoveOnly
  <1> QED
    BY Zenon, <1>1, <1>2

\* The sender loop refuses a request: the task answers ERROR and is over.
LEMMA MoveRefuse ==
    ASSUME TaskTypes, NEW p \in PW, RefuseRequest(p)
    PROVE  \E ch \in Ch : /\ Dequeue(p, ch)
                          /\ MoveTo(ch, "done", pend[ch], cohort[ch], hold[ch])
                          /\ Respond(ch, "ERROR", {}, {})
                          /\ UNCHANGED <<seen, objVars, dVars>>
  <1>1. PICK ch \in Ch : /\ Dequeue(p, ch) /\ task' = [task EXCEPT ![ch] = "done"]
                         /\ Respond(ch, "ERROR", {}, {})
                         /\ UNCHANGED <<seen, objVars, pend, hold, cohort, dVars>>
    BY Zenon DEF RefuseRequest
  <1>2. MoveTo(ch, "done", pend[ch], cohort[ch], hold[ch])
    BY Zenon, <1>1, MoveOnly
  <1> QED
    BY Zenon, <1>1, <1>2

\* send_kv_to_decode wakes up: the ready requests leave the pending ones and
\* meta.sending of what is still held is incremented.
LEMMA MoveWake ==
    ASSUME TaskTypes, NEW ch \in Ch, Wake(ch)
    PROVE  /\ MoveTo(ch, "xfer", pend[ch] \ ReadyOf(ch), Still(ch), hold[ch])
           /\ task[ch] = "wait"
           /\ sending' = [k \in Key |-> sending[k] + IF k \in Held(ch, Still(ch)) THEN 1 ELSE 0]
           /\ UNCHANGED <<seen, cur, ready, sent, freed, queue, resp, dVars>>
  <1>1. /\ pend' = [pend EXCEPT ![ch] = pend[ch] \ ReadyOf(ch)]
        /\ cohort' = [cohort EXCEPT ![ch] = Still(ch)]
        /\ sending' = [k \in Key |-> sending[k] + IF k \in Held(ch, Still(ch)) THEN 1 ELSE 0]
        /\ task[ch] = "wait" /\ task' = [task EXCEPT ![ch] = "xfer"]
        /\ UNCHANGED <<seen, cur, ready, sent, freed, queue, hold, resp, dVars>>
    BY Zenon DEF Wake, Still
  <1>2. MoveTo(ch, "xfer", pend[ch] \ ReadyOf(ch), Still(ch), hold[ch])
    BY Zenon, <1>1, MoveOnly
  <1> QED
    BY Zenon, <1>1, <1>2

\* The requests the end of a transfer frees.
Last(ch, E) == {r \in cohort[ch] \ E : /\ sent[<<ch[1], r, hold[ch][r]>>] + 1 = NeedSend
                                       /\ cur[ch[1]][r] # None}

\* send_kv_to_decode after a transfer: sending goes down for all of the cohort,
\* sent goes up for what went well, and the entries of the last ones are freed.
LEMMA MoveEnd ==
    ASSUME TaskTypes, NEW ch \in Ch, NEW E, XferEnd(ch, E)
    PROVE  /\ \E t \in {"done", "wait"} :
                 MoveTo(ch, t, pend[ch], {}, hold[ch]) /\ (t = "done" <=> pend[ch] = {})
           /\ task[ch] = "xfer" /\ E \subseteq cohort[ch]
           /\ sending' = [k \in Key |-> sending[k] - IF k \in Held(ch, cohort[ch]) THEN 1 ELSE 0]
           /\ sent' = [k \in Key |-> sent[k] + IF k \in Held(ch, cohort[ch] \ E) THEN 1 ELSE 0]
           /\ freed' = [freed EXCEPT ![ch[1]] =
                 [r \in Req |-> freed[ch[1]][r] + IF r \in Last(ch, E) THEN 1 ELSE 0]]
           /\ cur' = [cur EXCEPT ![ch[1]] =
                 [r \in Req |-> IF r \in Last(ch, E) THEN None ELSE cur[ch[1]][r]]]
           /\ \E st : Respond(ch, st, cohort[ch] \ E, E)
           /\ UNCHANGED <<seen, ready, queue, dVars>>
  <1>1. /\ cohort' = [cohort EXCEPT ![ch] = {}]
        /\ task[ch] = "xfer" /\ E \subseteq cohort[ch]
        /\ task' = [task EXCEPT ![ch] = IF pend[ch] = {} THEN "done" ELSE "wait"]
        /\ UNCHANGED <<seen, ready, queue, pend, hold, dVars>>
    BY Zenon DEF XferEnd
  <1>2. /\ sending' = [k \in Key |-> sending[k] - IF k \in Held(ch, cohort[ch]) THEN 1 ELSE 0]
        /\ sent' = [k \in Key |-> sent[k] + IF k \in Held(ch, cohort[ch] \ E) THEN 1 ELSE 0]
    BY Zenon DEF XferEnd, Unmarked
  <1>3. /\ freed' = [freed EXCEPT ![ch[1]] =
                 [r \in Req |-> freed[ch[1]][r] + IF r \in Last(ch, E) THEN 1 ELSE 0]]
        /\ cur' = [cur EXCEPT ![ch[1]] =
                 [r \in Req |-> IF r \in Last(ch, E) THEN None ELSE cur[ch[1]][r]]]
    BY Zenon DEF XferEnd, Last
  <1>4. \E st : Respond(ch, st, cohort[ch] \ E, E)
    BY Zenon DEF XferEnd
  <1>5. MoveTo(ch, IF pend[ch] = {} THEN "done" ELSE "wait", pend[ch], {}, hold[ch])
    BY Zenon, <1>1, MoveOnly
  <1>6. \E t \in {"done", "wait"} :
            MoveTo(ch, t, pend[ch], {}, hold[ch]) /\ (t = "done" <=> pend[ch] = {})
    BY Zenon, <1>5
  <1> QED
    BY Zenon, <1>1, <1>2, <1>3, <1>4, <1>6

\* send_kv_to_decode stops, by an exception in the transfer or at the timeout.
LEMMA MoveStop ==
    ASSUME TaskTypes, NEW ch \in Ch, XferRaise(ch) \/ WaitTimeout(ch)
    PROVE  /\ \/ task[ch] = "xfer" /\ MoveTo(ch, "raised", {}, cohort[ch], hold[ch])
              \/ task[ch] = "wait" /\ MoveTo(ch, "done", {}, cohort[ch], hold[ch])
           /\ \E st, err : Respond(ch, st, {}, err)
           /\ UNCHANGED <<seen, objVars, queue, dVars>>
  <1>1. /\ pend' = [pend EXCEPT ![ch] = {}]
        /\ UNCHANGED <<seen, objVars, queue, hold, cohort, dVars>>
        /\ \E st, err : Respond(ch, st, {}, err)
    BY Zenon DEF XferRaise, WaitTimeout
  <1>2. CASE XferRaise(ch)
    <2>1. task[ch] = "xfer" /\ task' = [task EXCEPT ![ch] = "raised"]
      BY Zenon, <1>2 DEF XferRaise
    <2> QED
      BY Zenon, <1>1, <2>1, MoveOnly
  <1>3. CASE WaitTimeout(ch)
    <2>1. task[ch] = "wait" /\ task' = [task EXCEPT ![ch] = "done"]
      BY Zenon, <1>3 DEF WaitTimeout
    <2> QED
      BY Zenon, <1>1, <2>1, MoveOnly
  <1> QED
    BY Zenon, <1>2, <1>3

\* The request a sender task takes is at the head of the queue, once.
LEMMA DequeueFacts ==
    ASSUME TaskTypes, TaskInv, NEW p \in PW, NEW ch \in Ch, Dequeue(p, ch)
    PROVE  /\ ch[1] = p /\ task[ch] = "queued" /\ pend[ch] = {} /\ cohort[ch] = {}
           /\ \A i \in DOMAIN queue'[p] :
                 /\ i + 1 \in DOMAIN queue[p] /\ queue'[p][i] = queue[p][i + 1]
                 /\ queue'[p][i] # ch
           /\ \A q \in PW : q # p => queue'[q] = queue[q]
  <1> DEFINE Q == queue[p]
  <1>0. Q \in Seq(Ch) /\ Q # <<>> /\ ch = Head(Q) /\ queue' = [queue EXCEPT ![p] = Tail(Q)]
    BY Zenon DEF Dequeue, TaskTypes
  <1>1. queue'[p] = Tail(Q) /\ \A q \in PW : q # p => queue'[q] = queue[q]
    BY Zenon, <1>0 DEF TaskTypes
  <1>2. \A i \in DOMAIN Q : Q[i][1] = p /\ task[Q[i]] = "queued"
    BY Zenon DEF TaskInv, QueueOf
  <1>3. \A i, j \in DOMAIN Q : Q[i] = Q[j] => i = j
    BY Zenon DEF TaskInv, QueueOf
  <1> HIDE DEF Q
  <1>4. 1 \in DOMAIN Q /\ Q[1] = ch
    BY SMTT(60), <1>0
  <1>5. \A i \in DOMAIN Tail(Q) : i + 1 \in DOMAIN Q /\ i + 1 # 1 /\ Tail(Q)[i] = Q[i + 1]
    BY SMTT(60), <1>0
  <1>6. \A i \in DOMAIN Tail(Q) : Tail(Q)[i] # ch
    BY Zenon, <1>3, <1>4, <1>5
  <1>7. ch[1] = p /\ task[ch] = "queued"
    BY Zenon, <1>2, <1>4
  <1>8. pend[ch] = {} /\ cohort[ch] = {}
    BY Zenon, <1>7 DEF TaskInv, TaskOf, Started
  <1> QED
    BY Zenon, <1>1, <1>5, <1>6, <1>7, <1>8 DEF Q

\* A task that a step leaves alone.
LEMMA TaskSame ==
    ASSUME NEW x \in Ch, TaskOf(x), task'[x] = task[x], pend'[x] = pend[x],
           cohort'[x] = cohort[x], hold'[x] = hold[x], dpc'[x] = "none" => dpc[x] = "none"
    PROVE  TaskOf(x)'
  BY Zenon DEF TaskOf, Started

\* A queue in which the moved task is not.
LEMMA QueueSame ==
    ASSUME TaskTypes, TaskInv, NEW q \in PW, NEW ch \in Ch, queue'[q] = queue[q], Only(ch),
           \A i \in DOMAIN queue[q] : queue[q][i] # ch
    PROVE  QueueOf(q)'
  <1>1. \A i \in DOMAIN queue[q] : queue[q][i] \in Ch
    BY SMTT(60) DEF TaskTypes
  <1>2. \A i \in DOMAIN queue[q] : task'[queue[q][i]] = task[queue[q][i]]
    BY Zenon, <1>1 DEF Only
  <1>3. QueueOf(q)
    BY Zenon DEF TaskInv
  <1> QED
    BY Zenon, <1>2, <1>3 DEF QueueOf

\* The queues when a sender task takes its request, and when it moves on.
LEMMA QueueTake ==
    ASSUME TaskTypes, TaskInv, NEW p \in PW, NEW ch \in Ch, Only(ch), Dequeue(p, ch), NEW q \in PW
    PROVE  QueueOf(q)'
  <1>0. ch[1] = p /\ \A y \in PW : y # p => queue'[y] = queue[y]
    BY Zenon, DequeueFacts
  <1>1. CASE q # p
    <2>1. QueueOf(q)
      BY Zenon DEF TaskInv
    <2>2. \A i \in DOMAIN queue[q] : queue[q][i] # ch
      BY Zenon, <1>0, <1>1, <2>1 DEF QueueOf
    <2> QED
      BY Zenon, <1>0, <1>1, <2>2, QueueSame
  <1>2. CASE q = p
    <2>0. queue[p] \in Seq(Ch)
      BY Zenon DEF TaskTypes
    <2>1. \A i \in DOMAIN queue'[p] :
               /\ i + 1 \in DOMAIN queue[p] /\ queue'[p][i] = queue[p][i + 1]
               /\ queue'[p][i] # ch
      BY SMTT(60), DequeueFacts
    <2>2. \A i \in DOMAIN queue[p] : queue[p][i] \in Ch
      BY SMTT(60), <2>0
    <2>3. QueueOf(p)
      BY Zenon DEF TaskInv
    <2>4. \A i \in DOMAIN queue'[p] : task'[queue'[p][i]] = task[queue'[p][i]]
      BY Zenon, <2>1, <2>2 DEF Only
    <2>8. \A i \in DOMAIN queue[p] : queue[p][i][1] = p /\ task[queue[p][i]] = "queued"
      BY Zenon, <2>3 DEF QueueOf
    <2>5. \A i \in DOMAIN queue'[p] : queue'[p][i][1] = p /\ task'[queue'[p][i]] = "queued"
      <3> SUFFICES ASSUME NEW i \in DOMAIN queue'[p]
                   PROVE  queue'[p][i][1] = p /\ task'[queue'[p][i]] = "queued"
        BY Zenon
      <3>1. PICK j \in DOMAIN queue[p] : queue'[p][i] = queue[p][j]
        BY Zenon, <2>1
      <3> QED
        BY Zenon, <2>4, <2>8, <3>1
    <2>6. \A i \in DOMAIN queue'[p] : i \in Int
      BY SMTT(60), <2>0 DEF Dequeue, TaskTypes
    <2>7. ASSUME NEW i \in DOMAIN queue'[p], NEW j \in DOMAIN queue'[p], queue'[p][i] = queue'[p][j]
          PROVE  i = j
      <3>1. i + 1 = j + 1
        BY Zenon, <2>1, <2>3, <2>7 DEF QueueOf
      <3>2. i \in Int /\ j \in Int
        BY Zenon, <2>6
      <3> QED
        BY SMTT(60), <3>1, <3>2
    <2> QED
      BY Zenon, <1>2, <2>5, <2>7 DEF QueueOf
  <1> QED
    BY Zenon, <1>1, <1>2

\* A task that is not queued moves and no queue changes.
LEMMA QueueRest ==
    ASSUME TaskTypes, TaskInv, NEW ch \in Ch, Only(ch), task[ch] # "queued", queue' = queue, NEW q \in PW
    PROVE  QueueOf(q)'
  <1>1. QueueOf(q)
    BY Zenon DEF TaskInv
  <1>2. \A i \in DOMAIN queue[q] : queue[q][i] # ch
    BY Zenon, <1>1 DEF QueueOf
  <1> QED
    BY Zenon, <1>2, QueueSame

\* A sender task that moves keeps the other tasks as they are.
LEMMA TaskMove ==
    ASSUME TaskInv, NEW ch \in Ch, Only(ch), dpc' = dpc, TaskOf(ch)', \A q \in PW : QueueOf(q)'
    PROVE  TaskInv'
  <1>1. ASSUME NEW x \in Ch, x # ch PROVE TaskOf(x)'
    <2>1. TaskOf(x)
      BY Zenon DEF TaskInv
    <2>2. task'[x] = task[x] /\ pend'[x] = pend[x] /\ cohort'[x] = cohort[x] /\ hold'[x] = hold[x]
      BY Zenon, <1>1 DEF Only
    <2> QED
      BY Zenon, <2>1, <2>2, TaskSame
  <1> QED
    BY Zenon, <1>1 DEF TaskInv

\* The sender tasks.
LEMMA TaskSender ==
    ASSUME RawTypes, TaskInv,
           \/ \E p \in PW : TakeRequest(p) \/ RefuseRequest(p)
           \/ \E ch \in Ch : \/ Wake(ch) \/ XferRaise(ch) \/ WaitTimeout(ch)
                             \/ \E E \in SUBSET Req : XferEnd(ch, E)
    PROVE  TaskInv'
  <1> USE DEF RawTypes
  <1>1. ASSUME NEW p \in PW, TakeRequest(p) PROVE TaskInv'
    <2>1. PICK ch \in Ch : /\ Dequeue(p, ch)
                           /\ MoveTo(ch, "wait", ReqsOf[ch[3]], cohort[ch], Entry(p, ch))
                           /\ dpc' = dpc
      BY Zenon, <1>1, MoveTake DEF dVars
    <2>2. ch[1] = p /\ task[ch] = "queued" /\ cohort[ch] = {}
      BY Zenon, <2>1, DequeueFacts
    <2>3. \A q \in PW : QueueOf(q)'
      BY Zenon, <2>1, QueueTake DEF MoveTo
    <2>4. \A r \in ReqsOf[ch[3]] : Entry(p, ch)[r] # None
      BY SMTT(60), ChFacts, RawAssumption DEF Entry
    <2>5. dpc[ch] # "none"
      BY Zenon, <2>2 DEF TaskInv, TaskOf
    <2>6. TaskOf(ch)'
      BY Zenon, <2>1, <2>2, <2>4, <2>5 DEF TaskOf, Started, MoveTo
    <2> QED
      BY Zenon, <2>1, <2>3, <2>6, TaskMove DEF MoveTo
  <1>2. ASSUME NEW p \in PW, RefuseRequest(p) PROVE TaskInv'
    <2>1. PICK ch \in Ch : /\ Dequeue(p, ch)
                           /\ MoveTo(ch, "done", pend[ch], cohort[ch], hold[ch])
                           /\ dpc' = dpc
      BY Zenon, <1>2, MoveRefuse DEF dVars
    <2>2. ch[1] = p /\ task[ch] = "queued" /\ cohort[ch] = {} /\ pend[ch] = {}
      BY Zenon, <2>1, DequeueFacts
    <2>3. \A q \in PW : QueueOf(q)'
      BY Zenon, <2>1, QueueTake DEF MoveTo
    <2>5. dpc[ch] # "none"
      BY Zenon, <2>2 DEF TaskInv, TaskOf
    <2>6. TaskOf(ch)'
      BY Zenon, <2>1, <2>2, <2>5 DEF TaskOf, Started, MoveTo
    <2> QED
      BY Zenon, <2>1, <2>3, <2>6, TaskMove DEF MoveTo
  <1>3. ASSUME NEW ch \in Ch, NEW t, NEW P, NEW C, MoveTo(ch, t, P, C, hold[ch]),
               UNCHANGED <<queue, dpc>>, task[ch] \in {"wait", "xfer"},
               P \subseteq pend[ch], C \subseteq pend[ch] \cup cohort[ch], P \cap C = {},
               t \in {"xfer", "done", "wait", "raised"},
               t \in {"done", "raised"} => P = {}, t \in {"done", "wait"} => C = {}
        PROVE  TaskInv'
    <2>1. TaskOf(ch) /\ dpc[ch] # "none"
      BY Zenon, <1>3 DEF TaskInv, TaskOf
    <2>2. \A q \in PW : QueueOf(q)'
      <3>1. task[ch] # "queued"
        BY Zenon, <1>3
      <3> QED
        BY Zenon, <1>3, <3>1, QueueRest DEF MoveTo
    <2>3. TaskOf(ch)'
      BY Zenon, <1>3, <2>1 DEF TaskOf, Started, MoveTo
    <2> QED
      BY Zenon, <1>3, <2>2, <2>3, TaskMove DEF MoveTo
  <1>4. ASSUME NEW ch \in Ch, Wake(ch) PROVE TaskInv'
    <2>1. /\ MoveTo(ch, "xfer", pend[ch] \ ReadyOf(ch), Still(ch), hold[ch])
          /\ task[ch] = "wait" /\ UNCHANGED <<queue, dpc>>
      BY Zenon, <1>4, MoveWake DEF dVars
    <2>2. /\ pend[ch] \ ReadyOf(ch) \subseteq pend[ch] /\ Still(ch) \subseteq pend[ch] \cup cohort[ch]
          /\ (pend[ch] \ ReadyOf(ch)) \cap Still(ch) = {}
      BY Zenon DEF Still, ReadyOf
    <2>3. "xfer" \notin {"done", "raised"} /\ "xfer" \notin {"done", "wait"}
      BY SMT
    <2> QED
      BY Zenon, <1>3, <2>1, <2>2, <2>3
  <1>5. ASSUME NEW ch \in Ch, NEW E \in SUBSET Req, XferEnd(ch, E) PROVE TaskInv'
    <2>1. PICK t \in {"done", "wait"} :
                 MoveTo(ch, t, pend[ch], {}, hold[ch]) /\ (t = "done" <=> pend[ch] = {})
      BY Zenon, <1>5, MoveEnd
    <2>2. task[ch] = "xfer" /\ UNCHANGED <<queue, dpc>>
      BY Zenon, <1>5, MoveEnd DEF dVars
    <2>3. t \in {"done", "raised"} => pend[ch] = {}
      BY SMT, <2>1
    <2>4. {} \subseteq pend[ch] \cup cohort[ch] /\ pend[ch] \cap {} = {} /\ pend[ch] \subseteq pend[ch]
      BY Zenon
    <2> QED
      BY Zenon, <1>3, <2>1, <2>2, <2>3, <2>4
  <1>6. ASSUME NEW ch \in Ch, XferRaise(ch) \/ WaitTimeout(ch) PROVE TaskInv'
    <2>1. /\ \/ task[ch] = "xfer" /\ MoveTo(ch, "raised", {}, cohort[ch], hold[ch])
             \/ task[ch] = "wait" /\ MoveTo(ch, "done", {}, cohort[ch], hold[ch])
          /\ UNCHANGED <<queue, dpc>>
      BY Zenon, <1>6, MoveStop DEF dVars
    <2>2. task[ch] = "wait" => cohort[ch] = {}
      BY Zenon DEF TaskInv, TaskOf
    <2>3. {} \subseteq pend[ch] /\ cohort[ch] \subseteq pend[ch] \cup cohort[ch] /\ {} \cap cohort[ch] = {}
      BY Zenon
    <2>4. "raised" \notin {"done", "wait"}
      BY SMT
    <2>5. CASE task[ch] = "xfer" /\ MoveTo(ch, "raised", {}, cohort[ch], hold[ch])
      BY Zenon, <1>3, <2>1, <2>3, <2>4, <2>5
    <2>6. CASE task[ch] = "wait" /\ MoveTo(ch, "done", {}, cohort[ch], hold[ch])
      BY Zenon, <1>3, <2>1, <2>2, <2>3, <2>6
    <2> QED
      BY Zenon, <2>1, <2>5, <2>6
  <1> QED
    BY Zenon, <1>1, <1>2, <1>4, <1>5, <1>6

\* receive_kv queues the batch at every prefill worker.
LEMMA TaskReceive ==
    ASSUME RawTypes, TaskInv, NEW d \in DW, NEW b \in Batch, ReceiveKv(d, b)
    PROVE  TaskInv'
  <1> USE DEF RawTypes
  <1>0. /\ dpc' = [ch \in Ch |-> IF ch[2] = d /\ ch[3] = b THEN "recv" ELSE dpc[ch]]
        /\ queue' = [p \in PW |-> Append(queue[p], <<p, d, b>>)]
        /\ task' = [ch \in Ch |-> IF ch[2] = d /\ ch[3] = b THEN "queued" ELSE task[ch]]
        /\ UNCHANGED <<pend, hold, cohort>>
        /\ \A p \in PW : dpc[<<p, d, b>>] = "none"
    BY Zenon DEF ReceiveKv, To, Idle
  <1>1. \A x \in Ch : x[2] = d /\ x[3] = b => task[x] = "none"
    <2> SUFFICES ASSUME NEW x \in Ch, x[2] = d, x[3] = b PROVE task[x] = "none"
      BY Zenon
    <2>1. dpc[x] = "none"
      BY SMTT(60), <1>0, ChFacts
    <2> QED
      BY Zenon, <2>1 DEF TaskInv, TaskOf
  <1>2. ASSUME NEW x \in Ch PROVE TaskOf(x)'
    <2>0. TaskOf(x)
      BY Zenon DEF TaskInv
    <2>1. CASE x[2] = d /\ x[3] = b
      <3>1. task'[x] = "queued" /\ dpc'[x] = "recv"
        BY Zenon, <1>0, <2>1
      <3>2. task[x] = "none"
        BY Zenon, <1>1, <2>1
      <3> QED
        BY Zenon, <1>0, <2>0, <3>1, <3>2 DEF TaskOf, Started
    <2>2. CASE ~ (x[2] = d /\ x[3] = b)
      <3>1. task'[x] = task[x] /\ dpc'[x] = dpc[x]
        BY Zenon, <1>0, <2>2
      <3> QED
        BY Zenon, <1>0, <2>0, <3>1, TaskSame
    <2> QED
      BY Zenon, <2>1, <2>2
  <1>3. ASSUME NEW p \in PW PROVE QueueOf(p)'
    <2> DEFINE Q == queue[p]
               c == <<p, d, b>>
    <2>0. Q \in Seq(Ch) /\ queue'[p] = Append(Q, c) /\ c \in Ch /\ c[1] = p /\ c[2] = d /\ c[3] = b
      BY Zenon, <1>0, ChFacts DEF TaskTypes
    <2>1. QueueOf(p)
      BY Zenon DEF TaskInv
    <2>2. \A i \in DOMAIN Q : Q[i] # c /\ task'[Q[i]] = "queued"
      <3> SUFFICES ASSUME NEW i \in DOMAIN Q PROVE Q[i] # c /\ task'[Q[i]] = "queued"
        BY Zenon
      <3>1. Q[i] \in Ch
        BY SMTT(60), <2>0
      <3>2. task[Q[i]] = "queued"
        BY Zenon, <2>1 DEF QueueOf
      <3>3. ~ (Q[i][2] = d /\ Q[i][3] = b)
        BY Zenon, <1>1, <3>1, <3>2
      <3>4. task'[Q[i]] = "queued"
        BY Zenon, <1>0, <3>1, <3>2
      <3> QED
        BY Zenon, <2>0, <3>3, <3>4
    <2>3. task'[c] = "queued"
      BY Zenon, <1>0, <2>0
    <2>4. \A i \in DOMAIN Q : Q[i][1] = p
      BY Zenon, <2>1 DEF QueueOf
    <2>5. \A i, j \in DOMAIN Q : Q[i] = Q[j] => i = j
      BY Zenon, <2>1 DEF QueueOf
    <2> HIDE DEF Q, c
    <2>6. \A i \in DOMAIN queue'[p] : \/ i \in DOMAIN Q /\ queue'[p][i] = Q[i]
                                      \/ i = Len(Q) + 1 /\ queue'[p][i] = c
      BY SMTT(60), <2>0
    <2>7. \A i \in DOMAIN queue'[p] : queue'[p][i][1] = p /\ task'[queue'[p][i]] = "queued"
      BY Zenon, <2>0, <2>2, <2>3, <2>4, <2>6
    <2>8. \A i, j \in DOMAIN queue'[p] : queue'[p][i] = queue'[p][j] => i = j
      BY Zenon, <2>2, <2>5, <2>6
    <2> QED
      BY Zenon, <2>7, <2>8 DEF QueueOf
  <1> QED
    BY Zenon, <1>2, <1>3 DEF TaskInv

\* Every step keeps what is known of the tasks and their queues.
LEMMA NextTask ==
    ASSUME RawTypes, TaskInv, [RawNext]_rawVars
    PROVE  TaskInv'
  <1>1. ASSUME UNCHANGED <<queue, task, pend, hold, cohort>>,
               \A x \in Ch : dpc'[x] = "none" => dpc[x] = "none"
        PROVE  TaskInv'
    <2>1. \A x \in Ch : TaskOf(x)'
      BY Zenon, <1>1, TaskSame DEF TaskInv
    <2>2. queue' = queue /\ task' = task
      BY Zenon, <1>1
    <2>3. ASSUME NEW p \in PW PROVE QueueOf(p)'
      <3>1. QueueOf(p)
        BY Zenon DEF TaskInv
      <3> QED
        BY Zenon, <2>2, <3>1 DEF QueueOf
    <2> QED
      BY Zenon, <2>1, <2>3 DEF TaskInv
  <1>2. ASSUME \/ \E r \in Req : SchedPublish(r) \/ SchedAnnounce(r) \/ SchedDrop(r)
               \/ \E p \in PW : \E r \in Req : RecordPublish(p, r) \/ RecordAnnounce(p, r) \/ Sweep(p, r)
               \/ \E p \in PW : \E N \in SUBSET Req : \E popped \in SUBSET N : RecordDrop(p, N, popped)
               \/ \E p \in PW : Crash(p)
               \/ UNCHANGED rawVars
        PROVE  TaskInv'
    <2>1. UNCHANGED <<queue, task, pend, hold, cohort, dpc>>
      BY ZenonT(60), <1>2 DEF SchedPublish, SchedAnnounce, SchedDrop, RecordPublish, RecordAnnounce, Sweep,
         RecordDrop, Crash, rawVars, taskVars, dVars
    <2> QED
      BY Zenon, <1>1, <2>1
  <1>3. ASSUME NEW d \in DW, NEW b \in Batch, EngineUnknown(d, b) PROVE TaskInv'
    <2>1. /\ UNCHANGED <<queue, task, pend, hold, cohort>>
          /\ dpc' = [ch \in Ch |-> IF ch[2] = d /\ ch[3] = b THEN "done" ELSE dpc[ch]]
      BY Zenon, <1>3 DEF EngineUnknown, To, taskVars
    <2>2. \A x \in Ch : dpc'[x] = "none" => dpc[x] = "none"
      BY Zenon, <2>1
    <2> QED
      BY Zenon, <1>1, <2>1, <2>2
  <1>4. ASSUME NEW ch \in Ch, OnResponse(ch) \/ OnTimeout(ch) PROVE TaskInv'
    <2>1. /\ UNCHANGED <<queue, task, pend, hold, cohort>>
          /\ \E v \in {"recv", "done"} : dpc' = [dpc EXCEPT ![ch] = v]
      BY Zenon, <1>4 DEF OnResponse, OnTimeout, taskVars
    <2>2. \A x \in Ch : dpc'[x] = "none" => dpc[x] = "none"
      BY Zenon, <2>1 DEF RawTypes, RecvTypes
    <2> QED
      BY Zenon, <1>1, <2>1, <2>2
  <1> QED
    BY Zenon, <1>2, <1>3, <1>4, TaskSender, TaskReceive DEF RawNext

-----------------------------------------------------------------------------
\* The entries of reqs_need_send and their use.

\* A decode worker is neither the engine nor no one.
LEMMA NamesApart == \A ch \in Ch : ch[2] # Engine /\ ch[2] # None /\ ch[2] \in Obj
  <1>1. \A d \in DW : d # Engine /\ d # None /\ d \in Obj
    BY Zenon, RawAssumption DEF Obj
  <1> QED
    BY Zenon, <1>1, ChFacts

\* A finite set of cardinality 0 has no members.
LEMMA NoMembers ==
    ASSUME NEW S, IsFiniteSet(S), Cardinality(S) = 0, NEW x \in S
    PROVE  FALSE
  <1>1. Countable(S)
    BY Zenon, SetFactsHold DEF SetFacts
  <1> QED
    BY Zenon, <1>1 DEF Countable

\* The entry of a request, and its use by a task, that a step leaves alone.
LEMMA EntryKeep ==
    ASSUME NEW p, NEW r, EntryOf(p, r), freed'[p][r] = freed[p][r], seen'[p][r] = seen[p][r],
           cur'[p][r] = cur[p][r], \A o : <<p, r, o>> \in ready' <=> <<p, r, o>> \in ready
    PROVE  EntryOf(p, r)'
  BY Zenon DEF EntryOf

\* A step that leaves the entry of a request and the task alone keeps the use.
LEMMA UseKeep ==
    ASSUME NEW ch \in Ch, NEW r, UseOf(ch, r), freed'[ch[1]][r] = freed[ch[1]][r],
           cur'[ch[1]][r] = cur[ch[1]][r],
           \A o : <<ch[1], r, o>> \in ready' <=> <<ch[1], r, o>> \in ready,
           task'[ch] = task[ch], hold'[ch] = hold[ch], pend'[ch] = pend[ch], cohort'[ch] = cohort[ch]
    PROVE  UseOf(ch, r)'
  BY Zenon DEF UseOf, Active, Started

\* An object that is not ready is used by no task.
LEMMA NoneActive ==
    ASSUME EntryInv, ObjTypes, NEW ch \in Ch, NEW r \in Req, seen[ch[1]][r] # "announced"
    PROVE  ~ Active(ch, r) /\ freed[ch[1]][r] = 0 /\ \A o : <<ch[1], r, o>> \notin ready
  <1>0. ch[1] \in PW
    BY Zenon, ChFacts
  <1>1. EntryOf(ch[1], r) /\ UseOf(ch, r)
    BY Zenon, <1>0 DEF EntryInv
  <1>2. \A o : <<ch[1], r, o>> \in ready => o \in Obj
    BY Zenon DEF ObjTypes, Key
  <1>3. \A o : <<ch[1], r, o>> \notin ready
    BY Zenon, <1>1, <1>2 DEF EntryOf
  <1>4. ~ Active(ch, r)
    BY Zenon, <1>1, <1>3 DEF UseOf
  <1>5. freed[ch[1]][r] \in Nat /\ ~ (freed[ch[1]][r] > 0)
    BY Zenon, <1>0, <1>1 DEF EntryOf, ObjTypes
  <1> QED
    BY SMTT(60), <1>3, <1>4, <1>5

\* The step of another component.
LEMMA EntryRest ==
    ASSUME EntryInv, UNCHANGED <<seen, cur, ready, freed, task, pend, cohort, hold>>
    PROVE  EntryInv'
  <1>1. ASSUME NEW p \in PW, NEW r \in Req PROVE EntryOf(p, r)'
    BY Zenon, EntryKeep DEF EntryInv
  <1>2. ASSUME NEW ch \in Ch, NEW r \in Req PROVE UseOf(ch, r)'
    BY Zenon, UseKeep DEF EntryInv
  <1> QED
    BY Zenon, <1>1, <1>2 DEF EntryInv

\* The entry of one request at one worker, and the tasks that use it, are all
\* that a step of record_send_reqs or _sweep_expired_sends can disturb.
Tasks == <<task, pend, cohort, hold>>
Apart(p, r) == \A q \in PW, s \in Req : q # p \/ s # r =>
    /\ freed'[q][s] = freed[q][s] /\ seen'[q][s] = seen[q][s] /\ cur'[q][s] = cur[q][s]
    /\ \A o : <<q, s, o>> \in ready' <=> <<q, s, o>> \in ready

\* A step of the engine disturbs the entry of one request on one prefill worker.
LEMMA EntryOne ==
    ASSUME EntryInv, UNCHANGED Tasks, NEW p \in PW, NEW r \in Req, Apart(p, r), EntryOf(p, r)',
           \A ch \in Ch : ch[1] = p => UseOf(ch, r)'
    PROVE  EntryInv'
  <1>1. ASSUME NEW q \in PW, NEW s \in Req PROVE EntryOf(q, s)'
    <2>1. CASE q # p \/ s # r
      BY Zenon, <2>1, EntryKeep DEF EntryInv, Apart
    <2> QED
      BY Zenon, <2>1
  <1>2. ASSUME NEW ch \in Ch, NEW s \in Req PROVE UseOf(ch, s)'
    <2>1. CASE ch[1] # p \/ s # r
      <3>1. ch[1] \in PW /\ UseOf(ch, s)
        BY Zenon, ChFacts DEF EntryInv
      <3>2. /\ freed'[ch[1]][s] = freed[ch[1]][s] /\ cur'[ch[1]][s] = cur[ch[1]][s]
            /\ \A o : <<ch[1], s, o>> \in ready' <=> <<ch[1], s, o>> \in ready
        BY Zenon, <2>1, <3>1 DEF Apart
      <3>3. task'[ch] = task[ch] /\ hold'[ch] = hold[ch] /\ pend'[ch] = pend[ch] /\ cohort'[ch] = cohort[ch]
        BY Zenon DEF Tasks
      <3> QED
        BY Zenon, <3>1, <3>2, <3>3, UseKeep
    <2> QED
      BY Zenon, <2>1
  <1> QED
    BY Zenon, <1>1, <1>2 DEF EntryInv

\* record_send_reqs publishes a request: its entry is made, or kept when a pull made it.
LEMMA EntryPublish ==
    ASSUME RawTypes, EntryInv, NEW p \in PW, NEW r \in Req, RecordPublish(p, r)
    PROVE  EntryInv'
  <1> USE DEF RawTypes
  <1>1. /\ seen[p][r] = "idle" /\ UNCHANGED <<ready, freed>> /\ UNCHANGED Tasks
        /\ seen' = [seen EXCEPT ![p][r] = "published"]
        /\ cur' = [cur EXCEPT ![p][r] = IF cur[p][r] = None THEN Engine ELSE cur[p][r]]
    BY Zenon DEF RecordPublish, taskVars, Tasks
  <1>2. Apart(p, r)
    BY Zenon, <1>1 DEF Apart, ObjTypes
  <1>3. /\ seen'[p][r] = "published" /\ freed'[p][r] = freed[p][r]
        /\ cur'[p][r] = IF cur[p][r] = None THEN Engine ELSE cur[p][r]
    BY Zenon, <1>1 DEF ObjTypes
  <1>4. EntryOf(p, r)
    BY Zenon DEF EntryInv
  <1>5. \A o \in Obj : <<p, r, o>> \notin ready
    BY Zenon, <1>1, <1>4 DEF EntryOf
  <1>6. EntryOf(p, r)'
    BY Zenon, <1>1, <1>3, <1>4, <1>5 DEF EntryOf
  <1>7. ASSUME NEW ch \in Ch, ch[1] = p PROVE UseOf(ch, r)'
    <2>1. UseOf(ch, r)
      BY Zenon DEF EntryInv
    <2>2. ~ Active(ch, r) /\ \A o : <<ch[1], r, o>> \notin ready
      <3>1. seen[ch[1]][r] # "announced"
        BY Zenon, <1>1, <1>7
      <3> QED
        BY Zenon, <3>1, NoneActive
    <2>3. ~ Active(ch, r)' /\ \A o : <<ch[1], r, o>> \notin ready'
      BY Zenon, <1>1, <2>2 DEF Active, Tasks
    <2>4. Started(ch)' = Started(ch)
      BY Zenon, <1>1 DEF Started, Tasks
    <2>5. ~ Started(ch) /\ r \in ReqsOf[ch[3]] => cur'[ch[1]][r] # ch[2]
      <3>1. ch[2] # Engine
        BY Zenon, NamesApart
      <3> QED
        BY Zenon, <1>3, <1>7, <2>1, <3>1 DEF UseOf
    <2> QED
      BY Zenon, <2>3, <2>4, <2>5 DEF UseOf
  <1> QED
    BY Zenon, <1>1, <1>2, <1>6, <1>7, EntryOne

\* record_send_reqs announces the blocks of a request: its entry becomes ready.
LEMMA EntryAnnounce ==
    ASSUME RawTypes, EntryInv, NEW p \in PW, NEW r \in Req, RecordAnnounce(p, r)
    PROVE  EntryInv'
  <1> USE DEF RawTypes
  <1>1. /\ seen[p][r] = "published" /\ UNCHANGED <<cur, freed>> /\ UNCHANGED Tasks
        /\ seen' = [seen EXCEPT ![p][r] = "announced"]
        /\ ready' = ready \cup {k \in Key : k = <<p, r, cur[p][r]>>}
    BY Zenon DEF RecordAnnounce, taskVars, Tasks
  <1>2. Apart(p, r)
    BY Zenon, <1>1 DEF Apart, ObjTypes
  <1>3. seen'[p][r] = "announced"
    BY Zenon, <1>1 DEF ObjTypes
  <1>4. EntryOf(p, r)
    BY Zenon DEF EntryInv
  <1>5. freed[p][r] = 0 /\ \A o \in Obj : <<p, r, o>> \notin ready
    BY SMTT(60), <1>1, <1>4 DEF EntryOf, ObjTypes
  <1>6. EntryOf(p, r)'
    BY SMTT(60), <1>1, <1>3, <1>5 DEF EntryOf
  <1>7. ASSUME NEW ch \in Ch, ch[1] = p PROVE UseOf(ch, r)'
    <2>1. UseOf(ch, r)
      BY Zenon DEF EntryInv
    <2>2. ~ Active(ch, r) /\ \A o : <<ch[1], r, o>> \notin ready
      <3>1. seen[ch[1]][r] # "announced"
        BY Zenon, <1>1, <1>7
      <3> QED
        BY Zenon, <3>1, NoneActive
    <2>3. \A o : <<ch[1], r, o>> \in ready' => o = cur[p][r]
      BY Zenon, <1>1, <1>7, <2>2
    <2>4. Active(ch, r)' => hold'[ch][r] = cur'[ch[1]][r] /\ <<ch[1], r, hold'[ch][r]>> \in ready'
      <3>1. ~ (task[ch] = "xfer" /\ r \in cohort[ch])
        BY Zenon, <2>2 DEF Active
      <3> QED
        BY Zenon, <1>1, <1>7, <2>3, <3>1 DEF Active, Tasks
    <2>5. Started(ch)' = Started(ch)
      BY Zenon, <1>1 DEF Started, Tasks
    <2>6. ~ Started(ch) /\ r \in ReqsOf[ch[3]] =>
             cur'[ch[1]][r] # ch[2] /\ <<ch[1], r, ch[2]>> \notin ready'
      BY Zenon, <1>1, <1>7, <2>1, <2>3 DEF UseOf
    <2> QED
      BY Zenon, <1>1, <1>5, <1>7, <2>4, <2>5, <2>6 DEF UseOf
  <1> QED
    BY Zenon, <1>1, <1>2, <1>6, <1>7, EntryOne

\* reqs_not_processed: no task uses an entry that was not announced.
LEMMA EntryDrop ==
    ASSUME RawTypes, EntryInv, NEW p \in PW, NEW N \in SUBSET Req, NEW popped \in SUBSET N,
           RecordDrop(p, N, popped)
    PROVE  EntryInv'
  <1> USE DEF RawTypes
  <1>1. /\ \A r \in N : seen[p][r] # "announced"
        /\ UNCHANGED <<ready, freed>> /\ UNCHANGED Tasks
        /\ seen' = [seen EXCEPT ![p] = [r \in Req |-> IF r \in N THEN "dropped" ELSE seen[p][r]]]
        /\ cur' = [cur EXCEPT ![p] = [r \in Req |-> IF r \in popped THEN None ELSE cur[p][r]]]
    <2>1. \A r \in N : seen[p][r] \in {"published", "idle"}
      BY Zenon DEF RecordDrop
    <2>2. \A r \in N : seen[p][r] # "announced"
      BY Zenon, <2>1
    <2> QED
      BY Zenon, <2>2 DEF RecordDrop, taskVars, Tasks
  <1>2. \A q \in PW, s \in Req : ~ (q = p /\ s \in N) => seen'[q][s] = seen[q][s] /\ cur'[q][s] = cur[q][s]
    BY Zenon, <1>1 DEF ObjTypes
  <1>3. \A s \in N : seen'[p][s] = "dropped" /\ cur'[p][s] \in {None, cur[p][s]}
    BY Zenon, <1>1 DEF ObjTypes
  <1>4. ASSUME NEW q \in PW, NEW s \in Req PROVE EntryOf(q, s)'
    <2>1. EntryOf(q, s)
      BY Zenon DEF EntryInv
    <2>2. CASE ~ (q = p /\ s \in N)
      BY Zenon, <1>1, <1>2, <2>1, <2>2, EntryKeep
    <2>3. CASE q = p /\ s \in N
      <3>1. freed[q][s] = 0 /\ \A o \in Obj : <<q, s, o>> \notin ready
        BY SMTT(60), <1>1, <2>1, <2>3 DEF EntryOf, ObjTypes
      <3> QED
        BY SMTT(60), <1>1, <3>1 DEF EntryOf
    <2> QED
      BY Zenon, <2>2, <2>3
  <1>5. ASSUME NEW ch \in Ch, NEW s \in Req PROVE UseOf(ch, s)'
    <2>1. UseOf(ch, s) /\ ch[1] \in PW
      BY Zenon, ChFacts DEF EntryInv
    <2>2. CASE ~ (ch[1] = p /\ s \in N)
      <3>1. seen'[ch[1]][s] = seen[ch[1]][s] /\ cur'[ch[1]][s] = cur[ch[1]][s]
        BY Zenon, <1>2, <2>1, <2>2
      <3>2. task'[ch] = task[ch] /\ hold'[ch] = hold[ch] /\ pend'[ch] = pend[ch] /\ cohort'[ch] = cohort[ch]
        BY Zenon, <1>1 DEF Tasks
      <3> QED
        BY Zenon, <1>1, <2>1, <3>1, <3>2, UseKeep
    <2>3. CASE ch[1] = p /\ s \in N
      <3>1. ~ Active(ch, s) /\ \A o : <<ch[1], s, o>> \notin ready
        BY Zenon, <1>1, <2>3, NoneActive
      <3>2. ~ Active(ch, s)' /\ \A o : <<ch[1], s, o>> \notin ready'
        BY Zenon, <1>1, <3>1 DEF Active, Tasks
      <3>3. Started(ch)' = Started(ch)
        BY Zenon, <1>1 DEF Started, Tasks
      <3>4. ~ Started(ch) /\ s \in ReqsOf[ch[3]] => cur'[ch[1]][s] # ch[2]
        <4>1. ch[2] # None
          BY Zenon, NamesApart
        <4>2. cur'[ch[1]][s] = None \/ cur'[ch[1]][s] = cur[ch[1]][s]
          BY Zenon, <1>3, <2>3
        <4> QED
          BY Zenon, <2>1, <4>1, <4>2 DEF UseOf
      <3> QED
        BY Zenon, <3>2, <3>3, <3>4 DEF UseOf
    <2> QED
      BY Zenon, <2>2, <2>3
  <1> QED
    BY Zenon, <1>4, <1>5 DEF EntryInv

\* _sweep_expired_sends: an object that is being sent has a positive count, and
\* one that a task waits for is not overlooked.
LEMMA EntrySweep ==
    ASSUME RawTypes, EntryInv, TaskInv, ClaimInv, NEW p \in PW, NEW r \in Req, Sweep(p, r)
    PROVE  EntryInv'
  <1> USE DEF RawTypes
  <1> DEFINE k == <<p, r, cur[p][r]>>
  <1>1. /\ k \in ready /\ sending[k] = 0 /\ Overlooked(p, k)
        /\ UNCHANGED <<ready, seen>> /\ UNCHANGED Tasks
        /\ freed' = [freed EXCEPT ![p][r] = freed[p][r] + 1]
        /\ cur' = [cur EXCEPT ![p][r] = None]
    BY Zenon DEF Sweep, Expires, taskVars, Tasks
  <1>2. Apart(p, r)
    BY Zenon, <1>1 DEF Apart, ObjTypes
  <1>3. freed'[p][r] = freed[p][r] + 1 /\ cur'[p][r] = None
    BY Zenon, <1>1 DEF ObjTypes
  <1>4. EntryOf(p, r)
    BY Zenon DEF EntryInv
  <1>5. cur[p][r] \in Obj
    BY Zenon, <1>1 DEF ObjTypes, Key
  <1>6. freed[p][r] = 0 /\ seen[p][r] = "announced"
    <2>1. freed[p][r] \in Nat /\ ~ (freed[p][r] > 0) /\ seen[p][r] = "announced"
      BY Zenon, <1>1, <1>4, <1>5 DEF EntryOf, ObjTypes
    <2> QED
      BY SMTT(60), <2>1
  <1>7. <<p, r, None>> \notin ready
    BY Zenon, RawAssumption DEF ObjTypes, Key, Obj
  <1>8. EntryOf(p, r)'
    BY SMTT(60), <1>1, <1>3, <1>6, <1>7 DEF EntryOf
  <1>9. ASSUME NEW ch \in Ch, ch[1] = p PROVE UseOf(ch, r)'
    <2>1. UseOf(ch, r)
      BY Zenon DEF EntryInv
    <2>2. ASSUME Active(ch, r) PROVE FALSE
      <3>0. cur[p][r] = hold[ch][r] /\ ch[2] \in DW /\ ch[3] \in Batch /\ ch = <<p, ch[2], ch[3]>>
        BY Zenon, <1>9, <2>1, <2>2, ChFacts DEF UseOf
      <3>1. CASE r \in cohort[ch]
        <4>1. ch[2] \in Users(p, r, cur[p][r])
          BY Zenon, <3>0, <3>1 DEF Users
        <4>2. Cardinality(Users(p, r, cur[p][r])) = 0
          BY Zenon, <1>1, <1>5 DEF ClaimInv, ClaimOf
        <4>3. Users(p, r, cur[p][r]) \in SUBSET DW
          BY Zenon DEF Users
        <4>4. IsFiniteSet(Users(p, r, cur[p][r]))
          BY Zenon, <4>3, WorkerAssumption, CardinalitySubset
        <4> QED
          BY Zenon, <4>1, <4>2, <4>4, NoMembers
      <3>2. CASE r \in pend[ch]
        <4>1. k[2] = r /\ k[3] = cur[p][r]
          BY SMT
        <4>2. \A d \in DW, b \in Batch : ~ (r \in pend[<<p, d, b>>] /\ hold[<<p, d, b>>][r] = cur[p][r])
          BY Zenon, <1>1, <4>1 DEF Overlooked
        <4> QED
          BY Zenon, <3>0, <3>2, <4>2
      <3> QED
        BY Zenon, <2>2, <3>1, <3>2 DEF Active
    <2>3. ~ Active(ch, r)'
      BY Zenon, <1>1, <2>2 DEF Active, Tasks
    <2>4. Started(ch)' = Started(ch)
      BY Zenon, <1>1 DEF Started, Tasks
    <2>5. ch[2] # None
      BY Zenon, NamesApart
    <2> QED
      BY Zenon, <1>1, <1>3, <1>9, <2>1, <2>3, <2>4, <2>5 DEF UseOf
  <1> QED
    BY Zenon, <1>1, <1>2, <1>8, <1>9, EntryOne

\* The step of a sender task that takes nothing from reqs_need_send.
LEMMA EntryMove ==
    ASSUME EntryInv, NEW ch \in Ch, Only(ch), hold'[ch] = hold[ch], UNCHANGED <<seen, cur, ready, freed>>,
           Started(ch)', \A r \in Req : Active(ch, r)' => Active(ch, r)
    PROVE  EntryInv'
  <1>1. ASSUME NEW p \in PW, NEW r \in Req PROVE EntryOf(p, r)'
    BY Zenon, EntryKeep DEF EntryInv
  <1>2. ASSUME NEW x \in Ch, NEW r \in Req PROVE UseOf(x, r)'
    <2>1. UseOf(x, r)
      BY Zenon DEF EntryInv
    <2>2. CASE x = ch
      BY Zenon, <2>1, <2>2 DEF UseOf
    <2>3. CASE x # ch
      <3>1. task'[x] = task[x] /\ hold'[x] = hold[x] /\ pend'[x] = pend[x] /\ cohort'[x] = cohort[x]
        BY Zenon, <2>3 DEF Only
      <3> QED
        BY Zenon, <2>1, <3>1, UseKeep
    <2> QED
      BY Zenon, <2>2, <2>3
  <1> QED
    BY Zenon, <1>1, <1>2 DEF EntryInv

\* Two batches have no request in common.
LEMMA SameBatch ==
    ASSUME NEW x \in Ch, NEW y \in Ch, NEW r \in ReqsOf[x[3]], r \in ReqsOf[y[3]]
    PROVE  x[3] = y[3]
  <1>1. x[3] \in Batch /\ y[3] \in Batch
    BY Zenon, ChFacts
  <1> QED
    BY Zenon, <1>1, BatchAssumption

\* A worker pair carries a request on one channel, because batches are disjoint.
LEMMA SameChannel ==
    ASSUME NEW x \in Ch, NEW y \in Ch, NEW r \in ReqsOf[x[3]], r \in ReqsOf[y[3]],
           x[1] = y[1], x[2] = y[2]
    PROVE  x = y
  <1>1. x[3] = y[3]
    BY Zenon, SameBatch
  <1>2. x = <<x[1], x[2], x[3]>> /\ y = <<y[1], y[2], y[3]>>
    BY Zenon, ChFacts
  <1> QED
    BY Zenon, <1>1, <1>2

\* send_kv_to_decode takes the entries of the batch, or makes them.
LEMMA EntryTake ==
    ASSUME RawTypes, EntryInv, TaskInv, NEW p \in PW, TakeRequest(p)
    PROVE  EntryInv'
  <1> USE DEF RawTypes
  <1>1. PICK ch \in Ch : /\ Dequeue(p, ch)
                         /\ MoveTo(ch, "wait", ReqsOf[ch[3]], cohort[ch], Entry(p, ch))
                         /\ cur' = [cur EXCEPT ![p] = Entry(p, ch)]
                         /\ UNCHANGED <<seen, ready, sent, sending, freed, resp, dVars>>
    BY Zenon, MoveTake
  <1>2. ch[1] = p /\ task[ch] = "queued" /\ cohort[ch] = {} /\ ch[2] \in Obj /\ ch[2] # None
    BY Zenon, <1>1, DequeueFacts, NamesApart
  <1>3. ~ Started(ch)
    BY Zenon, <1>2 DEF Started
  <1>4. \A q \in PW, s \in Req : ~ (q = p /\ s \in ReqsOf[ch[3]] /\ cur[p][s] = None) => cur'[q][s] = cur[q][s]
    BY Zenon, <1>1 DEF Entry, ObjTypes
  <1>5. \A s \in Req : s \in ReqsOf[ch[3]] /\ cur[p][s] = None => cur'[p][s] = ch[2]
    BY Zenon, <1>1 DEF Entry, ObjTypes
  <1>6. \A s \in ReqsOf[ch[3]] : <<p, s, ch[2]>> \notin ready
    BY Zenon, <1>2, <1>3, ChFacts DEF EntryInv, UseOf
  <1>7. ASSUME NEW q \in PW, NEW s \in Req PROVE EntryOf(q, s)'
    <2>1. EntryOf(q, s)
      BY Zenon DEF EntryInv
    <2>2. CASE cur'[q][s] = cur[q][s]
      BY Zenon, <1>1, <2>1, <2>2, EntryKeep
    <2>3. CASE cur'[q][s] # cur[q][s]
      <3>1. q = p /\ s \in ReqsOf[ch[3]] /\ cur'[q][s] = ch[2]
        BY Zenon, <1>4, <1>5, <2>3
      <3>2. <<q, s, cur'[q][s]>> \notin ready
        BY Zenon, <1>6, <3>1
      <3> QED
        BY Zenon, <1>1, <2>1, <3>2 DEF EntryOf
    <2> QED
      BY Zenon, <2>2, <2>3
  <1>8. ASSUME NEW s \in Req PROVE UseOf(ch, s)'
    <2>1. Started(ch)'
      BY Zenon, <1>1 DEF Started, MoveTo
    <2>2. ASSUME Active(ch, s)'
          PROVE  /\ freed'[ch[1]][s] = 0 /\ cur'[ch[1]][s] = hold'[ch][s]
                 /\ <<ch[1], s, hold'[ch][s]>> \in ready'
      <3>1. s \in ReqsOf[ch[3]] /\ <<p, s, Entry(p, ch)[s]>> \in ready
        <4>1. task'[ch] = "wait" /\ pend'[ch] = ReqsOf[ch[3]] /\ hold'[ch] = Entry(p, ch) /\ ready' = ready
          BY Zenon, <1>1 DEF MoveTo
        <4>2. task'[ch] # "xfer"
          BY SMT, <4>1
        <4> QED
          BY Zenon, <1>2, <2>2, <4>1, <4>2 DEF Active
      <3>2. cur'[p] = Entry(p, ch) /\ hold'[ch] = Entry(p, ch) /\ ready' = ready /\ freed' = freed
        BY Zenon, <1>1 DEF MoveTo, ObjTypes
      <3>3. <<p, s, cur'[p][s]>> \in ready'
        BY Zenon, <3>1, <3>2
      <3>4. ~ (freed'[p][s] > 0) /\ freed[p][s] \in Nat
        <4>1. EntryOf(p, s)'
          BY Zenon, <1>7
        <4>2. ~ (freed'[p][s] > 0)
          BY Zenon, <3>3, <4>1 DEF EntryOf
        <4>3. freed[p][s] \in Nat
          BY Zenon DEF ObjTypes
        <4> QED
          BY Zenon, <4>2, <4>3
      <3>5. freed'[p][s] = 0
        BY SMTT(60), <3>2, <3>4
      <3> QED
        BY Zenon, <1>2, <3>1, <3>2, <3>5
    <2> QED
      BY Zenon, <2>1, <2>2 DEF UseOf
  <1>9. ASSUME NEW x \in Ch, x # ch, NEW s \in Req PROVE UseOf(x, s)'
    <2>1. UseOf(x, s) /\ x[1] \in PW /\ x[2] # None
      BY Zenon, ChFacts, NamesApart DEF EntryInv
    <2>2. task'[x] = task[x] /\ hold'[x] = hold[x] /\ pend'[x] = pend[x] /\ cohort'[x] = cohort[x]
      BY Zenon, <1>1, <1>9 DEF MoveTo, Only
    <2>3. CASE cur'[x[1]][s] = cur[x[1]][s]
      BY Zenon, <1>1, <2>1, <2>2, <2>3, UseKeep
    <2>4. CASE cur'[x[1]][s] # cur[x[1]][s]
      <3>1. x[1] = p /\ s \in ReqsOf[ch[3]] /\ cur[p][s] = None /\ cur'[x[1]][s] = ch[2]
        BY Zenon, <1>4, <1>5, <2>1, <2>4
      <3>2. <<p, s, None>> \notin ready
        BY Zenon, RawAssumption DEF ObjTypes, Key, Obj
      <3>3. ~ Active(x, s)
        BY Zenon, <2>1, <3>1, <3>2 DEF UseOf
      <3>4. Active(x, s)' = Active(x, s) /\ Started(x)' = Started(x) /\ ready' = ready
        BY Zenon, <1>1, <2>2 DEF Active, Started
      <3>5. s \in ReqsOf[x[3]] => x[2] # ch[2]
        BY Zenon, <1>2, <1>9, <3>1, SameChannel
      <3> QED
        BY Zenon, <2>1, <3>1, <3>3, <3>4, <3>5 DEF UseOf
    <2> QED
      BY Zenon, <2>3, <2>4
  <1> QED
    BY Zenon, <1>7, <1>8, <1>9 DEF EntryInv

\* The steps of a sender task that leave reqs_need_send alone.
LEMMA EntryTask ==
    ASSUME RawTypes, EntryInv, TaskInv, NEW ch \in Ch,
           \/ \E p \in PW : RefuseRequest(p)
           \/ Wake(ch) \/ XferRaise(ch) \/ WaitTimeout(ch)
    PROVE  EntryInv'
  <1> USE DEF RawTypes
  <1>1. ASSUME NEW p \in PW, RefuseRequest(p) PROVE EntryInv'
    <2>1. PICK x \in Ch : /\ Dequeue(p, x) /\ MoveTo(x, "done", pend[x], cohort[x], hold[x])
                          /\ UNCHANGED <<seen, objVars>>
      BY Zenon, <1>1, MoveRefuse
    <2>2. pend[x] = {} /\ cohort[x] = {}
      BY Zenon, <2>1, DequeueFacts
    <2>3. Started(x)' /\ \A r \in Req : ~ Active(x, r)'
      BY Zenon, <2>1, <2>2 DEF Started, Active, MoveTo
    <2> QED
      BY Zenon, <2>1, <2>3, EntryMove DEF MoveTo, objVars
  <1>2. ASSUME Wake(ch) PROVE EntryInv'
    <2>1. /\ MoveTo(ch, "xfer", pend[ch] \ ReadyOf(ch), Still(ch), hold[ch])
          /\ UNCHANGED <<seen, cur, ready, freed>>
      BY Zenon, <1>2, MoveWake
    <2>2. Started(ch)'
      BY Zenon, <2>1 DEF Started, MoveTo
    <2>3. ASSUME NEW r \in Req, Active(ch, r)' PROVE Active(ch, r)
      <3>1. /\ cohort'[ch] = Still(ch) /\ pend'[ch] = pend[ch] \ ReadyOf(ch)
            /\ hold'[ch] = hold[ch] /\ ready' = ready
        BY Zenon, <2>1 DEF MoveTo
      <3>2. r \in pend[ch] /\ <<ch[1], r, hold[ch][r]>> \in ready
        BY Zenon, <2>3, <3>1 DEF Active, Still, ReadyOf
      <3> QED
        BY Zenon, <3>2 DEF Active
    <2> QED
      BY Zenon, <2>1, <2>2, <2>3, EntryMove DEF MoveTo
  <1>3. ASSUME XferRaise(ch) \/ WaitTimeout(ch) PROVE EntryInv'
    <2>1. /\ \/ MoveTo(ch, "raised", {}, cohort[ch], hold[ch])
             \/ MoveTo(ch, "done", {}, cohort[ch], hold[ch])
          /\ UNCHANGED <<seen, objVars>>
      BY Zenon, <1>3, MoveStop
    <2>2. Started(ch)' /\ \A r \in Req : ~ Active(ch, r)'
      BY Zenon, <2>1 DEF Started, Active, MoveTo
    <2>3. Only(ch) /\ hold'[ch] = hold[ch]
      BY Zenon, <2>1 DEF MoveTo
    <2> QED
      BY Zenon, <2>1, <2>2, <2>3, EntryMove DEF objVars
  <1> QED
    BY Zenon, <1>1, <1>2, <1>3

\* The worker a task of which still has a request to send is not among those
\* that have been served.
LEMMA NotServed ==
    ASSUME RawTypes, TaskInv, NEW x \in Ch, NEW r \in pend[x] \cup cohort[x]
    PROVE  x[2] \notin Served(x[1], r)
  <1>1. r \in ReqsOf[x[3]] /\ x[1] \in PW /\ x[2] \in DW
    BY Zenon, ChFacts DEF TaskInv, TaskOf
  <1> SUFFICES ASSUME NEW b \in Batch, r \in ReqsOf[b], Over(<<x[1], x[2], b>>, r) PROVE FALSE
    BY Zenon DEF Served
  <1>2. <<x[1], x[2], b>> \in Ch /\ <<x[1], x[2], b>>[1] = x[1] /\ <<x[1], x[2], b>>[2] = x[2]
        /\ <<x[1], x[2], b>>[3] = b
    BY Zenon, <1>1, ChFacts
  <1>3. <<x[1], x[2], b>> = x
    BY Zenon, <1>1, <1>2, SameChannel
  <1> QED
    BY Zenon, <1>3 DEF Over

\* The decode workers served are no more than the decode workers.
LEMMA ServedFinite ==
    ASSUME NEW p, NEW r
    PROVE  /\ IsFiniteSet(Served(p, r)) /\ Cardinality(Served(p, r)) \in Nat
           /\ Cardinality(Served(p, r)) <= Cardinality(DW)
  <1>1. Served(p, r) \in SUBSET DW
    BY Zenon DEF Served
  <1>2. Countable(DW)
    BY Zenon, WorkerAssumption, SetFactsHold DEF SetFacts
  <1>3. IsFiniteSet(Served(p, r)) /\ Cardinality(Served(p, r)) <= Cardinality(DW)
    BY Zenon, <1>1, <1>2 DEF Countable
  <1>4. Countable(Served(p, r))
    BY Zenon, <1>3, SetFactsHold DEF SetFacts
  <1> QED
    BY Zenon, <1>3, <1>4 DEF Countable

\* A set that misses two members of another is smaller by two.
LEMMA TwoLess ==
    ASSUME NEW S, IsFiniteSet(S), NEW T \in SUBSET S, NEW x \in S, NEW y \in S, x # y, x \notin T, y \notin T
    PROVE  Cardinality(T) <= Cardinality(S) - 2
  <1>1. Countable(S)
    BY Zenon, SetFactsHold DEF SetFacts
  <1>2. IsFiniteSet(S \ {x}) /\ Cardinality(S \ {x}) = Cardinality(S) - 1 /\ Cardinality(S) \in Nat
    BY Zenon, <1>1 DEF Countable
  <1>3. Countable(S \ {x})
    BY Zenon, <1>2, SetFactsHold DEF SetFacts
  <1>4. y \in S \ {x}
    OBVIOUS
  <1>5. IsFiniteSet((S \ {x}) \ {y}) /\ Cardinality((S \ {x}) \ {y}) = Cardinality(S \ {x}) - 1
    BY Zenon, <1>3, <1>4 DEF Countable
  <1>6. T \in SUBSET ((S \ {x}) \ {y})
    OBVIOUS
  <1>7. Countable((S \ {x}) \ {y})
    BY Zenon, <1>5, SetFactsHold DEF SetFacts
  <1>8. Cardinality(T) <= Cardinality((S \ {x}) \ {y})
    BY Zenon, <1>6, <1>7 DEF Countable
  <1>9. IsFiniteSet(T)
    BY Zenon, <1>6, <1>7 DEF Countable
  <1>10. Countable(T)
    BY Zenon, <1>9, SetFactsHold DEF SetFacts
  <1>11. Cardinality(T) \in Nat
    BY Zenon, <1>10 DEF Countable
  <1> HIDE DEF Countable
  <1> QED
    BY SMTT(60), <1>2, <1>5, <1>8, <1>11

\* The task that frees a request is the last: every other decode worker has
\* been served, since a worker counts in sent at most once and there are no
\* more workers than targets.
LEMMA LastUser ==
    ASSUME RawTypes, TaskInv, EntryInv, ClaimInv, NEW ch \in Ch, task[ch] = "xfer",
           NEW r \in cohort[ch], sent[<<ch[1], r, hold[ch][r]>>] + 1 = NeedSend,
           NEW x \in Ch, x # ch, x[1] = ch[1]
    PROVE  r \notin pend[x] \cup cohort[x]
  <1> SUFFICES ASSUME r \in pend[x] \cup cohort[x] PROVE FALSE
    BY Zenon
  <1> USE DEF RawTypes
  <1>1. r \in ReqsOf[ch[3]] /\ r \in ReqsOf[x[3]]
    BY Zenon DEF TaskInv, TaskOf
  <1>2. ch[1] \in PW /\ ch[2] \in DW /\ x[2] \in DW /\ r \in Req
    BY Zenon, <1>1, ChFacts
  <1>3. ch[2] # x[2]
    BY Zenon, <1>1, SameChannel
  <1>4. ch[2] \notin Served(ch[1], r) /\ x[2] \notin Served(ch[1], r)
    BY Zenon, NotServed
  <1>5. Served(ch[1], r) \in SUBSET DW
    BY Zenon DEF Served
  <1>6. Cardinality(Served(ch[1], r)) <= Cardinality(DW) - 2
    BY Zenon, <1>2, <1>3, <1>4, <1>5, WorkerAssumption, TwoLess
  <1>7. Active(ch, r) /\ UseOf(ch, r)
    BY Zenon, <1>2 DEF Active, EntryInv
  <1>8. <<ch[1], r, hold[ch][r]>> \in ready
    BY Zenon, <1>7 DEF UseOf
  <1>9. hold[ch][r] \in Obj
    BY Zenon, <1>8 DEF ObjTypes, Key
  <1>10. <<ch[1], r, hold[ch][r]>> \in Key
    BY Zenon, <1>2, <1>9 DEF Key
  <1>11. /\ sent[<<ch[1], r, hold[ch][r]>>] <= Cardinality(Served(ch[1], r))
         /\ sent[<<ch[1], r, hold[ch][r]>>] \in Nat
    BY Zenon, <1>2, <1>9, <1>10 DEF ClaimInv, ClaimOf, ObjTypes
  <1>12. Cardinality(Served(ch[1], r)) \in Nat
    BY Zenon, ServedFinite
  <1>13. Cardinality(DW) \in Nat
    <2>1. Countable(DW)
      BY Zenon, WorkerAssumption, SetFactsHold DEF SetFacts
    <2> QED
      BY Zenon, <2>1 DEF Countable
  <1>14. NeedSend \in Nat /\ Cardinality(DW) <= NeedSend
    BY Zenon, RawAssumption, WorkerAssumption
  <1> DEFINE n == sent[<<ch[1], r, hold[ch][r]>>]
             c == Cardinality(Served(ch[1], r))
             m == Cardinality(DW)
  <1>15. n + 1 = NeedSend /\ n <= c /\ c <= m - 2 /\ n \in Nat /\ c \in Nat /\ m \in Nat /\ m <= NeedSend
    BY Zenon, <1>6, <1>11, <1>12, <1>13, <1>14
  <1> HIDE DEF n, c, m
  <1> QED
    BY SMTT(60), <1>14, <1>15

\* The transfer returns and the last task of a request gives its blocks back.
LEMMA EntryEnd ==
    ASSUME RawTypes, EntryInv, TaskInv, ClaimInv, NEW ch \in Ch, NEW E \in SUBSET Req, XferEnd(ch, E)
    PROVE  EntryInv'
  <1> USE DEF RawTypes
  <1> DEFINE p == ch[1]
             L == Last(ch, E)
  <1>1. /\ Only(ch) /\ hold'[ch] = hold[ch] /\ pend'[ch] = pend[ch] /\ cohort'[ch] = {}
        /\ task[ch] = "xfer" /\ UNCHANGED <<seen, ready>>
        /\ freed' = [freed EXCEPT ![p] = [r \in Req |-> freed[p][r] + IF r \in L THEN 1 ELSE 0]]
        /\ cur' = [cur EXCEPT ![p] = [r \in Req |-> IF r \in L THEN None ELSE cur[p][r]]]
    <2>1. \E t \in {"done", "wait"} : MoveTo(ch, t, pend[ch], {}, hold[ch])
      BY Zenon, MoveEnd
    <2> QED
      BY ZenonT(60), <2>1, MoveEnd DEF MoveTo
  <1>2. Started(ch)' /\ p \in PW
    <2>1. \E t \in {"done", "wait"} : task'[ch] = t
      BY Zenon, MoveEnd DEF MoveTo
    <2> QED
      BY Zenon, <2>1, ChFacts DEF Started
  <1>3. \A r \in L : /\ r \in cohort[ch] /\ sent[<<p, r, hold[ch][r]>>] + 1 = NeedSend
    BY Zenon DEF Last
  <1> HIDE DEF L
  <1>4. \A q \in PW, s \in Req : ~ (q = p /\ s \in L) => freed'[q][s] = freed[q][s] /\ cur'[q][s] = cur[q][s]
    BY SMTT(60), <1>1 DEF ObjTypes
  <1>5. \A s \in Req : s \in L => freed'[p][s] = freed[p][s] + 1 /\ cur'[p][s] = None
    BY Zenon, <1>1, <1>2 DEF ObjTypes
  <1>6. ASSUME NEW q \in PW, NEW s \in Req PROVE EntryOf(q, s)'
    <2>1. EntryOf(q, s)
      BY Zenon DEF EntryInv
    <2>2. CASE ~ (q = p /\ s \in L)
      BY Zenon, <1>1, <1>4, <2>1, <2>2, EntryKeep
    <2>3. CASE q = p /\ s \in L
      <3>1. Active(ch, s) /\ UseOf(ch, s)
        BY Zenon, <1>1, <1>3, <2>3 DEF Active, EntryInv
      <3>2. freed[q][s] = 0 /\ <<q, s, hold[ch][s]>> \in ready
        BY Zenon, <2>3, <3>1 DEF UseOf
      <3>3. hold[ch][s] \in Obj
        BY Zenon, <3>2 DEF ObjTypes, Key
      <3>4. seen[q][s] = "announced"
        BY Zenon, <2>1, <3>2, <3>3 DEF EntryOf
      <3>5. <<q, s, None>> \notin ready
        BY Zenon, RawAssumption DEF ObjTypes, Key, Obj
      <3>6. freed'[q][s] = 1 /\ cur'[q][s] = None
        BY SMTT(60), <1>5, <2>3, <3>2
      <3> QED
        BY SMTT(60), <1>1, <3>4, <3>5, <3>6 DEF EntryOf
    <2> QED
      BY Zenon, <2>2, <2>3
  <1>7. ASSUME NEW x \in Ch, NEW s \in Req PROVE UseOf(x, s)'
    <2>1. UseOf(x, s) /\ x[1] \in PW
      BY Zenon, ChFacts DEF EntryInv
    <2>2. Active(x, s)' => Active(x, s)
      <3>1. CASE x = ch
        BY Zenon, <1>1, <3>1 DEF Active
      <3>2. CASE x # ch
        BY Zenon, <1>1, <3>2 DEF Active, Only
      <3> QED
        BY Zenon, <3>1, <3>2
    <2>3. hold'[x] = hold[x] /\ (Started(x)' \/ ~ Started(x))
      BY Zenon, <1>1, <1>2 DEF Only, Started
    <2>4. CASE ~ (x[1] = p /\ s \in L)
      <3>1. freed'[x[1]][s] = freed[x[1]][s] /\ cur'[x[1]][s] = cur[x[1]][s]
        BY Zenon, <1>4, <2>1, <2>4
      <3> QED
        BY Zenon, <1>1, <2>1, <2>2, <2>3, <3>1 DEF UseOf
    <2>5. CASE x[1] = p /\ s \in L
      <3>1. ~ Active(x, s)'
        <4>1. CASE x = ch
          <5>1. s \notin pend[ch]
            BY Zenon, <1>3, <2>5 DEF TaskInv, TaskOf
          <5> QED
            BY Zenon, <1>1, <4>1, <5>1 DEF Active
        <4>2. CASE x # ch
          <5>1. s \notin pend[x] \cup cohort[x]
            BY Zenon, <1>1, <1>3, <2>5, <4>2, LastUser
          <5> QED
            BY Zenon, <1>1, <4>2, <5>1 DEF Active, Only
        <4> QED
          BY Zenon, <4>1, <4>2
      <3>2. cur'[x[1]][s] # x[2]
        BY Zenon, <1>5, <2>5, NamesApart
      <3> QED
        BY Zenon, <1>1, <2>1, <2>3, <3>1, <3>2 DEF UseOf
    <2> QED
      BY Zenon, <2>4, <2>5
  <1> QED
    BY Zenon, <1>6, <1>7 DEF EntryInv

\* receive_kv leaves the entries alone; the tasks it queues have not begun.
LEMMA EntryReceive ==
    ASSUME RawTypes, EntryInv, TaskInv, NEW d \in DW, NEW b \in Batch, ReceiveKv(d, b)
    PROVE  EntryInv'
  <1> USE DEF RawTypes
  <1>0. /\ task' = [ch \in Ch |-> IF ch[2] = d /\ ch[3] = b THEN "queued" ELSE task[ch]]
        /\ UNCHANGED <<seen, objVars, pend, hold, cohort>>
        /\ \A p \in PW : dpc[<<p, d, b>>] = "none"
    BY Zenon DEF ReceiveKv, Idle
  <1>1. ASSUME NEW x \in Ch
        PROVE  /\ task'[x] = "xfer" <=> task[x] = "xfer"
               /\ Started(x)' = Started(x)
    <2>1. CASE x[2] = d /\ x[3] = b
      <3>1. dpc[x] = "none"
        BY SMTT(60), <1>0, <2>1, ChFacts
      <3>2. task[x] = "none"
        BY Zenon, <3>1 DEF TaskInv, TaskOf
      <3>3. task'[x] = "queued"
        BY Zenon, <1>0, <2>1
      <3> QED
        BY Zenon, <3>2, <3>3 DEF Started
    <2>2. CASE ~ (x[2] = d /\ x[3] = b)
      <3>1. task'[x] = task[x]
        BY Zenon, <1>0, <2>2
      <3> QED
        BY Zenon, <3>1 DEF Started
    <2> QED
      BY Zenon, <2>1, <2>2
  <1>2. ASSUME NEW p \in PW, NEW r \in Req PROVE EntryOf(p, r)'
    BY Zenon, <1>0, EntryKeep DEF EntryInv, objVars
  <1>3. ASSUME NEW x \in Ch, NEW r \in Req PROVE UseOf(x, r)'
    <2>1. UseOf(x, r)
      BY Zenon DEF EntryInv
    <2>2. Active(x, r)' => Active(x, r)
      BY Zenon, <1>0, <1>1 DEF Active, objVars
    <2> QED
      BY Zenon, <1>0, <1>1, <2>1, <2>2 DEF UseOf, objVars
  <1> QED
    BY Zenon, <1>2, <1>3 DEF EntryInv

\* Every step keeps what is known of the entries and their use.
LEMMA NextEntry ==
    ASSUME RawTypes, EntryInv, TaskInv, ClaimInv, [RawNext]_rawVars
    PROVE  EntryInv'
  <1>1. ASSUME \/ \E r \in Req : SchedPublish(r) \/ SchedAnnounce(r) \/ SchedDrop(r)
               \/ \E p \in PW : Crash(p)
               \/ \E d \in DW, b \in Batch : EngineUnknown(d, b)
               \/ \E ch \in Ch : OnResponse(ch) \/ OnTimeout(ch)
               \/ UNCHANGED rawVars
        PROVE  EntryInv'
    <2>1. UNCHANGED <<seen, cur, ready, freed, task, pend, cohort, hold>>
      BY Zenon, <1>1 DEF SchedPublish, SchedAnnounce, SchedDrop, Crash, EngineUnknown, OnResponse, OnTimeout,
         rawVars, taskVars, objVars
    <2> QED
      BY Zenon, <2>1, EntryRest
  <1>2. ASSUME NEW p \in PW, RefuseRequest(p) PROVE EntryInv'
    <2>1. PICK ch \in Ch : TRUE
      BY Zenon, <1>2 DEF RefuseRequest
    <2> QED
      BY Zenon, <1>2, <2>1, EntryTask
  <1> QED
    BY Zenon, <1>1, <1>2, EntryPublish, EntryAnnounce, EntryDrop, EntrySweep, EntryTake, EntryTask, EntryEnd,
       EntryReceive DEF RawNext

-----------------------------------------------------------------------------
\* The counters of an entry.

\* A set of decode workers can be counted.
LEMMA WorkersCount ==
    ASSUME NEW S \in SUBSET DW
    PROVE  Countable(S)
  <1>1. IsFiniteSet(S)
    BY Zenon, WorkerAssumption, CardinalitySubset
  <1> QED
    BY Zenon, <1>1, SetFactsHold DEF SetFacts

\* Fewer decode workers count less.
LEMMA WorkersCompare ==
    ASSUME NEW T \in SUBSET DW, NEW S \in SUBSET T
    PROVE  Cardinality(S) <= Cardinality(T) /\ Cardinality(S) \in Nat /\ Cardinality(T) \in Nat
  <1>1. Countable(T) /\ S \in SUBSET DW
    BY Zenon, WorkersCount
  <1>2. Countable(S)
    BY Zenon, <1>1, WorkersCount
  <1> QED
    BY Zenon, <1>1, <1>2 DEF Countable

\* The users of an entry, and those served, are decode workers.
LEMMA UsersSet == \A p, r, o : Users(p, r, o) \in SUBSET DW /\ Served(p, r) \in SUBSET DW
  BY Zenon DEF Users, Served

\* The same after a step.
LEMMA UsersSetNext == \A p, r, o : Users(p, r, o)' \in SUBSET DW /\ Served(p, r)' \in SUBSET DW
  BY Zenon DEF Users, Served

\* The claims on an object whose count a step leaves alone.
LEMMA ClaimKeep ==
    ASSUME NEW p, NEW r, NEW o, ObjTypes, <<p, r, o>> \in Key, ClaimOf(p, r, o),
           sending'[<<p, r, o>>] = sending[<<p, r, o>>],
           sent'[<<p, r, o>>] = sent[<<p, r, o>>], Users(p, r, o)' = Users(p, r, o),
           Served(p, r) \subseteq Served(p, r)'
    PROVE  ClaimOf(p, r, o)'
  <1>1. Countable(Served(p, r)') /\ Countable(Served(p, r))
    BY Zenon, UsersSet, UsersSetNext, WorkersCount
  <1>2. Cardinality(Served(p, r)) <= Cardinality(Served(p, r)') /\ Cardinality(Served(p, r)) \in Nat
        /\ Cardinality(Served(p, r)') \in Nat
    BY Zenon, <1>1 DEF Countable
  <1>3. sent[<<p, r, o>>] \in Nat /\ sent[<<p, r, o>>] <= Cardinality(Served(p, r))
    BY Zenon DEF ObjTypes, ClaimOf
  <1> DEFINE n == sent[<<p, r, o>>]
             c == Cardinality(Served(p, r))
             e == Cardinality(Served(p, r)')
  <1>4. n \in Nat /\ c \in Nat /\ e \in Nat /\ n <= c /\ c <= e
    BY Zenon, <1>2, <1>3
  <1> HIDE DEF n, c, e
  <1>5. n <= e
    BY SMTT(60), <1>4
  <1>6. sent'[<<p, r, o>>] <= Cardinality(Served(p, r)')
    BY Zenon, <1>5 DEF n, e
  <1>7. sending'[<<p, r, o>>] = Cardinality(Users(p, r, o)')
    BY Zenon DEF ClaimOf
  <1> QED
    BY Zenon, <1>6, <1>7 DEF ClaimOf

\* What a task is over with stays so.
OverStays == \A x \in Ch, r \in Req : Over(x, r) => Over(x, r)'

\* A decode worker that is served stays served.
LEMMA ServedStays ==
    ASSUME OverStays, NEW p \in PW, NEW r \in Req
    PROVE  Served(p, r) \subseteq Served(p, r)'
  <1> SUFFICES ASSUME NEW d \in DW, NEW b \in Batch, r \in ReqsOf[b], Over(<<p, d, b>>, r)
               PROVE  d \in Served(p, r)'
    BY Zenon DEF Served
  <1>1. Over(<<p, d, b>>, r)'
    BY Zenon, ChFacts DEF OverStays
  <1> QED
    BY Zenon, <1>1 DEF Served

\* A task that goes on without new requests stays over with those it is over with.
LEMMA OverMove ==
    ASSUME NEW ch \in Ch, Only(ch),
           Started(ch) => Started(ch)' /\ pend'[ch] \cup cohort'[ch] \subseteq pend[ch] \cup cohort[ch]
    PROVE  OverStays
  <1> SUFFICES ASSUME NEW x \in Ch, NEW r \in Req, Over(x, r) PROVE Over(x, r)'
    BY Zenon DEF OverStays
  <1>1. CASE x = ch
    BY Zenon, <1>1 DEF Over
  <1>2. CASE x # ch
    BY Zenon, <1>2 DEF Over, Only, Started
  <1> QED
    BY Zenon, <1>1, <1>2

\* The users of an object are those before the step and the task that claims it.
LEMMA UsersSame ==
    ASSUME NEW ch \in Ch, Only(ch), cohort'[ch] = cohort[ch], hold'[ch] = hold[ch] \/ cohort[ch] = {},
           NEW p \in PW, NEW r, NEW o
    PROVE  Users(p, r, o)' = Users(p, r, o)
  <1>1. ASSUME NEW d \in DW, NEW b \in Batch
        PROVE  (r \in cohort'[<<p, d, b>>] /\ hold'[<<p, d, b>>][r] = o)
                 <=> (r \in cohort[<<p, d, b>>] /\ hold[<<p, d, b>>][r] = o)
    <2>1. <<p, d, b>> \in Ch
      BY Zenon, ChFacts
    <2>2. CASE <<p, d, b>> = ch
      BY Zenon, <2>2
    <2>3. CASE <<p, d, b>> # ch
      BY Zenon, <2>1, <2>3 DEF Only
    <2> QED
      BY Zenon, <2>2, <2>3
  <1>2. \A d : d \in Users(p, r, o)' <=> d \in Users(p, r, o)
    BY Zenon, <1>1 DEF Users
  <1> QED
    BY Zenon, <1>2

\* The task of ch holds object o of request r at p for a request of C.
Holds(ch, p, r, o, C) == p = ch[1] /\ r \in C /\ hold[ch][r] = o

\* A task that wakes up adds its decode worker to the users of what it claims.
LEMMA UsersGain ==
    ASSUME NEW ch \in Ch, Only(ch), hold'[ch] = hold[ch], cohort[ch] = {}, NEW p \in PW, NEW r, NEW o
    PROVE  /\ Holds(ch, p, r, o, cohort'[ch]) => Users(p, r, o)' = Users(p, r, o) \cup {ch[2]}
           /\ ~ Holds(ch, p, r, o, cohort'[ch]) => Users(p, r, o)' = Users(p, r, o)
  <1> DEFINE new == p = ch[1] /\ r \in cohort'[ch] /\ hold[ch][r] = o
  <1>1. ASSUME NEW d \in DW, NEW b \in Batch, <<p, d, b>> # ch
        PROVE  (r \in cohort'[<<p, d, b>>] /\ hold'[<<p, d, b>>][r] = o)
                 <=> (r \in cohort[<<p, d, b>>] /\ hold[<<p, d, b>>][r] = o)
    BY Zenon, <1>1, ChFacts DEF Only
  <1>2. ch[2] \in DW /\ ch[3] \in Batch /\ ch = <<ch[1], ch[2], ch[3]>>
    BY Zenon, ChFacts
  <1>3. \A d \in DW, b \in Batch : <<p, d, b>> = ch => p = ch[1] /\ d = ch[2]
    BY SMTT(60)
  <1>4. ASSUME NEW d \in Users(p, r, o) PROVE d \in Users(p, r, o)'
    <2>1. d \in DW
      BY Zenon DEF Users
    <2>2. PICK b \in Batch : r \in cohort[<<p, d, b>>] /\ hold[<<p, d, b>>][r] = o
      BY Zenon DEF Users
    <2>3. <<p, d, b>> # ch
      BY Zenon, <2>2
    <2> QED
      BY Zenon, <1>1, <2>1, <2>2, <2>3 DEF Users
  <1>5. ASSUME NEW d \in Users(p, r, o)', d \notin Users(p, r, o) PROVE new /\ d = ch[2]
    <2>1. d \in DW
      BY Zenon DEF Users
    <2>2. PICK b \in Batch : r \in cohort'[<<p, d, b>>] /\ hold'[<<p, d, b>>][r] = o
      BY Zenon DEF Users
    <2>3. <<p, d, b>> = ch
      BY Zenon, <1>1, <1>5, <2>1, <2>2 DEF Users
    <2> QED
      BY Zenon, <1>3, <2>1, <2>2, <2>3
  <1>6. ASSUME new PROVE ch[2] \in Users(p, r, o)'
    BY Zenon, <1>2, <1>6 DEF Users
  <1> HIDE DEF new
  <1>7. new => Users(p, r, o)' = Users(p, r, o) \cup {ch[2]}
    BY Zenon, <1>4, <1>5, <1>6
  <1>8. ~ new => Users(p, r, o)' = Users(p, r, o)
    BY Zenon, <1>4, <1>5
  <1> QED
    BY Zenon, <1>7, <1>8 DEF new, Holds

\* An entry the task does not claim keeps its users.
LEMMA UsersElse ==
    ASSUME NEW ch \in Ch, Only(ch), hold'[ch] = hold[ch], cohort[ch] = {}, NEW p \in PW, NEW r, NEW o,
           ~ Holds(ch, p, r, o, cohort'[ch])
    PROVE  Users(p, r, o)' = Users(p, r, o)
  <1> DEFINE new == Holds(ch, p, r, o, cohort'[ch])
  <1>1. ~ new => Users(p, r, o)' = Users(p, r, o)
    BY UsersGain
  <1> QED
    BY Zenon, <1>1

\* A task whose transfer ends leaves the users of what it had claimed.
LEMMA UsersLose ==
    ASSUME RawTypes, TaskInv, NEW ch \in Ch, Only(ch), hold'[ch] = hold[ch], cohort'[ch] = {},
           NEW p \in PW, NEW r, NEW o
    PROVE  /\ Holds(ch, p, r, o, cohort[ch]) => /\ Users(p, r, o)' = Users(p, r, o) \ {ch[2]}
                                               /\ ch[2] \in Users(p, r, o)
           /\ ~ Holds(ch, p, r, o, cohort[ch]) => Users(p, r, o)' = Users(p, r, o)
  <1> DEFINE old == p = ch[1] /\ r \in cohort[ch] /\ hold[ch][r] = o
  <1>1. ASSUME NEW d \in DW, NEW b \in Batch, <<p, d, b>> # ch
        PROVE  (r \in cohort'[<<p, d, b>>] /\ hold'[<<p, d, b>>][r] = o)
                 <=> (r \in cohort[<<p, d, b>>] /\ hold[<<p, d, b>>][r] = o)
    BY Zenon, <1>1, ChFacts DEF Only
  <1>2. ch[2] \in DW /\ ch[3] \in Batch /\ ch = <<ch[1], ch[2], ch[3]>>
    BY Zenon, ChFacts
  <1>3. \A d \in DW, b \in Batch : <<p, d, b>> = ch => p = ch[1] /\ d = ch[2]
    BY SMTT(60)
  <1>4. ASSUME NEW d \in Users(p, r, o)' PROVE d \in Users(p, r, o) /\ ~ (old /\ d = ch[2])
    <2>1. d \in DW
      BY Zenon DEF Users
    <2>2. PICK b \in Batch : r \in cohort'[<<p, d, b>>] /\ hold'[<<p, d, b>>][r] = o
      BY Zenon DEF Users
    <2>3. <<p, d, b>> # ch
      BY Zenon, <2>2
    <2>4. r \in cohort[<<p, d, b>>] /\ hold[<<p, d, b>>][r] = o
      BY Zenon, <1>1, <2>1, <2>2, <2>3
    <2>5. ASSUME old, d = ch[2] PROVE FALSE
      <3>1. /\ <<p, d, b>> \in Ch /\ <<p, d, b>>[1] = ch[1] /\ <<p, d, b>>[2] = ch[2]
        BY Zenon, <2>1, <2>5, ChFacts
      <3>2. r \in ReqsOf[<<p, d, b>>[3]] /\ r \in ReqsOf[ch[3]]
        BY Zenon, <2>4, <2>5, <3>1 DEF TaskInv, TaskOf
      <3> QED
        BY Zenon, <2>3, <3>1, <3>2, SameChannel
    <2> QED
      BY Zenon, <2>1, <2>4, <2>5 DEF Users
  <1>5. ASSUME NEW d \in Users(p, r, o), d \notin Users(p, r, o)' PROVE old /\ d = ch[2]
    <2>1. d \in DW
      BY Zenon DEF Users
    <2>2. PICK b \in Batch : r \in cohort[<<p, d, b>>] /\ hold[<<p, d, b>>][r] = o
      BY Zenon DEF Users
    <2>3. <<p, d, b>> = ch
      BY Zenon, <1>1, <1>5, <2>1, <2>2 DEF Users
    <2> QED
      BY Zenon, <1>3, <2>1, <2>2, <2>3
  <1>6. ASSUME old PROVE ch[2] \in Users(p, r, o)
    BY Zenon, <1>2, <1>6 DEF Users
  <1> HIDE DEF old
  <1>7. old => Users(p, r, o)' = Users(p, r, o) \ {ch[2]}
    BY Zenon, <1>4, <1>5
  <1>8. ~ old => Users(p, r, o)' = Users(p, r, o)
    BY Zenon, <1>4, <1>5
  <1> QED
    BY Zenon, <1>6, <1>7, <1>8 DEF old, Holds

\* The key of an object a task holds.
LEMMA HeldKey ==
    ASSUME NEW ch, NEW R, NEW p, NEW r, NEW o
    PROVE  <<p, r, o>> \in Held(ch, R) <=> Holds(ch, p, r, o, R)
  BY Zenon DEF Held, Holds

\* The key of an entry.
LEMMA KeyFacts == \A p \in PW, r \in Req, o \in Obj : <<p, r, o>> \in Key
  BY Zenon DEF Key

\* Steps that claim nothing and return no claim.
LEMMA ClaimSame ==
    ASSUME RawTypes, ClaimInv, NEW ch \in Ch, Only(ch), cohort'[ch] = cohort[ch],
           hold'[ch] = hold[ch] \/ cohort[ch] = {}, UNCHANGED <<sent, sending>>, OverStays
    PROVE  ClaimInv'
  <1> SUFFICES ASSUME NEW p \in PW, NEW r \in Req, NEW o \in Obj PROVE ClaimOf(p, r, o)'
    BY Zenon DEF ClaimInv
  <1>1. Users(p, r, o)' = Users(p, r, o)
    BY Zenon, UsersSame
  <1>2. Served(p, r) \subseteq Served(p, r)'
    BY Zenon, ServedStays
  <1>3. ClaimOf(p, r, o) /\ <<p, r, o>> \in Key
    BY Zenon, KeyFacts DEF ClaimInv
  <1> QED
    BY Zenon, <1>1, <1>2, <1>3, ClaimKeep DEF RawTypes

\* A step that changes neither the counters nor what the tasks hold.
LEMMA ClaimRest ==
    ASSUME RawTypes, ClaimInv, UNCHANGED <<pend, cohort, hold, sent, sending>>,
           \A x \in Ch : Started(x) => Started(x)'
    PROVE  ClaimInv'
  <1> SUFFICES ASSUME NEW p \in PW, NEW r \in Req, NEW o \in Obj PROVE ClaimOf(p, r, o)'
    BY Zenon DEF ClaimInv
  <1>1. Users(p, r, o)' = Users(p, r, o)
    BY Zenon DEF Users
  <1>2. OverStays
    BY Zenon DEF OverStays, Over
  <1>3. Served(p, r) \subseteq Served(p, r)'
    BY Zenon, <1>2, ServedStays
  <1>4. ClaimOf(p, r, o) /\ <<p, r, o>> \in Key
    BY Zenon, KeyFacts DEF ClaimInv
  <1> QED
    BY Zenon, <1>1, <1>3, <1>4, ClaimKeep DEF RawTypes

\* One claim more, one claim fewer.
LEMMA CountMore ==
    ASSUME NEW S \in SUBSET DW, NEW x, x \notin S
    PROVE  Cardinality(S \cup {x}) = Cardinality(S) + 1 /\ Cardinality(S) \in Nat
  BY Zenon, WorkersCount DEF Countable

\* One decode worker less.
LEMMA CountLess ==
    ASSUME NEW S \in SUBSET DW, NEW x \in S
    PROVE  Cardinality(S \ {x}) = Cardinality(S) - 1
  BY Zenon, WorkersCount DEF Countable

\* A task that wakes claims every object it sends from.
LEMMA ClaimWake ==
    ASSUME RawTypes, TaskInv, ClaimInv, NEW ch \in Ch, Wake(ch)
    PROVE  ClaimInv'
  <1> USE DEF RawTypes
  <1>1. /\ MoveTo(ch, "xfer", pend[ch] \ ReadyOf(ch), Still(ch), hold[ch])
        /\ task[ch] = "wait" /\ sent' = sent
        /\ sending' = [k \in Key |-> sending[k] + IF k \in Held(ch, Still(ch)) THEN 1 ELSE 0]
    BY Zenon, MoveWake
  <1>2. cohort[ch] = {} /\ Only(ch) /\ hold'[ch] = hold[ch] /\ cohort'[ch] = Still(ch) /\ Still(ch) \subseteq pend[ch]
        /\ pend'[ch] \subseteq pend[ch]
    <2>1. cohort[ch] = {}
      BY Zenon, <1>1 DEF TaskInv, TaskOf
    <2>2. Still(ch) \subseteq pend[ch]
      BY Zenon DEF Still, ReadyOf
    <2> QED
      BY Zenon, <1>1, <2>1, <2>2 DEF MoveTo
  <1>3. OverStays
    <2>1. Started(ch)'
      BY Zenon, <1>1 DEF Started, MoveTo
    <2>2. pend'[ch] \cup cohort'[ch] \subseteq pend[ch] \cup cohort[ch]
      BY Zenon, <1>2
    <2> QED
      BY Zenon, <1>2, <2>1, <2>2, OverMove
  <1> SUFFICES ASSUME NEW p \in PW, NEW r \in Req, NEW o \in Obj PROVE ClaimOf(p, r, o)'
    BY Zenon DEF ClaimInv
  <1>4. ClaimOf(p, r, o) /\ <<p, r, o>> \in Key
    BY Zenon, KeyFacts DEF ClaimInv
  <1>5. Served(p, r) \subseteq Served(p, r)'
    BY Zenon, <1>3, ServedStays
  <1>6. CASE Holds(ch, p, r, o, Still(ch))
    <2>0. p = ch[1] /\ r \in Still(ch)
      BY Zenon, <1>6 DEF Holds
    <2>1. Users(p, r, o)' = Users(p, r, o) \cup {ch[2]}
      <3>1. Holds(ch, p, r, o, cohort'[ch])
        BY Zenon, <1>2, <1>6 DEF Holds
      <3>2. Only(ch) /\ hold'[ch] = hold[ch] /\ cohort[ch] = {}
        BY Zenon, <1>2
      <3> QED
        BY ZenonT(60), <3>1, <3>2, UsersGain
    <2>2. ch[2] \notin Users(p, r, o)
      <3> SUFFICES ASSUME NEW b \in Batch, r \in cohort[<<p, ch[2], b>>] PROVE FALSE
        BY Zenon DEF Users
      <3>1. /\ <<p, ch[2], b>> \in Ch /\ <<p, ch[2], b>>[1] = ch[1] /\ <<p, ch[2], b>>[2] = ch[2]
        BY Zenon, <2>0, ChFacts
      <3>2. r \in ReqsOf[<<p, ch[2], b>>[3]] /\ r \in ReqsOf[ch[3]]
        BY Zenon, <1>2, <2>0, <3>1 DEF TaskInv, TaskOf
      <3>3. <<p, ch[2], b>> = ch
        BY Zenon, <3>1, <3>2, SameChannel
      <3> QED
        BY Zenon, <1>2, <3>3
    <2>3. Cardinality(Users(p, r, o)') = Cardinality(Users(p, r, o)) + 1
      BY Zenon, <2>1, <2>2, UsersSet, CountMore
    <2>4. sending'[<<p, r, o>>] = sending[<<p, r, o>>] + 1
      <3>1. <<p, r, o>> \in Held(ch, Still(ch))
        BY Zenon, <1>6, HeldKey
      <3> QED
        BY Zenon, <1>1, <1>4, <3>1
    <2>5. sending'[<<p, r, o>>] = Cardinality(Users(p, r, o)')
      BY Zenon, <1>4, <2>3, <2>4 DEF ClaimOf
    <2>6. sent'[<<p, r, o>>] <= Cardinality(Served(p, r)')
      <3>1. Cardinality(Served(p, r)) <= Cardinality(Served(p, r)')
            /\ Cardinality(Served(p, r)) \in Nat /\ Cardinality(Served(p, r)') \in Nat
        BY Zenon, <1>5, UsersSet, UsersSetNext, WorkersCompare
      <3>2. sent[<<p, r, o>>] <= Cardinality(Served(p, r)) /\ sent[<<p, r, o>>] \in Nat /\ sent' = sent
        BY Zenon, <1>1, <1>4 DEF ClaimOf, ObjTypes
      <3> DEFINE n == sent[<<p, r, o>>]
                 c == Cardinality(Served(p, r))
                 e == Cardinality(Served(p, r)')
      <3>3. n \in Nat /\ c \in Nat /\ e \in Nat /\ n <= c /\ c <= e
        BY Zenon, <3>1, <3>2
      <3> HIDE DEF n, c, e
      <3>4. n <= e
        BY SMTT(60), <3>3
      <3> QED
        BY Zenon, <3>2, <3>4 DEF n, e
    <2> QED
      BY Zenon, <2>5, <2>6 DEF ClaimOf
  <1>7. CASE ~ Holds(ch, p, r, o, Still(ch))
    <2>1. Users(p, r, o)' = Users(p, r, o)
      <3>1. ~ Holds(ch, p, r, o, cohort'[ch])
        BY Zenon, <1>2, <1>7 DEF Holds
      <3>2. Only(ch) /\ hold'[ch] = hold[ch] /\ cohort[ch] = {}
        BY Zenon, <1>2
      <3> QED
        BY ZenonT(60), <3>1, <3>2, UsersElse
    <2>2. <<p, r, o>> \notin Held(ch, Still(ch))
      BY Zenon, <1>7, HeldKey
    <2>3. sending'[<<p, r, o>>] = sending[<<p, r, o>>]
      <3>1. sending'[<<p, r, o>>] = sending[<<p, r, o>>] + 0 /\ sending[<<p, r, o>>] \in Int
        BY Zenon, <1>1, <1>4, <2>2 DEF ObjTypes
      <3> QED
        BY SMTT(60), <3>1
    <2> QED
      BY Zenon, <1>1, <1>4, <1>5, <2>1, <2>3, ClaimKeep
  <1> QED
    BY Zenon, <1>6, <1>7

\* The end of a transfer returns its claims and counts the requests it sent.
LEMMA ClaimEnd ==
    ASSUME RawTypes, TaskInv, ClaimInv, NEW ch \in Ch, NEW E \in SUBSET Req, XferEnd(ch, E)
    PROVE  ClaimInv'
  <1> USE DEF RawTypes
  <1>0. /\ task[ch] = "xfer"
        /\ sending' = [k \in Key |-> sending[k] - IF k \in Held(ch, cohort[ch]) THEN 1 ELSE 0]
        /\ sent' = [k \in Key |-> sent[k] + IF k \in Held(ch, cohort[ch] \ E) THEN 1 ELSE 0]
    BY Zenon, MoveEnd
  <1>1. PICK t \in {"done", "wait"} : MoveTo(ch, t, pend[ch], {}, hold[ch])
    BY Zenon, MoveEnd
  <1>2. Only(ch) /\ hold'[ch] = hold[ch] /\ cohort'[ch] = {} /\ pend'[ch] = pend[ch]
    BY Zenon, <1>1 DEF MoveTo
  <1>3. Started(ch)' /\ Started(ch)
    BY Zenon, <1>0, <1>1 DEF Started, MoveTo
  <1>4. OverStays
    <2>1. pend'[ch] \cup cohort'[ch] \subseteq pend[ch] \cup cohort[ch]
      BY Zenon, <1>2
    <2> QED
      BY Zenon, <1>2, <1>3, <2>1, OverMove
  <1> SUFFICES ASSUME NEW p \in PW, NEW r \in Req, NEW o \in Obj PROVE ClaimOf(p, r, o)'
    BY Zenon DEF ClaimInv
  <1>5. ClaimOf(p, r, o) /\ <<p, r, o>> \in Key
    BY Zenon, KeyFacts DEF ClaimInv
  <1>6. Served(p, r) \subseteq Served(p, r)'
    BY Zenon, <1>4, ServedStays
  <1>7. CASE ~ Holds(ch, p, r, o, cohort[ch])
    <2>1. Users(p, r, o)' = Users(p, r, o)
      BY Zenon, <1>2, <1>7, UsersLose
    <2>2. <<p, r, o>> \notin Held(ch, cohort[ch]) /\ <<p, r, o>> \notin Held(ch, cohort[ch] \ E)
      <3>1. ~ Holds(ch, p, r, o, cohort[ch] \ E)
        BY Zenon, <1>7 DEF Holds
      <3> QED
        BY Zenon, <1>7, <3>1, HeldKey
    <2>3. sending'[<<p, r, o>>] = sending[<<p, r, o>>] /\ sent'[<<p, r, o>>] = sent[<<p, r, o>>]
      <3>1. /\ sending'[<<p, r, o>>] = sending[<<p, r, o>>] - 0 /\ sending[<<p, r, o>>] \in Int
            /\ sent'[<<p, r, o>>] = sent[<<p, r, o>>] + 0 /\ sent[<<p, r, o>>] \in Nat
        BY Zenon, <1>0, <1>5, <2>2 DEF ObjTypes
      <3> QED
        BY SMTT(60), <3>1
    <2> QED
      BY Zenon, <1>5, <1>6, <2>1, <2>3, ClaimKeep
  <1>8. CASE Holds(ch, p, r, o, cohort[ch])
    <2>0. p = ch[1] /\ r \in cohort[ch]
      BY Zenon, <1>8 DEF Holds
    <2>1. Users(p, r, o)' = Users(p, r, o) \ {ch[2]} /\ ch[2] \in Users(p, r, o)
      BY Zenon, <1>2, <1>8, UsersLose
    <2>2. Cardinality(Users(p, r, o)') = Cardinality(Users(p, r, o)) - 1
      BY Zenon, <2>1, UsersSet, CountLess
    <2>3. sending'[<<p, r, o>>] = sending[<<p, r, o>>] - 1
      <3>1. <<p, r, o>> \in Held(ch, cohort[ch])
        BY Zenon, <1>8, HeldKey
      <3> QED
        BY Zenon, <1>0, <1>5, <3>1
    <2>4. sending'[<<p, r, o>>] = Cardinality(Users(p, r, o)')
      BY Zenon, <1>5, <2>2, <2>3 DEF ClaimOf
    <2>5. ch[2] \in Served(p, r)'
      <3>1. ch[2] \in DW /\ ch[3] \in Batch /\ ch = <<p, ch[2], ch[3]>>
        BY Zenon, <2>0, ChFacts
      <3>2. r \in ReqsOf[ch[3]] /\ r \notin pend[ch]
        BY Zenon, <2>0 DEF TaskInv, TaskOf
      <3>3. Over(ch, r)'
        BY Zenon, <1>2, <1>3, <3>2 DEF Over
      <3> QED
        BY Zenon, <3>1, <3>2, <3>3 DEF Served
    <2>6. ch[2] \notin Served(p, r)
      BY Zenon, <2>0, NotServed
    <2>7. /\ Cardinality(Served(p, r) \cup {ch[2]}) = Cardinality(Served(p, r)) + 1
          /\ Cardinality(Served(p, r)) \in Nat
      BY Zenon, <2>6, UsersSet, CountMore
    <2>8. /\ Cardinality(Served(p, r) \cup {ch[2]}) <= Cardinality(Served(p, r)')
          /\ Cardinality(Served(p, r)') \in Nat
      <3>1. Served(p, r) \cup {ch[2]} \in SUBSET (Served(p, r)')
        BY Zenon, <1>6, <2>5
      <3> QED
        BY Zenon, <3>1, UsersSetNext, WorkersCompare
    <2>9. /\ sent'[<<p, r, o>>] \in {sent[<<p, r, o>>] + 1, sent[<<p, r, o>>] + 0}
          /\ sent[<<p, r, o>>] <= Cardinality(Served(p, r)) /\ sent[<<p, r, o>>] \in Nat
      BY Zenon, <1>0, <1>5 DEF ClaimOf, ObjTypes
    <2> DEFINE n == sent[<<p, r, o>>]
               m == sent'[<<p, r, o>>]
               c == Cardinality(Served(p, r))
               e == Cardinality(Served(p, r)')
    <2>10. n \in Nat /\ c \in Nat /\ e \in Nat /\ n <= c /\ c + 1 <= e /\ m \in {n + 1, n + 0}
      BY Zenon, <2>7, <2>8, <2>9
    <2> HIDE DEF n, m, c, e
    <2>11. m <= e
      BY SMTT(60), <2>10
    <2>12. sent'[<<p, r, o>>] <= Cardinality(Served(p, r)')
      BY Zenon, <2>11 DEF m, e
    <2> QED
      BY Zenon, <2>4, <2>12 DEF ClaimOf
  <1> QED
    BY Zenon, <1>7, <1>8

\* The steps of a sender task that end no transfer and start none.
LEMMA ClaimTask ==
    ASSUME RawTypes, TaskInv, ClaimInv,
           \/ \E p \in PW : TakeRequest(p) \/ RefuseRequest(p)
           \/ \E ch \in Ch : XferRaise(ch) \/ WaitTimeout(ch)
    PROVE  ClaimInv' /\ OverStays
  <1> USE DEF RawTypes
  <1>1. ASSUME NEW p \in PW, TakeRequest(p) PROVE ClaimInv' /\ OverStays
    <2>1. PICK ch \in Ch : /\ Dequeue(p, ch)
                           /\ MoveTo(ch, "wait", ReqsOf[ch[3]], cohort[ch], Entry(p, ch))
                           /\ UNCHANGED <<sent, sending>>
      BY Zenon, <1>1, MoveTake
    <2>2. task[ch] = "queued" /\ cohort[ch] = {}
      BY Zenon, <2>1, DequeueFacts
    <2>3. ~ Started(ch)
      BY Zenon, <2>2 DEF Started
    <2>4. Only(ch) /\ cohort'[ch] = cohort[ch]
      BY Zenon, <2>1 DEF MoveTo
    <2>5. OverStays
      BY Zenon, <2>3, <2>4, OverMove
    <2> QED
      BY Zenon, <2>1, <2>2, <2>4, <2>5, ClaimSame
  <1>2. ASSUME NEW p \in PW, RefuseRequest(p) PROVE ClaimInv' /\ OverStays
    <2>1. PICK ch \in Ch : /\ Dequeue(p, ch)
                           /\ MoveTo(ch, "done", pend[ch], cohort[ch], hold[ch])
                           /\ UNCHANGED <<sent, sending>>
      BY Zenon, <1>2, MoveRefuse DEF objVars
    <2>2. task[ch] = "queued"
      BY Zenon, <2>1, DequeueFacts
    <2>3. ~ Started(ch)
      BY Zenon, <2>2 DEF Started
    <2>4. Only(ch) /\ cohort'[ch] = cohort[ch] /\ hold'[ch] = hold[ch]
      BY Zenon, <2>1 DEF MoveTo
    <2>5. OverStays
      BY Zenon, <2>3, <2>4, OverMove
    <2> QED
      BY Zenon, <2>1, <2>4, <2>5, ClaimSame
  <1>3. ASSUME NEW ch \in Ch, XferRaise(ch) \/ WaitTimeout(ch) PROVE ClaimInv' /\ OverStays
    <2>1. /\ \/ MoveTo(ch, "raised", {}, cohort[ch], hold[ch])
             \/ MoveTo(ch, "done", {}, cohort[ch], hold[ch])
          /\ UNCHANGED <<sent, sending>>
      BY Zenon, <1>3, MoveStop DEF objVars
    <2>2. Only(ch) /\ cohort'[ch] = cohort[ch] /\ hold'[ch] = hold[ch] /\ pend'[ch] = {}
      BY Zenon, <2>1 DEF MoveTo
    <2>3. Started(ch)'
      BY Zenon, <2>1 DEF MoveTo, Started
    <2>4. pend'[ch] \cup cohort'[ch] \subseteq pend[ch] \cup cohort[ch]
      BY Zenon, <2>2
    <2>5. OverStays
      BY Zenon, <2>2, <2>3, <2>4, OverMove
    <2> QED
      BY Zenon, <2>1, <2>2, <2>5, ClaimSame
  <1> QED
    BY Zenon, <1>1, <1>2, <1>3

\* The steps that leave the requests of every task alone.
Beside ==
    \/ \E r \in Req : SchedPublish(r) \/ SchedAnnounce(r) \/ SchedDrop(r)
    \/ \E p \in PW : \E r \in Req : RecordPublish(p, r) \/ RecordAnnounce(p, r) \/ Sweep(p, r)
    \/ \E p \in PW : \E N \in SUBSET Req : \E popped \in SUBSET N : RecordDrop(p, N, popped)
    \/ \E p \in PW : Crash(p)
    \/ UNCHANGED rawVars

\* The prefill side of record_send_reqs and the sweep touch no task and no counter.
LEMMA BesideSame ==
    ASSUME Beside
    PROVE  UNCHANGED <<task, pend, cohort, hold, sent, sending, resp, dVars>>
  BY ZenonT(60) DEF Beside, SchedPublish, SchedAnnounce, SchedDrop, RecordPublish, RecordAnnounce, Sweep,
     RecordDrop, Crash, rawVars, taskVars, objVars

\* receive_kv asks for a batch that no sender task has begun.
LEMMA ReceiveStarted ==
    ASSUME RawTypes, TaskInv, NEW d \in DW, NEW b \in Batch, ReceiveKv(d, b)
    PROVE  \A x \in Ch : Started(x)' = Started(x) /\ (x[2] = d /\ x[3] = b => task[x] = "none")
  <1> USE DEF RawTypes
  <1>0. /\ task' = [ch \in Ch |-> IF ch[2] = d /\ ch[3] = b THEN "queued" ELSE task[ch]]
        /\ \A p \in PW : dpc[<<p, d, b>>] = "none"
    BY Zenon DEF ReceiveKv, Idle
  <1> SUFFICES ASSUME NEW x \in Ch
               PROVE  Started(x)' = Started(x) /\ (x[2] = d /\ x[3] = b => task[x] = "none")
    BY Zenon
  <1>1. CASE x[2] = d /\ x[3] = b
    <2>1. dpc[x] = "none"
      BY SMTT(60), <1>0, <1>1, ChFacts
    <2>2. task[x] = "none"
      BY Zenon, <2>1 DEF TaskInv, TaskOf
    <2>3. task'[x] = "queued"
      BY Zenon, <1>0, <1>1
    <2> QED
      BY Zenon, <2>2, <2>3 DEF Started
  <1>2. CASE ~ (x[2] = d /\ x[3] = b)
    <2>1. task'[x] = task[x]
      BY Zenon, <1>0, <1>2
    <2> QED
      BY Zenon, <1>2, <2>1 DEF Started
  <1> QED
    BY Zenon, <1>1, <1>2

\* Every step keeps the counts of the tasks that use an object.
LEMMA NextClaim ==
    ASSUME RawTypes, TaskInv, ClaimInv, [RawNext]_rawVars
    PROVE  ClaimInv'
  <1>1. ASSUME Beside PROVE ClaimInv'
    <2>1. UNCHANGED <<pend, cohort, hold, sent, sending>> /\ \A x \in Ch : Started(x) => Started(x)'
      BY Zenon, <1>1, BesideSame DEF Started
    <2> QED
      BY Zenon, <2>1, ClaimRest
  <1>2. ASSUME \/ \E d \in DW, b \in Batch : EngineUnknown(d, b)
               \/ \E ch \in Ch : OnResponse(ch) \/ OnTimeout(ch)
        PROVE  ClaimInv'
    <2>1. UNCHANGED <<task, pend, cohort, hold, sent, sending>>
      BY Zenon, <1>2 DEF EngineUnknown, OnResponse, OnTimeout, objVars, taskVars
    <2>2. \A x \in Ch : Started(x) => Started(x)'
      BY Zenon, <2>1 DEF Started
    <2> QED
      BY Zenon, <2>1, <2>2, ClaimRest
  <1>3. ASSUME NEW d \in DW, NEW b \in Batch, ReceiveKv(d, b) PROVE ClaimInv'
    <2>1. UNCHANGED <<pend, cohort, hold, sent, sending>>
      BY Zenon, <1>3 DEF ReceiveKv, objVars
    <2>2. \A x \in Ch : Started(x) => Started(x)'
      BY Zenon, <1>3, ReceiveStarted
    <2> QED
      BY Zenon, <2>1, <2>2, ClaimRest
  <1> QED
    BY Zenon, <1>1, <1>2, <1>3, ClaimTask, ClaimWake, ClaimEnd DEF RawNext, Beside

-----------------------------------------------------------------------------
\* The answers and what a decode worker has got.

\* What a prefill worker has sent stays sent.
SentStays == \A p \in PW, r \in Req : Sent(p, r) => Sent(p, r)'
\* What a decode worker has got stays got.
GotStays == \A x \in Ch, r \in Req : Got(x, r) => Got(x, r)'

\* A step that leaves meta.sent alone.
LEMMA SentSame ==
    ASSUME sent' = sent
    PROVE  SentStays
  BY Zenon DEF SentStays, Sent

\* The end of a transfer increments meta.sent of what went well.
LEMMA SentEnd ==
    ASSUME RawTypes, NEW ch \in Ch, NEW E \in SUBSET Req, XferEnd(ch, E)
    PROVE  /\ SentStays
           /\ \A r \in cohort[ch] \ E : hold[ch][r] \in Obj => Sent(ch[1], r)'
  <1>1. sent' = [k \in Key |-> sent[k] + IF k \in Held(ch, cohort[ch] \ E) THEN 1 ELSE 0]
    BY Zenon, MoveEnd DEF RawTypes
  <1>2. \A k \in Key : sent[k] \in Nat
    BY Zenon DEF RawTypes, ObjTypes
  <1>3. \A k \in Key : sent'[k] >= sent[k] /\ (k \in Held(ch, cohort[ch] \ E) => sent'[k] > 0)
    BY SMTT(60), <1>1, <1>2
  <1>4. SentStays
    <2> SUFFICES ASSUME NEW p \in PW, NEW r \in Req, NEW o \in Obj, sent[<<p, r, o>>] > 0
                 PROVE  sent'[<<p, r, o>>] > 0
      BY Zenon DEF SentStays, Sent
    <2>1. <<p, r, o>> \in Key
      BY Zenon, KeyFacts
    <2>2. sent'[<<p, r, o>>] \in Nat
      BY SMTT(60), <1>1, <1>2, <2>1
    <2> QED
      BY SMTT(60), <1>2, <1>3, <2>1, <2>2
  <1>5. ASSUME NEW r \in cohort[ch] \ E, hold[ch][r] \in Obj PROVE Sent(ch[1], r)'
    <2>1. <<ch[1], r, hold[ch][r]>> \in Key
      <3>1. ch[1] \in PW /\ r \in Req
        BY Zenon, ChFacts DEF RawTypes, TaskTypes
      <3> QED
        BY Zenon, <1>5, <3>1, KeyFacts
    <2>2. <<ch[1], r, hold[ch][r]>> \in Held(ch, cohort[ch] \ E)
      <3>1. Holds(ch, ch[1], r, hold[ch][r], cohort[ch] \ E)
        BY Zenon DEF Holds
      <3> QED
        BY Zenon, <3>1, HeldKey
    <2>3. sent'[<<ch[1], r, hold[ch][r]>>] > 0
      BY Zenon, <1>3, <2>1, <2>2
    <2> QED
      BY Zenon, <1>5, <2>3 DEF Sent
  <1> QED
    BY Zenon, <1>4, <1>5

\* The prefill workers a decode worker has a request from can be counted.
LEMMA SendersCount ==
    ASSUME NEW S \in SUBSET PW
    PROVE  Countable(S)
  <1>1. IsFiniteSet(S)
    BY Zenon, WorkerAssumption, CardinalitySubset
  <1> QED
    BY Zenon, <1>1, SetFactsHold DEF SetFacts

\* What a request is got from are prefill workers.
LEMMA FromSet == \A d, b, r : From(d, b, r) \in SUBSET PW /\ From(d, b, r)' \in SUBSET PW
  BY Zenon DEF From

\* The prefill workers a request is got from only grow.
LEMMA FromStays ==
    ASSUME GotStays, NEW d \in DW, NEW b \in Batch, NEW r \in Req
    PROVE  /\ From(d, b, r) \subseteq From(d, b, r)'
           /\ Cardinality(From(d, b, r)) <= Cardinality(From(d, b, r)')
           /\ Cardinality(From(d, b, r)) \in Nat /\ Cardinality(From(d, b, r)') \in Nat
           /\ Cardinality(PW) \in Nat
  <1>1. From(d, b, r) \subseteq From(d, b, r)'
    <2>1. \A p \in PW : <<p, d, b>> \in Ch
      BY Zenon, ChFacts
    <2> QED
      BY Zenon, <2>1 DEF From, GotStays
  <1>2. Countable(From(d, b, r)') /\ Countable(From(d, b, r)) /\ Countable(PW)
    BY Zenon, FromSet, SendersCount
  <1> QED
    BY Zenon, <1>1, <1>2 DEF Countable

\* pull_tasks_count after a step that leaves it alone.
LEMMA CountKeep ==
    ASSUME RawTypes, GotStays, NEW d \in DW, NEW b \in Batch, NEW r \in Req, CountOf(d, b, r),
           count'[d][r] = count[d][r], \A p \in PW : task[<<p, d, b>>] = "none" => task'[<<p, d, b>>] = "none"
    PROVE  CountOf(d, b, r)'
  <1> SUFFICES ASSUME r \in ReqsOf[b], \E p \in PW : task'[<<p, d, b>>] # "none"
               PROVE  count'[d][r] >= Cardinality(PW) - Cardinality(From(d, b, r)')
    BY Zenon DEF CountOf
  <1>1. count[d][r] >= Cardinality(PW) - Cardinality(From(d, b, r))
    BY Zenon DEF CountOf
  <1>2. count[d][r] \in Int
    BY Zenon DEF RawTypes, RecvTypes
  <1> DEFINE n == count[d][r]
             m == Cardinality(PW)
             c == Cardinality(From(d, b, r))
             e == Cardinality(From(d, b, r)')
  <1>3. n \in Int /\ m \in Nat /\ c \in Nat /\ e \in Nat /\ c <= e /\ n >= m - c
    BY Zenon, <1>1, <1>2, FromStays
  <1> HIDE DEF n, m, c, e
  <1>4. n >= m - e
    BY SMTT(60), <1>3
  <1> QED
    BY Zenon, <1>4 DEF n, m, e

\* A step that reports nothing new keeps what a report without invalid blocks means.
LEMMA FinKeep ==
    ASSUME RawTypes, GotStays, NEW d \in DW, NEW r \in Req, FinOf(d, r),
           (fin'[d][r] > 0 /\ inv'[d][r] = 0) => (fin[d][r] > 0 /\ inv[d][r] = 0)
    PROVE  FinOf(d, r)'
  <1> SUFFICES ASSUME fin'[d][r] > 0, inv'[d][r] = 0, NEW p \in PW
               PROVE  \E b \in Batch : r \in ReqsOf[b] /\ Got(<<p, d, b>>, r)'
    BY Zenon DEF FinOf
  <1>1. PICK b \in Batch : r \in ReqsOf[b] /\ Got(<<p, d, b>>, r)
    BY Zenon DEF FinOf
  <1>2. <<p, d, b>> \in Ch
    BY Zenon, ChFacts
  <1> QED
    BY Zenon, <1>1, <1>2 DEF GotStays

\* The answers of a task, when the step sends none and reads none.
LEMMA AnswerKeep ==
    ASSUME AnswerInv, OverStays, SentStays, NEW x \in Ch, NEW r \in Req, resp'[x] = resp[x]
    PROVE  AnswerOf(x, r)' /\ (Got(x, r) => Got(x, r)')
  <1>1. Answered(x, r)' = Answered(x, r)
    BY Zenon DEF Answered
  <1>2. x[1] \in PW /\ AnswerOf(x, r)
    BY Zenon, ChFacts DEF AnswerInv
  <1>3. Over(x, r) => Over(x, r)'
    BY Zenon DEF OverStays
  <1>4. Sent(x[1], r) => Sent(x[1], r)'
    BY Zenon, <1>2 DEF SentStays
  <1> QED
    BY Zenon, <1>1, <1>2, <1>3, <1>4 DEF AnswerOf, Got

\* A step of a prefill worker, given what it answers.
LEMMA AnswerMove ==
    ASSUME RawTypes, AnswerInv, OverStays, SentStays, UNCHANGED dVars, NEW ch \in Ch,
           \A x \in Ch : x # ch => resp'[x] = resp[x],
           \A x \in Ch : task[x] = "none" => task'[x] = "none",
           \A r \in Req : AnswerOf(ch, r)' /\ (Got(ch, r) => Got(ch, r)')
    PROVE  AnswerInv'
  <1>1. ASSUME NEW x \in Ch, NEW r \in Req PROVE AnswerOf(x, r)' /\ (Got(x, r) => Got(x, r)')
    <2>1. CASE x # ch
      BY Zenon, <2>1, AnswerKeep
    <2> QED
      BY Zenon, <2>1
  <1>2. GotStays
    BY Zenon, <1>1 DEF GotStays
  <1>3. ASSUME NEW d \in DW, NEW b \in Batch, NEW r \in Req PROVE CountOf(d, b, r)'
    <2>1. \A p \in PW : task[<<p, d, b>>] = "none" => task'[<<p, d, b>>] = "none"
      BY Zenon, ChFacts
    <2>2. CountOf(d, b, r) /\ count' = count
      BY Zenon DEF AnswerInv, dVars
    <2> QED
      BY Zenon, <1>2, <2>1, <2>2, CountKeep
  <1>4. ASSUME NEW d \in DW, NEW r \in Req PROVE FinOf(d, r)'
    <2>1. FinOf(d, r) /\ fin' = fin /\ inv' = inv
      BY Zenon DEF AnswerInv, dVars
    <2> QED
      BY Zenon, <1>2, <2>1, FinKeep
  <1> QED
    BY Zenon, <1>1, <1>3, <1>4 DEF AnswerInv

\* An answer that a task appends.
LEMMA AnswerMore ==
    ASSUME RawTypes, NEW ch \in Ch, NEW st, NEW ok, NEW err, Respond(ch, st, ok, err), NEW r
    PROVE  /\ \A x \in Ch : x # ch => resp'[x] = resp[x]
           /\ \A i \in DOMAIN resp'[ch] : \/ i \in DOMAIN resp[ch] /\ resp'[ch][i] = resp[ch][i]
                                          \/ i = Len(resp[ch]) + 1 /\ resp'[ch][i].ok = ok
           /\ Answered(ch, r)' <=> Answered(ch, r) \/ r \in ok
  <1> DEFINE Q == resp[ch]
             m == [status |-> st, ok |-> ok, err |-> err]
  <1>0. Q \in Seq(Answer) /\ resp \in [Ch -> Seq(Answer)]
    BY Zenon DEF RawTypes, RecvTypes
  <1>1. resp' = [resp EXCEPT ![ch] = Append(Q, m)] /\ m.ok = ok
    BY Zenon DEF Respond
  <1>2. resp'[ch] = Append(Q, m) /\ \A x \in Ch : x # ch => resp'[x] = resp[x]
    BY Zenon, <1>0, <1>1
  <1> HIDE DEF Q, m
  <1>3. /\ \A i \in DOMAIN Append(Q, m) : \/ i \in DOMAIN Q /\ Append(Q, m)[i] = Q[i]
                                          \/ i = Len(Q) + 1 /\ Append(Q, m)[i] = m
        /\ \A i \in DOMAIN Q : i \in DOMAIN Append(Q, m) /\ Append(Q, m)[i] = Q[i]
        /\ Len(Q) + 1 \in DOMAIN Append(Q, m) /\ Append(Q, m)[Len(Q) + 1] = m
    BY SMTT(60), <1>0
  <1>4. (\E i \in DOMAIN Append(Q, m) : r \in Append(Q, m)[i].ok) <=> (\E i \in DOMAIN Q : r \in Q[i].ok) \/ r \in ok
    BY Zenon, <1>1, <1>3
  <1>5. Answered(ch, r)' <=> Answered(ch, r) \/ r \in ok
    BY Zenon, <1>2, <1>4 DEF Answered, Q
  <1>6. \A i \in DOMAIN resp'[ch] : \/ i \in DOMAIN Q /\ resp'[ch][i] = Q[i]
                                    \/ i = Len(Q) + 1 /\ resp'[ch][i].ok = ok
    BY Zenon, <1>1, <1>2, <1>3
  <1> QED
    BY Zenon, <1>2, <1>5, <1>6 DEF Q

\* An answer that names only requests the task has just sent.
LEMMA AnswerRespond ==
    ASSUME RawTypes, AnswerInv, OverStays, SentStays, UNCHANGED dVars, NEW ch \in Ch,
           \A x \in Ch : task[x] = "none" => task'[x] = "none",
           NEW st, NEW ok, NEW err, Respond(ch, st, ok, err),
           \A r \in ok : /\ r \in ReqsOf[ch[3]] /\ ~ Over(ch, r)
                         /\ Over(ch, r)' /\ Sent(ch[1], r)'
    PROVE  AnswerInv'
  <1>1. ASSUME NEW r \in Req PROVE AnswerOf(ch, r)' /\ (Got(ch, r) => Got(ch, r)')
    <2>1. ch[1] \in PW /\ AnswerOf(ch, r)
      BY Zenon, ChFacts DEF AnswerInv
    <2>2. (Over(ch, r) => Over(ch, r)') /\ (Sent(ch[1], r) => Sent(ch[1], r)')
      BY Zenon, <2>1 DEF OverStays, SentStays
    <2>3. Answered(ch, r)' <=> Answered(ch, r) \/ r \in ok
      BY Zenon, AnswerMore
    <2>4. CASE r \in ok
      <3>1. ~ Answered(ch, r) /\ ~ Got(ch, r)
        BY Zenon, <2>1, <2>4 DEF AnswerOf, Got
      <3>2. \A i \in DOMAIN resp'[ch] : r \in resp'[ch][i].ok => i = Len(resp[ch]) + 1
        <4>1. \A i \in DOMAIN resp'[ch] : \/ i \in DOMAIN resp[ch] /\ resp'[ch][i] = resp[ch][i]
                                          \/ i = Len(resp[ch]) + 1 /\ resp'[ch][i].ok = ok
          BY ZenonT(60), AnswerMore
        <4> QED
          BY Zenon, <3>1, <4>1 DEF Answered
      <3>3. \A i, j \in DOMAIN resp'[ch] : r \in resp'[ch][i].ok /\ r \in resp'[ch][j].ok => i = j
        BY Zenon, <3>2
      <3> QED
        BY Zenon, <2>4, <3>1, <3>3 DEF AnswerOf
    <2>5. CASE r \notin ok
      <3>1. \A i \in DOMAIN resp'[ch] : r \in resp'[ch][i].ok => i \in DOMAIN resp[ch] /\ r \in resp[ch][i].ok
        <4>1. \A i \in DOMAIN resp'[ch] : \/ i \in DOMAIN resp[ch] /\ resp'[ch][i] = resp[ch][i]
                                          \/ i = Len(resp[ch]) + 1 /\ resp'[ch][i].ok = ok
          BY ZenonT(60), AnswerMore
        <4> QED
          BY Zenon, <2>5, <4>1
      <3>2. \A i, j \in DOMAIN resp'[ch] : r \in resp'[ch][i].ok /\ r \in resp'[ch][j].ok => i = j
        BY Zenon, <2>1, <3>1 DEF AnswerOf
      <3> QED
        BY Zenon, <2>1, <2>2, <2>3, <2>5, <3>2 DEF AnswerOf, Got
    <2> QED
      BY Zenon, <2>4, <2>5
  <1>2. \A x \in Ch : x # ch => resp'[x] = resp[x]
    BY Zenon, AnswerMore
  <1> QED
    BY Zenon, <1>1, <1>2, AnswerMove

\* An answer that names no request sent.
LEMMA AnswerNone ==
    ASSUME RawTypes, AnswerInv, OverStays, SentStays, UNCHANGED dVars, NEW ch \in Ch,
           \A x \in Ch : task[x] = "none" => task'[x] = "none",
           NEW st, NEW err, Respond(ch, st, {}, err)
    PROVE  AnswerInv'
  <1> DEFINE none == {}
  <1>1. Respond(ch, st, none, err) /\ \A r : r \notin none
    BY Zenon
  <1> HIDE DEF none
  <1>2. \A r \in none : /\ r \in ReqsOf[ch[3]] /\ ~ Over(ch, r)
                         /\ Over(ch, r)' /\ Sent(ch[1], r)'
    BY Zenon, <1>1
  <1> QED
    BY Zenon, <1>1, <1>2, AnswerRespond

\* The steps of the prefill workers.
LEMMA AnswerSender ==
    ASSUME RawTypes, TaskInv, EntryInv, ClaimInv, AnswerInv,
           \/ \E p \in PW : TakeRequest(p) \/ RefuseRequest(p)
           \/ \E ch \in Ch : \/ Wake(ch) \/ XferRaise(ch) \/ WaitTimeout(ch)
                             \/ \E E \in SUBSET Req : XferEnd(ch, E)
    PROVE  AnswerInv'
  <1> USE DEF RawTypes
  <1>1. ASSUME NEW p \in PW, TakeRequest(p) PROVE AnswerInv'
    <2>1. PICK ch \in Ch : /\ Dequeue(p, ch)
                           /\ MoveTo(ch, "wait", ReqsOf[ch[3]], cohort[ch], Entry(p, ch))
                           /\ UNCHANGED <<sent, resp, dVars>>
      BY Zenon, <1>1, MoveTake
    <2>2. OverStays /\ SentStays
      BY Zenon, <1>1, <2>1, ClaimTask, SentSame
    <2>3. task[ch] # "none"
      BY Zenon, <2>1, DequeueFacts
    <2>4. \A x \in Ch : task[x] = "none" => task'[x] = "none"
      BY Zenon, <2>1, <2>3 DEF MoveTo, Only
    <2>5. \A r \in Req : AnswerOf(ch, r)' /\ (Got(ch, r) => Got(ch, r)')
      BY Zenon, <2>1, <2>2, AnswerKeep
    <2> QED
      BY Zenon, <2>1, <2>2, <2>4, <2>5, AnswerMove
  <1>2. ASSUME NEW p \in PW, RefuseRequest(p) PROVE AnswerInv'
    <2>1. PICK ch \in Ch : /\ Dequeue(p, ch)
                           /\ MoveTo(ch, "done", pend[ch], cohort[ch], hold[ch])
                           /\ Respond(ch, "ERROR", {}, {})
                           /\ UNCHANGED <<sent, dVars>>
      BY Zenon, <1>2, MoveRefuse DEF objVars
    <2>2. OverStays /\ SentStays
      BY Zenon, <1>2, <2>1, ClaimTask, SentSame
    <2>3. task[ch] # "none"
      BY Zenon, <2>1, DequeueFacts
    <2>4. \A x \in Ch : task[x] = "none" => task'[x] = "none"
      BY Zenon, <2>1, <2>3 DEF MoveTo, Only
    <2> QED
      BY Zenon, <2>1, <2>2, <2>4, AnswerNone
  <1>3. ASSUME NEW ch \in Ch, Wake(ch) PROVE AnswerInv'
    <2>1. /\ MoveTo(ch, "xfer", pend[ch] \ ReadyOf(ch), Still(ch), hold[ch])
          /\ task[ch] = "wait" /\ UNCHANGED <<sent, resp, dVars>>
      BY Zenon, <1>3, MoveWake
    <2>2. OverStays
      <3>1. Started(ch)'
        BY Zenon, <2>1 DEF Started, MoveTo
      <3>2. pend'[ch] \cup cohort'[ch] \subseteq pend[ch] \cup cohort[ch]
        BY Zenon, <2>1 DEF MoveTo, Still, ReadyOf
      <3> QED
        BY Zenon, <2>1, <3>1, <3>2, OverMove DEF MoveTo
    <2>3. SentStays
      BY Zenon, <2>1, SentSame
    <2>4. \A x \in Ch : task[x] = "none" => task'[x] = "none"
      BY Zenon, <2>1 DEF MoveTo, Only
    <2>5. \A r \in Req : AnswerOf(ch, r)' /\ (Got(ch, r) => Got(ch, r)')
      BY Zenon, <2>1, <2>2, <2>3, AnswerKeep
    <2> QED
      BY Zenon, <2>1, <2>2, <2>3, <2>4, <2>5, AnswerMove
  <1>4. ASSUME NEW ch \in Ch, XferRaise(ch) \/ WaitTimeout(ch) PROVE AnswerInv'
    <2>1. /\ \/ task[ch] = "xfer" /\ MoveTo(ch, "raised", {}, cohort[ch], hold[ch])
             \/ task[ch] = "wait" /\ MoveTo(ch, "done", {}, cohort[ch], hold[ch])
          /\ \E st, err : Respond(ch, st, {}, err)
          /\ UNCHANGED <<sent, dVars>>
      BY Zenon, <1>4, MoveStop DEF objVars
    <2>2. OverStays /\ SentStays
      BY Zenon, <1>4, <2>1, ClaimTask, SentSame
    <2>3. \A x \in Ch : task[x] = "none" => task'[x] = "none"
      BY Zenon, <2>1 DEF MoveTo, Only
    <2> QED
      BY Zenon, <2>1, <2>2, <2>3, AnswerNone
  <1>5. ASSUME NEW ch \in Ch, NEW E \in SUBSET Req, XferEnd(ch, E) PROVE AnswerInv'
    <2>1. /\ \E t \in {"done", "wait"} : MoveTo(ch, t, pend[ch], {}, hold[ch])
          /\ task[ch] = "xfer" /\ \E st : Respond(ch, st, cohort[ch] \ E, E) /\ UNCHANGED dVars
      BY Zenon, <1>5, MoveEnd
    <2>2. Only(ch) /\ cohort'[ch] = {} /\ pend'[ch] = pend[ch] /\ \E t \in {"done", "wait"} : task'[ch] = t
      BY Zenon, <2>1 DEF MoveTo
    <2>3. Started(ch)'
      BY Zenon, <2>2 DEF Started
    <2>4. OverStays
      <3>1. pend'[ch] \cup cohort'[ch] \subseteq pend[ch] \cup cohort[ch]
        BY Zenon, <2>2
      <3> QED
        BY Zenon, <2>2, <2>3, <3>1, OverMove
    <2>5. SentStays
      BY Zenon, <1>5, SentEnd
    <2>6. \A x \in Ch : task[x] = "none" => task'[x] = "none"
      BY Zenon, <2>1, <2>2 DEF Only
    <2>7. ASSUME NEW r \in cohort[ch] \ E
          PROVE  r \in ReqsOf[ch[3]] /\ ~ Over(ch, r) /\ Over(ch, r)' /\ Sent(ch[1], r)'
      <3>1. r \in ReqsOf[ch[3]] /\ r \notin pend[ch] /\ r \in Req
        BY Zenon, ChFacts DEF TaskInv, TaskOf
      <3>2. Over(ch, r)' /\ ~ Over(ch, r)
        BY Zenon, <2>2, <2>3, <3>1 DEF Over
      <3>3. Active(ch, r) /\ UseOf(ch, r)
        BY Zenon, <2>1, <3>1 DEF Active, EntryInv
      <3>4. <<ch[1], r, hold[ch][r]>> \in ready
        BY Zenon, <3>3 DEF UseOf
      <3>5. hold[ch][r] \in Obj
        BY Zenon, <3>4 DEF ObjTypes, Key
      <3> QED
        BY Zenon, <1>5, <3>1, <3>2, <3>5, SentEnd
    <2> QED
      BY Zenon, <2>1, <2>4, <2>5, <2>6, <2>7, AnswerRespond
  <1> QED
    BY Zenon, <1>1, <1>2, <1>3, <1>4, <1>5

-----------------------------------------------------------------------------
\* The receiving side, and the theorems.

\* The step of another component.
LEMMA AnswerBeside ==
    ASSUME RawTypes, AnswerInv, Beside
    PROVE  AnswerInv'
  <1>0. UNCHANGED <<task, pend, cohort, sent, resp, count, fin, inv>>
    BY Zenon, BesideSame DEF dVars
  <1>1. OverStays /\ SentStays
    BY Zenon, <1>0, SentSame DEF OverStays, Over, Started
  <1>2. \A x \in Ch, r \in Req : AnswerOf(x, r)' /\ (Got(x, r) => Got(x, r)')
    BY Zenon, <1>0, <1>1, AnswerKeep
  <1>3. GotStays
    BY Zenon, <1>2 DEF GotStays
  <1>4. \A d \in DW, b \in Batch, r \in Req : CountOf(d, b, r)'
    BY Zenon, <1>0, <1>3, CountKeep DEF AnswerInv
  <1>5. \A d \in DW, r \in Req : FinOf(d, r)'
    BY Zenon, <1>0, <1>3, FinKeep DEF AnswerInv
  <1> QED
    BY Zenon, <1>2, <1>4, <1>5 DEF AnswerInv

\* receive_kv counts every prefill worker.
LEMMA AnswerReceive ==
    ASSUME RawTypes, TaskInv, AnswerInv, NEW d \in DW, NEW b \in Batch, ReceiveKv(d, b)
    PROVE  AnswerInv'
  <1> USE DEF RawTypes
  <1>0. /\ task' = [ch \in Ch |-> IF ch[2] = d /\ ch[3] = b THEN "queued" ELSE task[ch]]
        /\ count' = [count EXCEPT ![d] = [r \in Req |-> IF r \in ReqsOf[b] THEN Cardinality(PW) ELSE count[d][r]]]
        /\ UNCHANGED <<pend, cohort, sent, resp, fin, inv>>
    BY Zenon DEF ReceiveKv, PullTasks, objVars
  <1>1. OverStays /\ SentStays
    <2>1. \A x \in Ch : Started(x) => Started(x)'
      BY Zenon, ReceiveStarted
    <2> QED
      BY Zenon, <1>0, <2>1, SentSame DEF OverStays, Over
  <1>2. \A x \in Ch, r \in Req : AnswerOf(x, r)' /\ (Got(x, r) => Got(x, r)')
    BY Zenon, <1>0, <1>1, AnswerKeep
  <1>3. GotStays
    BY Zenon, <1>2 DEF GotStays
  <1>4. ASSUME NEW e \in DW, NEW c \in Batch, NEW r \in Req PROVE CountOf(e, c, r)'
    <2>1. CASE e = d /\ c = b
      <3> SUFFICES ASSUME r \in ReqsOf[c]
                   PROVE  count'[e][r] >= Cardinality(PW) - Cardinality(From(e, c, r)')
        BY Zenon DEF CountOf
      <3>1. count'[e][r] = Cardinality(PW)
        BY Zenon, <1>0, <2>1 DEF RecvTypes
      <3> DEFINE m == Cardinality(PW)
                 f == Cardinality(From(e, c, r)')
      <3>2. m \in Nat /\ f \in Nat
        BY Zenon, <1>3, FromStays
      <3> HIDE DEF m, f
      <3>3. m >= m - f
        BY SMTT(60), <3>2
      <3> QED
        BY Zenon, <3>1, <3>3 DEF m, f
    <2>2. CASE ~ (e = d /\ c = b)
      <3>1. ASSUME NEW p \in PW, task[<<p, e, c>>] = "none" PROVE task'[<<p, e, c>>] = "none"
        <4>1. <<p, e, c>> \in Ch /\ <<p, e, c>>[2] = e /\ <<p, e, c>>[3] = c
          BY Zenon, ChFacts
        <4> QED
          BY Zenon, <1>0, <2>2, <3>1, <4>1
      <3>2. r \in ReqsOf[c] => count'[e][r] = count[e][r]
        <4>1. e = d /\ r \in ReqsOf[c] => r \notin ReqsOf[b]
          BY Zenon, <2>2, BatchAssumption
        <4> QED
          BY Zenon, <1>0, <4>1 DEF RecvTypes
      <3>3. CASE r \in ReqsOf[c]
        BY Zenon, <1>3, <3>1, <3>2, <3>3, CountKeep DEF AnswerInv
      <3>4. CASE r \notin ReqsOf[c]
        BY Zenon, <3>4 DEF CountOf
      <3> QED
        BY Zenon, <3>3, <3>4
    <2> QED
      BY Zenon, <2>1, <2>2
  <1>5. \A e \in DW, r \in Req : FinOf(e, r)'
    BY Zenon, <1>0, <1>3, FinKeep DEF AnswerInv
  <1> QED
    BY Zenon, <1>2, <1>4, <1>5 DEF AnswerInv

\* _handle_failed_recv reports a request finished only with its blocks invalid.
LEMMA AnswerFail ==
    ASSUME RawTypes, AnswerInv, NEW d \in DW, NEW R \in SUBSET Req, FailRecv(d, R),
           UNCHANGED <<task, pend, cohort, sent, resp, count>>
    PROVE  AnswerInv'
  <1> USE DEF RawTypes
  <1>1. OverStays /\ SentStays
    BY Zenon, SentSame DEF OverStays, Over, Started
  <1>2. \A x \in Ch, r \in Req : AnswerOf(x, r)' /\ (Got(x, r) => Got(x, r)')
    BY Zenon, <1>1, AnswerKeep
  <1>3. GotStays
    BY Zenon, <1>2 DEF GotStays
  <1>4. \A e \in DW, b \in Batch, r \in Req : CountOf(e, b, r)'
    BY Zenon, <1>3, CountKeep DEF AnswerInv
  <1> DEFINE rep == NewlyFailed(d, R)
  <1>5. /\ inv' = [inv EXCEPT ![d] = [r \in Req |-> inv[d][r] + IF r \in rep THEN 1 ELSE 0]]
        /\ fin' = [fin EXCEPT ![d] = [r \in Req |-> fin[d][r] + IF r \in rep THEN 1 ELSE 0]]
    BY Zenon DEF FailRecv
  <1> HIDE DEF rep
  <1>6. ASSUME NEW e \in DW, NEW r \in Req PROVE FinOf(e, r)'
    <2>1. (fin'[e][r] > 0 /\ inv'[e][r] = 0) => (fin[e][r] > 0 /\ inv[e][r] = 0)
      BY SMTT(60), <1>5 DEF RecvTypes
    <2> QED
      BY Zenon, <1>3, <2>1, FinKeep DEF AnswerInv
  <1> QED
    BY Zenon, <1>2, <1>4, <1>6 DEF AnswerInv

\* The answer a decode worker reads: the requests it names are got, and were
\* not before.
LEMMA ReadAnswer ==
    ASSUME RawTypes, AnswerInv, NEW ch \in Ch, OnResponse(ch), NEW x \in Ch, NEW r \in Req
    PROVE  /\ AnswerOf(x, r)' /\ (Got(x, r) => Got(x, r)')
           /\ r \in Head(resp[ch]).ok => /\ r \in ReqsOf[ch[3]] /\ task[ch] # "none"
                                         /\ Got(ch, r)' /\ ~ Got(ch, r)
  <1> USE DEF RawTypes
  <1> DEFINE Q == resp[ch]
  <1>0. /\ Q # <<>> /\ resp' = [resp EXCEPT ![ch] = Tail(Q)]
        /\ UNCHANGED <<task, pend, cohort, sent>>
    BY Zenon DEF OnResponse, objVars
  <1>1. Q \in Seq(Answer) /\ resp'[ch] = Tail(Q) /\ \A y \in Ch : y # ch => resp'[y] = resp[y]
    BY Zenon, <1>0 DEF RecvTypes
  <1>2. OverStays /\ SentStays
    BY Zenon, <1>0, SentSame DEF OverStays, Over, Started
  <1> HIDE DEF Q
  <1>3. /\ \A i \in DOMAIN Tail(Q) : i + 1 \in DOMAIN Q /\ i + 1 # 1 /\ Tail(Q)[i] = Q[i + 1] /\ i \in Int
        /\ 1 \in DOMAIN Q /\ Head(Q) = Q[1]
    BY SMTT(60), <1>0, <1>1
  <1>4. AnswerOf(ch, r) /\ ch[1] \in PW
    BY Zenon, ChFacts DEF AnswerInv
  <1>5. \A i, j \in DOMAIN Q : r \in Q[i].ok /\ r \in Q[j].ok => i = j
    BY Zenon, <1>4 DEF AnswerOf, Q
  <1>6. (\E i \in DOMAIN Tail(Q) : r \in Tail(Q)[i].ok) => (\E i \in DOMAIN Q : r \in Q[i].ok)
    BY Zenon, <1>3
  <1>7. Answered(ch, r)' => Answered(ch, r)
    BY Zenon, <1>1, <1>6 DEF Answered, Q
  <1>8. \A i, j \in DOMAIN Tail(Q) : r \in Tail(Q)[i].ok /\ r \in Tail(Q)[j].ok => i = j
    <2> SUFFICES ASSUME NEW i \in DOMAIN Tail(Q), NEW j \in DOMAIN Tail(Q), r \in Tail(Q)[i].ok, r \in Tail(Q)[j].ok
                 PROVE  i = j
      BY Zenon
    <2>1. i + 1 = j + 1
      BY Zenon, <1>3, <1>5
    <2>2. i \in Int /\ j \in Int
      BY Zenon, <1>3
    <2> QED
      BY SMTT(60), <2>1, <2>2
  <1>9. Over(ch, r)' = Over(ch, r) /\ Sent(ch[1], r)' = Sent(ch[1], r)
    BY Zenon, <1>0 DEF Over, Started, Sent
  <1>10. AnswerOf(ch, r)' /\ (Got(ch, r) => Got(ch, r)')
    BY Zenon, <1>1, <1>4, <1>7, <1>8, <1>9 DEF AnswerOf, Got
  <1>11. AnswerOf(x, r)' /\ (Got(x, r) => Got(x, r)')
    <2>1. CASE x # ch
      BY Zenon, <1>1, <1>2, <2>1, AnswerKeep
    <2> QED
      BY Zenon, <1>10, <2>1
  <1>12. ASSUME r \in Head(Q).ok
         PROVE  /\ r \in ReqsOf[ch[3]] /\ task[ch] # "none" /\ Got(ch, r)' /\ ~ Got(ch, r)
    <2>1. Answered(ch, r)
      BY Zenon, <1>3, <1>12 DEF Answered, Q
    <2>2. ~ (\E i \in DOMAIN Tail(Q) : r \in Tail(Q)[i].ok)
      BY Zenon, <1>3, <1>5, <1>12
    <2>3. ~ Answered(ch, r)'
      BY Zenon, <1>1, <2>2 DEF Answered
    <2>4. r \in ReqsOf[ch[3]] /\ Over(ch, r) /\ Sent(ch[1], r)
      BY Zenon, <1>4, <2>1 DEF AnswerOf
    <2>5. task[ch] # "none"
      BY Zenon, <2>4 DEF Over, Started
    <2> QED
      BY Zenon, <1>9, <2>1, <2>3, <2>4, <2>5 DEF Got
  <1> QED
    BY Zenon, <1>11, <1>12 DEF Q

\* process_pulling_result takes one from the count of a request for the worker
\* it now has the request from, and finishes it when it has it from all.
LEMMA AnswerRead ==
    ASSUME RawTypes, AnswerInv, NEW ch \in Ch, OnResponse(ch)
    PROVE  AnswerInv'
  <1> USE DEF RawTypes
  <1> DEFINE d == ch[2]
             b == ch[3]
             m == Head(resp[ch])
             rep == NewlyFailed(d, FailedBy(ch, m))
             com == Completed(d, m.ok)
             dec == m.ok \ failed[d]
  <1>0. /\ UNCHANGED <<task, pend, cohort, sent>>
        /\ count' = [count EXCEPT ![d] = [r \in Req |-> count[d][r] - IF r \in dec THEN 1 ELSE 0]]
        /\ inv' = [inv EXCEPT ![d] = [r \in Req |-> inv[d][r] + IF r \in rep THEN 1 ELSE 0]]
        /\ fin' = [fin EXCEPT ![d] = [r \in Req |-> fin[d][r] + IF r \in rep \cup com THEN 1 ELSE 0]]
    BY Zenon DEF OnResponse, objVars
  <1>1. d \in DW /\ b \in Batch /\ ch = <<ch[1], d, b>> /\ ch[1] \in PW
    BY Zenon, ChFacts
  <1>2. \A x \in Ch, r \in Req : AnswerOf(x, r)' /\ (Got(x, r) => Got(x, r)')
    BY Zenon, ReadAnswer
  <1>3. GotStays
    BY Zenon, <1>2 DEF GotStays
  <1>4. \A r \in Req : r \in m.ok => r \in ReqsOf[b] /\ task[ch] # "none" /\ Got(ch, r)' /\ ~ Got(ch, r)
    BY Zenon, ReadAnswer
  <1>5. /\ dec \subseteq m.ok
        /\ \A r \in com : r \in dec /\ count[d][r] = 1
    BY Zenon DEF Completed
  <1> HIDE DEF d, b, m, rep, com, dec
  <1>6. ASSUME NEW e \in DW, NEW c \in Batch, NEW r \in Req PROVE CountOf(e, c, r)'
    <2>1. CASE ~ (e = d /\ r \in dec)
      <3>1. count'[e][r] = count[e][r]
        BY SMTT(60), <1>0, <2>1 DEF RecvTypes
      <3> QED
        BY Zenon, <1>0, <1>3, <3>1, CountKeep DEF AnswerInv
    <2>2. CASE e = d /\ r \in dec /\ c # b
      <3>1. r \notin ReqsOf[c]
        BY Zenon, <1>1, <1>4, <1>5, <2>2, BatchAssumption
      <3> QED
        BY Zenon, <3>1 DEF CountOf
    <2>3. CASE e = d /\ r \in dec /\ c = b
      <3>1. Got(ch, r)' /\ ~ Got(ch, r) /\ task[ch] # "none" /\ r \in ReqsOf[b]
        BY Zenon, <1>4, <1>5, <2>3
      <3>2. ch[1] \in From(d, b, r)' /\ ch[1] \notin From(d, b, r)
        BY Zenon, <1>1, <3>1 DEF From
      <3>3. From(d, b, r) \cup {ch[1]} \subseteq From(d, b, r)'
        BY Zenon, <1>1, <1>3, <3>2, FromStays
      <3>4. /\ Cardinality(From(d, b, r) \cup {ch[1]}) = Cardinality(From(d, b, r)) + 1
            /\ Cardinality(From(d, b, r) \cup {ch[1]}) <= Cardinality(From(d, b, r)')
        <4>1. Countable(From(d, b, r)) /\ Countable(From(d, b, r)')
          BY Zenon, FromSet, SendersCount
        <4> QED
          BY Zenon, <3>2, <3>3, <4>1 DEF Countable
      <3>5. count[d][r] >= Cardinality(PW) - Cardinality(From(d, b, r))
        BY Zenon, <1>1, <3>1 DEF AnswerInv, CountOf
      <3>6. count'[d][r] = count[d][r] - 1 /\ count[d][r] \in Int
        BY Zenon, <1>0, <1>1, <2>3 DEF RecvTypes
      <3> DEFINE k == count[d][r]
                 n == Cardinality(PW)
                 f == Cardinality(From(d, b, r))
                 g == Cardinality(From(d, b, r)')
      <3>7. k \in Int /\ n \in Nat /\ f \in Nat /\ g \in Nat /\ f + 1 <= g /\ k >= n - f
        BY Zenon, <1>1, <1>3, <3>4, <3>5, <3>6, FromStays
      <3> HIDE DEF k, n, f, g
      <3>8. k - 1 >= n - g
        BY SMTT(60), <3>7
      <3>9. count'[d][r] >= Cardinality(PW) - Cardinality(From(d, b, r)')
        BY Zenon, <3>6, <3>8 DEF k, n, g
      <3> QED
        BY Zenon, <2>3, <3>9 DEF CountOf
    <2> QED
      BY Zenon, <2>1, <2>2, <2>3
  <1>7. ASSUME NEW e \in DW, NEW r \in Req PROVE FinOf(e, r)'
    <2>1. CASE ~ (e = d /\ r \in com)
      <3>1. (fin'[e][r] > 0 /\ inv'[e][r] = 0) => (fin[e][r] > 0 /\ inv[e][r] = 0)
        BY SMTT(60), <1>0, <2>1 DEF RecvTypes
      <3> QED
        BY Zenon, <1>3, <3>1, FinKeep DEF AnswerInv
    <2>2. CASE e = d /\ r \in com
      <3>1. r \in dec /\ count[d][r] = 1 /\ r \in ReqsOf[b] /\ task[ch] # "none"
        BY Zenon, <1>4, <1>5, <2>2
      <3>2. count'[d][r] = 0
        BY SMTT(60), <1>0, <1>1, <3>1 DEF RecvTypes
      <3>3. 0 >= Cardinality(PW) - Cardinality(From(d, b, r)')
        <4>1. CountOf(d, b, r)'
          BY Zenon, <1>1, <1>6
        <4>2. \E p \in PW : task'[<<p, d, b>>] # "none"
          BY Zenon, <1>0, <1>1, <3>1
        <4> QED
          BY Zenon, <3>1, <3>2, <4>1, <4>2 DEF CountOf
      <3>4. /\ Cardinality(From(d, b, r)') <= Cardinality(PW)
            /\ Cardinality(From(d, b, r)') \in Nat /\ Cardinality(PW) \in Nat
            /\ Cardinality(From(d, b, r)') = Cardinality(PW) => From(d, b, r)' = PW
        <4>1. Countable(PW) /\ Countable(From(d, b, r)')
          BY Zenon, FromSet, SendersCount
        <4> QED
          BY Zenon, <4>1, FromSet DEF Countable
      <3> DEFINE n == Cardinality(PW)
                 g == Cardinality(From(d, b, r)')
      <3>5. n \in Nat /\ g \in Nat /\ g <= n /\ 0 >= n - g
        BY Zenon, <3>3, <3>4
      <3> HIDE DEF n, g
      <3>6. g = n
        BY SMTT(60), <3>5
      <3>7. From(d, b, r)' = PW
        BY Zenon, <3>4, <3>6 DEF n, g
      <3>8. \A p \in PW : Got(<<p, d, b>>, r)'
        BY Zenon, <3>7 DEF From
      <3> QED
        BY Zenon, <1>1, <2>2, <3>1, <3>8 DEF FinOf
    <2> QED
      BY Zenon, <2>1, <2>2
  <1> QED
    BY Zenon, <1>2, <1>6, <1>7 DEF AnswerInv

\* Every step keeps what is known of the answers.
LEMMA NextAnswer ==
    ASSUME RawTypes, TaskInv, EntryInv, ClaimInv, AnswerInv, [RawNext]_rawVars
    PROVE  AnswerInv'
  <1>1. ASSUME NEW d \in DW, NEW b \in Batch, EngineUnknown(d, b) PROVE AnswerInv'
    <2>1. FailRecv(d, ReqsOf[b]) /\ UNCHANGED <<task, pend, cohort, sent, resp, count>>
      BY Zenon, <1>1 DEF EngineUnknown, objVars, taskVars
    <2>2. ReqsOf[b] \in SUBSET Req
      BY Zenon, BatchAssumption
    <2> QED
      BY Zenon, <2>1, <2>2, AnswerFail
  <1>2. ASSUME NEW ch \in Ch, OnTimeout(ch) PROVE AnswerInv'
    <2>1. FailRecv(ch[2], ReqsOf[ch[3]]) /\ UNCHANGED <<task, pend, cohort, sent, resp, count>>
      BY Zenon, <1>2 DEF OnTimeout, objVars, taskVars
    <2>2. ch[2] \in DW /\ ReqsOf[ch[3]] \in SUBSET Req
      BY Zenon, ChFacts
    <2> QED
      BY Zenon, <2>1, <2>2, AnswerFail
  <1> QED
    BY Zenon, <1>1, <1>2, AnswerBeside, AnswerReceive, AnswerRead, AnswerSender DEF RawNext, Beside

-----------------------------------------------------------------------------

\* The initial state: nothing is published, queued, held or counted.
LEMMA RawInitInv == RawInit => RawInv
  <1> SUFFICES ASSUME RawInit PROVE RawInv
    BY Zenon
  <1>1. ObjTypes
    BY SMTT(60) DEF RawInit, ObjTypes
  <1>2. TaskTypes
    BY SMTT(60) DEF RawInit, TaskTypes
  <1>3. RecvTypes
    <2>1. resp \in [Ch -> Seq(Answer)]
      <3>1. <<>> \in Seq(Answer)
        BY SMTT(60)
      <3>2. resp = [ch \in Ch |-> <<>>]
        BY Zenon DEF RawInit
      <3> QED
        BY Zenon, <3>1, <3>2
    <2>2. dpc \in [Ch -> {"none", "recv", "done"}]
      BY Zenon DEF RawInit
    <2>3. count \in [DW -> [Req -> Int]] /\ failed \in [DW -> SUBSET Req]
      BY SMTT(60) DEF RawInit
    <2>4. fin \in [DW -> [Req -> Nat]] /\ inv \in [DW -> [Req -> Nat]]
      BY Zenon DEF RawInit
    <2> QED
      BY Zenon, <2>1, <2>2, <2>3, <2>4 DEF RecvTypes
  <1>4. \A x \in Ch : /\ task[x] = "none" /\ pend[x] = {} /\ cohort[x] = {} /\ resp[x] = <<>>
                      /\ ~ Started(x) /\ DOMAIN resp[x] = {}
    BY SMTT(60) DEF RawInit, Started
  <1>5. TaskInv
    <2>1. \A x \in Ch : TaskOf(x)
      BY Zenon, <1>4 DEF TaskOf
    <2>2. \A p \in PW : DOMAIN queue[p] = {}
      BY SMTT(60) DEF RawInit
    <2> QED
      BY Zenon, <2>1, <2>2 DEF TaskInv, QueueOf
  <1>6. EntryInv
    <2>1. \A p \in PW, r \in Req : freed[p][r] = 0 /\ cur[p][r] = None
      BY Zenon DEF RawInit
    <2>2. ready = {}
      BY Zenon DEF RawInit
    <2>3. ASSUME NEW p \in PW, NEW r \in Req PROVE EntryOf(p, r)
      BY SMTT(60), <2>1, <2>2 DEF EntryOf
    <2>4. ASSUME NEW x \in Ch, NEW r \in Req PROVE UseOf(x, r)
      <3>1. ~ Active(x, r)
        BY Zenon, <1>4, <2>2 DEF Active
      <3>2. cur[x[1]][r] = None /\ x[2] # None
        BY ZenonT(60), <2>1, ChFacts, NamesApart
      <3> QED
        BY Zenon, <2>2, <3>1, <3>2 DEF UseOf
    <2> QED
      BY Zenon, <2>3, <2>4 DEF EntryInv
  <1>7. ClaimInv
    <2> SUFFICES ASSUME NEW p \in PW, NEW r \in Req, NEW o \in Obj PROVE ClaimOf(p, r, o)
      BY Zenon DEF ClaimInv
    <2>1. Users(p, r, o) = {}
      BY Zenon, <1>4, ChFacts DEF Users
    <2>2. Cardinality(Users(p, r, o)) = 0
      BY Zenon, <2>1, CardinalitySmall
    <2>3. sending[<<p, r, o>>] = 0 /\ sent[<<p, r, o>>] = 0
      BY Zenon, KeyFacts DEF RawInit
    <2>4. Cardinality(Served(p, r)) \in Nat
      BY Zenon, ServedFinite
    <2>5. 0 <= Cardinality(Served(p, r))
      BY SMTT(60), <2>4
    <2> QED
      BY Zenon, <2>2, <2>3, <2>5 DEF ClaimOf
  <1>8. AnswerInv
    <2>1. ASSUME NEW x \in Ch, NEW r \in Req PROVE AnswerOf(x, r)
      BY Zenon, <1>4 DEF AnswerOf, Answered
    <2>2. \A d \in DW, b \in Batch, r \in Req : CountOf(d, b, r)
      BY Zenon, <1>4, ChFacts DEF CountOf
    <2>3. ASSUME NEW d \in DW, NEW r \in Req PROVE FinOf(d, r)
      <3>1. fin[d][r] = 0
        BY Zenon DEF RawInit
      <3>2. ~ (fin[d][r] > 0)
        BY SMTT(60), <3>1
      <3> QED
        BY Zenon, <3>2 DEF FinOf
    <2> QED
      BY Zenon, <2>1, <2>2, <2>3 DEF AnswerInv
  <1> QED
    BY Zenon, <1>1, <1>2, <1>3, <1>5, <1>6, <1>7, <1>8 DEF RawInv, RawTypes

\* Every step of the prefill workers, the decode workers and the engine.
LEMMA RawNextInv == RawInv /\ [RawNext]_rawVars => RawInv'
  BY Zenon, NextTypes, NextTask, NextEntry, NextClaim, NextAnswer DEF RawInv

\* The invariant holds in every state of the raw pull, for any number of workers,
\* requests and batches, with prefill workers that die, refused requests,
\* exceptions in the transfer and timeouts at any point.
THEOREM RawInvariant == RawSpec => []RawInv
  BY RawInitInv, RawNextInv, PTL DEF RawSpec

\* send_kv_to_decode reads the blocks of a request only while they are not
\* reported as sent (and so not freed by the engine), and reports them at most once.
THEOREM RawBlocksAreHeld == RawSpec => []RawBlocksHeld
  <1>1. RawInv => RawBlocksHeld
    <2> SUFFICES ASSUME RawInv PROVE RawBlocksHeld
      BY Zenon
    <2>1. \A p \in PW, r \in Req : freed[p][r] <= 1
      BY Zenon DEF RawInv, EntryInv, EntryOf
    <2>2. ASSUME NEW ch \in Ch, task[ch] = "xfer", NEW r \in cohort[ch] PROVE freed[ch[1]][r] = 0
      <3>1. r \in Req
        BY Zenon DEF RawInv, RawTypes, TaskTypes
      <3>2. Active(ch, r)
        BY Zenon, <2>2 DEF Active
      <3>3. UseOf(ch, r)
        BY Zenon, <3>1 DEF RawInv, EntryInv
      <3> QED
        BY Zenon, <3>2, <3>3 DEF UseOf
    <2> QED
      BY Zenon, <2>1, <2>2 DEF RawBlocksHeld
  <1> QED
    BY <1>1, RawInvariant, PTL

\* A request that a decode worker reports as received, with no invalid block,
\* has been written by every prefill worker, and none still writes it.
THEOREM RawFinishedMeansWritten == RawSpec => []FinishedMeansWritten
  <1>1. RawInv => FinishedMeansWritten
    <2> SUFFICES ASSUME RawInv, NEW d \in DW, NEW r \in Req, fin[d][r] > 0, inv[d][r] = 0
                 PROVE  /\ \A p \in PW : Sent(p, r)
                        /\ \A ch \in Ch : ch[2] = d /\ task[ch] = "xfer" => r \notin cohort[ch]
      BY Zenon DEF FinishedMeansWritten, Sent
    <2>1. \A p \in PW : \E b \in Batch : r \in ReqsOf[b] /\ Got(<<p, d, b>>, r)
      BY Zenon DEF RawInv, AnswerInv, FinOf
    <2>2. ASSUME NEW p \in PW PROVE Sent(p, r)
      <3>1. PICK b \in Batch : Got(<<p, d, b>>, r)
        BY Zenon, <2>1
      <3>2. <<p, d, b>>[1] = p
        BY Zenon, ChFacts
      <3> QED
        BY Zenon, <3>1, <3>2 DEF Got
    <2>3. ASSUME NEW ch \in Ch, ch[2] = d, r \in cohort[ch] PROVE FALSE
      <3>0. ch[1] \in PW
        BY Zenon, ChFacts
      <3>1. PICK b \in Batch : r \in ReqsOf[b] /\ Got(<<ch[1], d, b>>, r)
        BY Zenon, <2>1, <3>0
      <3>2. /\ <<ch[1], d, b>> \in Ch /\ <<ch[1], d, b>>[1] = ch[1] /\ <<ch[1], d, b>>[2] = ch[2]
            /\ <<ch[1], d, b>>[3] = b
        BY Zenon, <2>3, <3>0, ChFacts
      <3>3. r \in ReqsOf[ch[3]]
        BY Zenon, <2>3 DEF RawInv, TaskInv, TaskOf
      <3>4. <<ch[1], d, b>> = ch
        BY Zenon, <3>1, <3>2, <3>3, SameChannel
      <3> QED
        BY Zenon, <2>3, <3>1, <3>4 DEF Got, Over
    <2> QED
      BY Zenon, <2>2, <2>3
  <1> QED
    BY <1>1, RawInvariant, PTL
=============================================================================
