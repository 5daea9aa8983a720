----------------------- MODULE MooncakeSessionProofs -----------------------
\* What MooncakeSession promises, for any number of sessions, transfers, pulls,
\* chunks and slots and whatever fails: InprocBlocksHeld, InprocSlotLease and
\* InprocNoSilentLoss.
\*
\* The inductive invariant InprocInv has one conjunct per piece of shared state:
\*   ObjInv     a session that uses a SendBlockMeta object uses the one of its
\*              transfer that reqs_need_send holds, which is ready and not freed;
\*   ClaimInv   meta.sending is the number of sessions that use the object, and
\*              meta.sent does not exceed the number of sessions that are over;
\*   ChunkInv   inflight is the number of pulls in hand, completed at most the
\*              number of those past their write, and a pull that waits for a slot or
\*              writes belongs to a session that is still in the map;
\*   AbortInv   an acknowledged abort, or a session that ended by itself, means
\*              that the prefill worker does not write for it any more;
\*   LeaseInv   a receive slot is leased to one chunk and not free while leased,
\*              a chunk in hand has one, and decoded counts the decoded chunks;
\*   ReportInv  the counter of a pull is the number of its open sessions, and
\*              a reported pull has none.
\* WrittenInv adds what a session that ended without a failure has received.
EXTENDS MooncakeSession, DataLemmas

-----------------------------------------------------------------------------
\* The invariant.
\* The types of what the actions read and write, in the groups the lemmas use.
ObjTypes ==
    /\ seen \in [Transfer -> {"idle", "published", "announced", "dropped"}]
    /\ cur \in [Transfer -> Obj \cup {None}]
    /\ named \subseteq Obj /\ ready \subseteq Obj
    /\ sent \in [Obj -> Nat] /\ sending \in [Obj -> Int]
    /\ freed \in [Transfer -> Nat]
    /\ openPc \in [Session -> {"none", "sent", "wait", "xfer", "done"}]
    /\ obj \in [Session -> Obj \cup {None}]
    /\ inMap \subseteq Session
PullTypes ==
    /\ pull \in [SC -> {"none", "sent", "wait", "job", "sending", "failed", "end"}]
    /\ completed \in [Session -> Nat] /\ inflight \in [Session -> Int]
    /\ inMap \subseteq Session
AbortTypes ==
    /\ closed \subseteq Session
    /\ abortPc \in [Session -> {"none", "sent", "drain", "ack", "error"}]
    /\ abortOps \in [Session -> SUBSET (Chunk \cup {-1})]
    /\ opened \in [Session -> {"none", "ok", "error"}]
    /\ dpc \in [Session -> {"none", "open", "active", "decode", "abort", "done", "lost"}]
LeaseTypes ==
    /\ written \subseteq SC /\ unwritten \subseteq SC
    /\ answer \in [SC -> {"none", "ok", "error", "read"}]
    /\ rc \in [SC -> {"none", "granted", "decode", "writeback", "done", "broken"}]
    /\ rslot \in [SC -> ReceiverSlot \cup {None}]
    /\ rfree \subseteq ReceiverSlot
    /\ decoded \in [Session -> Nat]
ReportTypes ==
    /\ count \in [Pull -> Int]
    /\ failed \subseteq Pull
    /\ fin \in [Pull -> Nat] /\ inv \in [Pull -> Nat]
Types == ObjTypes /\ PullTypes /\ AbortTypes /\ LeaseTypes /\ ReportTypes

\* The transfer an object belongs to.
Owner(o) == IF o \in Session THEN TransferOf[o] ELSE o
\* The sessions that pull transfer t.
Of(t) == {s \in Session : TransferOf[s] = t}

\* Session s counts in meta.sending: its open is under way, or it is in the map.
\* It is active when it claims its object or can; it is over when it never will.
Claims(s) == openPc[s] = "xfer" \/ s \in inMap
Active(s) == Claims(s) \/ (openPc[s] = "wait" /\ obj[s] \in ready)
Over(s) == openPc[s] = "done" /\ s \notin inMap

\* The sessions meta.sending and meta.sent stand for.
Claiming(o) == {s \in Of(Owner(o)) : obj[s] = o /\ Claims(s)}
Ended(t) == {s \in Of(t) : Over(s)}

\* The entry of transfer t in reqs_need_send.
ObjOf(t) ==
    /\ cur[t] # None => Owner(cur[t]) = t
    /\ cur[t] \in Session => openPc[cur[t]] \notin {"none", "sent"}
    /\ freed[t] <= 1
    /\ freed[t] > 0 => seen[t] = "announced" /\ cur[t] \notin ready
\* An object becomes ready when its transfer is announced.
ReadyOf(o) == o \in ready => o \in named /\ seen[Owner(o)] = "announced"
\* The object an open of session s works on.
OpenOf(s) ==
    /\ openPc[s] \in {"none", "sent"} => s \notin ready
    /\ openPc[s] \notin {"none", "sent"} => obj[s] # None /\ Owner(obj[s]) = TransferOf[s]
    /\ s \in inMap => openPc[s] = "done"
    /\ Active(s) => /\ obj[s] \in ready
                    /\ freed[TransferOf[s]] = 0 /\ cur[TransferOf[s]] = obj[s]
ObjInv ==
    /\ \A t \in Transfer : ObjOf(t)
    /\ \A o \in Obj : ReadyOf(o)
    /\ \A s \in Session : OpenOf(s)

\* The two counters of an object.
ClaimInv ==
    \A o \in Obj :
        /\ sending[o] = Cardinality(Claiming(o))
        /\ sent[o] <= Cardinality(Ended(Owner(o)))

\* The pulls of s in hand, the ones past their write, and the decoded chunks.
Carried(s) == {c \in Chunk : pull[<<s, c>>] \in {"wait", "job", "sending", "failed"}}
Behind(s) == {c \in Chunk : pull[<<s, c>>] \in {"sending", "failed", "end"}}
Decoded(s) == {c \in Chunk : rc[<<s, c>>] = "done"}

\* The two counters of session s, and where its pulls stand.
CountOf(s) ==
    /\ inflight[s] = Cardinality(Carried(s))
    /\ completed[s] <= Cardinality(Behind(s))
PlaceOf(s) ==
    \A c \in Chunk :
        /\ pull[<<s, c>>] # "none" => c < TotalChunks[s]
        /\ pull[<<s, c>>] \in {"wait", "job"} => s \in inMap
ChunkInv == \A s \in Session : CountOf(s) /\ PlaceOf(s)

\* What the prefill worker has done for an abort of s.
AbortOf(s) ==
    /\ abortPc[s] \in {"drain", "ack", "error"} => s \in closed
    /\ abortPc[s] = "drain" /\ openPc[s] = "xfer" => -1 \in abortOps[s]
    /\ abortPc[s] = "ack" => openPc[s] # "xfer" /\ s \notin inMap
\* How far the open of s and the decode worker can be apart.
StageOf(s) ==
    /\ dpc[s] = "none" <=> openPc[s] = "none"
    /\ opened[s] # "none" => openPc[s] = "done"
    /\ dpc[s] \in {"active", "decode"} => opened[s] = "ok"
\* A session that is done is not written for.
StillOf(s) ==
    dpc[s] = "done" =>
        \/ abortPc[s] = "ack"
        \/ /\ openPc[s] = "done"
           /\ \A c \in Chunk : pull[<<s, c>>] \in {"none", "end"}
AbortInv == \A s \in Session : AbortOf(s) /\ StageOf(s) /\ StillOf(s)

\* A leased slot is not free and is leased once.
SlotsOnce ==
    \A x \in SC : rslot[x] # None =>
        /\ rslot[x] \notin rfree
        /\ \A y \in SC : rslot[y] = rslot[x] => y = x
\* Where a chunk stands on both sides.
PaceOf(s, c) == LET x == <<s, c>> IN
    /\ rc[x] \in {"granted", "decode", "writeback", "broken"} /\ dpc[s] # "done"
          => rslot[x] # None
    /\ pull[x] = "none" <=> rc[x] = "none"
    /\ answer[x] # "none" => pull[x] = "end"
    /\ rc[x] \in {"decode", "writeback", "broken", "done"} => answer[x] = "read"
LeaseInv ==
    /\ SlotsOnce
    /\ \A s \in Session, c \in Chunk : PaceOf(s, c)
    /\ \A s \in Session : decoded[s] = Cardinality(Decoded(s))

\* The sessions of pull q that have not ended.
Open(q) == {s \in Session : PullOf[s] = q /\ dpc[s] # "done"}
\* The counter of pull q and its report.
ReportOf(q) ==
    /\ count[q] = Cardinality(Open(q))
    /\ fin[q] > 0 => Open(q) = {}
    /\ fin[q] > 0 /\ q \in failed => inv[q] > 0
ReportInv == \A q \in Pull : ReportOf(q)

\* The chunks whose write the prefill worker made, in vain or not.
Served == written \cup unwritten
\* Session s has received everything; the write of an answered chunk was made.
Whole(s) == /\ opened[s] = "ok"
            /\ \A c \in Chunk : c < TotalChunks[s] => <<s, c>> \in Served /\ rc[<<s, c>>] = "done"
WholeOf(s) == dpc[s] = "done" => PullOf[s] \in failed \/ Whole(s)
WrittenOf(s, c) ==
    (pull[<<s, c>>] = "sending" \/ answer[<<s, c>>] \in {"ok", "read"}) => <<s, c>> \in Served
WrittenInv ==
    /\ \A s \in Session : WholeOf(s)
    /\ \A s \in Session, c \in Chunk : WrittenOf(s, c)

-----------------------------------------------------------------------------
\* The objects of reqs_need_send.  ObjMove is what the steps of the system do
\* to them.

\* What a session does with its object: it releases it, takes it, enters the
\* map with it, or has not seen one yet.
Finish(s) ==
    /\ Active(s)
    /\ FinishSend(s, IF Claims(s) THEN -1 ELSE 0)
    /\ openPc' = [openPc EXCEPT ![s] = "done"]
    /\ inMap' = inMap \ {s}
    /\ UNCHANGED <<seen, named, ready, obj>>
Take(s) ==
    /\ openPc[s] = "wait" /\ obj[s] \in ready
    /\ openPc' = [openPc EXCEPT ![s] = "xfer"]
    /\ sending' = [sending EXCEPT ![obj[s]] = @ + 1]
    /\ UNCHANGED <<seen, cur, named, ready, sent, freed, obj, inMap>>
Enter(s) ==
    /\ openPc[s] = "xfer"
    /\ openPc' = [openPc EXCEPT ![s] = "done"]
    /\ inMap' = inMap \cup {s}
    /\ UNCHANGED <<seen, cur, named, ready, sent, sending, freed, obj>>
Begin(s) ==
    /\ openPc[s] = "none"
    /\ openPc' = [openPc EXCEPT ![s] = "sent"]
    /\ UNCHANGED <<seen, cur, named, ready, sent, sending, freed, obj, inMap>>

\* The moves of the objects.
ObjMove ==
    \/ \E t \in Transfer :
          RecordPublish(t) \/ RecordAnnounce(t) \/ RecordDrop(t) \/ Sweep(t)
    \/ \E s \in Session :
          OpenArrive(s) \/ Take(s) \/ OpenAbandon(s) \/ Enter(s) \/ Finish(s) \/ Begin(s)
    \/ UNCHANGED <<seen, cur, named, ready, sent, sending, freed, openPc, obj, inMap>>

\* record_send_reqs publishes a request: a new object, or the one an open made.
LEMMA ObjPublish ==
    ASSUME ObjTypes, ObjInv, NEW t \in Transfer, RecordPublish(t)
    PROVE  ObjInv'
  <1> USE SessionAssumption DEF ObjTypes, ObjInv, RecordPublish, sessVars, Owner, Obj
  <1>1. ASSUME NEW u \in Transfer PROVE ObjOf(u)'
    BY SMTT(60) DEF ObjOf, OpenOf, ReadyOf
  <1>2. ASSUME NEW o \in Obj PROVE ReadyOf(o)'
    BY SMTT(60) DEF ReadyOf, ObjOf
  <1>3. ASSUME NEW r \in Session PROVE OpenOf(r)'
    BY ZenonT(60) DEF OpenOf, ObjOf, ReadyOf, Active, Claims
  <1> QED
    BY Zenon, <1>1, <1>2, <1>3 DEF ObjInv

\* record_send_reqs announces the blocks: the object becomes ready.
LEMMA ObjAnnounce ==
    ASSUME ObjTypes, ObjInv, NEW t \in Transfer, RecordAnnounce(t)
    PROVE  ObjInv'
  <1> USE SessionAssumption DEF ObjTypes, ObjInv, RecordAnnounce, sessVars, Owner, Obj
  <1>1. ASSUME NEW u \in Transfer PROVE ObjOf(u)'
    BY SMTT(60) DEF ObjOf, OpenOf, ReadyOf
  <1>2. ASSUME NEW o \in Obj PROVE ReadyOf(o)'
    BY SMTT(60) DEF ReadyOf, ObjOf
  <1>3. ASSUME NEW r \in Session PROVE OpenOf(r)'
    BY SMTT(60) DEF OpenOf, ObjOf, ReadyOf, Active, Claims
  <1> QED
    BY Zenon, <1>1, <1>2, <1>3 DEF ObjInv

\* record_send_reqs drops a request that is not sent.
LEMMA ObjDrop ==
    ASSUME ObjTypes, ObjInv, NEW t \in Transfer, RecordDrop(t)
    PROVE  ObjInv'
  <1> USE SessionAssumption DEF ObjTypes, ObjInv, RecordDrop, sessVars, Owner, Obj
  <1>1. ASSUME NEW u \in Transfer PROVE ObjOf(u)'
    BY SMTT(60) DEF ObjOf, OpenOf, ReadyOf
  <1>2. ASSUME NEW o \in Obj PROVE ReadyOf(o)'
    BY SMTT(60) DEF ReadyOf, ObjOf
  <1>3. ASSUME NEW r \in Session PROVE OpenOf(r)'
    BY ZenonT(60) DEF OpenOf, ObjOf, ReadyOf, Active, Claims
  <1> QED
    BY Zenon, <1>1, <1>2, <1>3 DEF ObjInv

\* An open arrives: it takes the entry or makes one under its own name.
LEMMA ObjArrive ==
    ASSUME ObjTypes, ObjInv, NEW s \in Session, OpenArrive(s)
    PROVE  ObjInv'
  <1> USE SessionAssumption DEF ObjTypes, ObjInv, OpenArrive, sessVars, Owner, Obj
  <1>1. ASSUME NEW u \in Transfer PROVE ObjOf(u)'
    BY SMTT(60) DEF ObjOf, OpenOf, ReadyOf
  <1>2. ASSUME NEW o \in Obj PROVE ReadyOf(o)'
    BY Zenon DEF ReadyOf, ObjOf
  <1>3. ASSUME NEW r \in Session PROVE OpenOf(r)'
    <2>1. CASE r = s
      <3>1. s \notin inMap /\ s \notin ready
        BY Zenon DEF OpenOf
      <3>2. CASE cur[TransferOf[s]] = None
        BY ZenonT(60), <2>1, <3>1, <3>2 DEF OpenOf, Active, Claims
      <3>3. CASE cur[TransferOf[s]] # None
        <4>1. ObjOf(TransferOf[s]) /\ TransferOf[s] \in Transfer
          BY Zenon, SessionAssumption DEF ObjInv
        <4>2. obj'[s] = cur[TransferOf[s]] /\ cur' = cur /\ openPc'[s] = "wait"
          BY Zenon, <3>3
        <4>3. freed[TransferOf[s]] > 0 \/ freed[TransferOf[s]] = 0
          BY SMTT(60), <4>1
        <4> QED
          BY SMTT(60), <2>1, <3>1, <3>3, <4>1, <4>2, <4>3 DEF OpenOf, ObjOf, Active, Claims
      <3> QED
        BY Zenon, <3>2, <3>3
    <2>2. CASE r # s
      BY SMTT(60), <2>2 DEF OpenOf, ObjOf, ReadyOf, Active, Claims
    <2> QED
      BY Zenon, <2>1, <2>2
  <1> QED
    BY Zenon, <1>1, <1>2, <1>3 DEF ObjInv

\* An open that waited too long, or was aborted, removes the placeholder it made.
LEMMA ObjAbandon ==
    ASSUME ObjTypes, ObjInv, NEW s \in Session, OpenAbandon(s)
    PROVE  ObjInv'
  <1> USE SessionAssumption DEF ObjTypes, ObjInv, OpenAbandon, sessVars, Owner, Obj
  <1>1. ASSUME NEW u \in Transfer PROVE ObjOf(u)'
    BY SMTT(60) DEF ObjOf, OpenOf, ReadyOf
  <1>2. ASSUME NEW o \in Obj PROVE ReadyOf(o)'
    BY Zenon DEF ReadyOf, ObjOf
  <1>3. ASSUME NEW r \in Session PROVE OpenOf(r)'
    BY SMTT(60) DEF OpenOf, ObjOf, ReadyOf, Active, Claims
  <1> QED
    BY Zenon, <1>1, <1>2, <1>3 DEF ObjInv

\* An open finds its object ready and claims it.
LEMMA ObjTake ==
    ASSUME ObjTypes, ObjInv, NEW s \in Session, Take(s)
    PROVE  ObjInv'
  <1> USE SessionAssumption DEF ObjTypes, ObjInv, Take, sessVars, Owner, Obj
  <1>1. ASSUME NEW u \in Transfer PROVE ObjOf(u)'
    BY SMTT(60) DEF ObjOf, OpenOf, ReadyOf
  <1>2. ASSUME NEW o \in Obj PROVE ReadyOf(o)'
    BY Zenon DEF ReadyOf, ObjOf
  <1>3. ASSUME NEW r \in Session PROVE OpenOf(r)'
    BY SMTT(60) DEF OpenOf, ObjOf, ReadyOf, Active, Claims
  <1> QED
    BY Zenon, <1>1, <1>2, <1>3 DEF ObjInv

\* An opened session stays in the map with its claim.
LEMMA ObjEnter ==
    ASSUME ObjTypes, ObjInv, NEW s \in Session, Enter(s)
    PROVE  ObjInv'
  <1> USE SessionAssumption DEF ObjTypes, ObjInv, Enter, sessVars, Owner, Obj
  <1>1. ASSUME NEW u \in Transfer PROVE ObjOf(u)'
    BY SMTT(60) DEF ObjOf, OpenOf, ReadyOf
  <1>2. ASSUME NEW o \in Obj PROVE ReadyOf(o)'
    BY Zenon DEF ReadyOf, ObjOf
  <1>3. ASSUME NEW r \in Session PROVE OpenOf(r)'
    BY SMTT(60) DEF OpenOf, ObjOf, ReadyOf, Active, Claims
  <1> QED
    BY Zenon, <1>1, <1>2, <1>3 DEF ObjInv

\* The decode worker sends the open.
LEMMA ObjBegin ==
    ASSUME ObjTypes, ObjInv, NEW s \in Session, Begin(s)
    PROVE  ObjInv'
  <1> USE SessionAssumption DEF ObjTypes, ObjInv, Begin, sessVars, Owner, Obj
  <1>1. ASSUME NEW u \in Transfer PROVE ObjOf(u)'
    BY SMTT(60) DEF ObjOf, OpenOf, ReadyOf
  <1>2. ASSUME NEW o \in Obj PROVE ReadyOf(o)'
    BY Zenon DEF ReadyOf, ObjOf
  <1>3. ASSUME NEW r \in Session PROVE OpenOf(r)'
    BY SMTT(60) DEF OpenOf, ObjOf, ReadyOf, Active, Claims
  <1> QED
    BY Zenon, <1>1, <1>2, <1>3 DEF ObjInv


-----------------------------------------------------------------------------
\* The sets that are counted are finite.
LEMMA ClaimsFinite ==
    /\ \A o \in Obj : /\ Owner(o) \in Transfer
                      /\ IsFiniteSet(Claiming(o)) /\ Cardinality(Claiming(o)) \in Nat
    /\ \A t \in Transfer : /\ IsFiniteSet(Ended(t)) /\ Cardinality(Ended(t)) \in Nat
                           /\ IsFiniteSet(Of(t)) /\ Cardinality(Of(t)) <= NeedSend
  <1>1. \A t \in Transfer : IsFiniteSet(Of(t)) /\ Cardinality(Of(t)) <= NeedSend
    BY Zenon, TargetAssumption DEF Of
  <1>2. ASSUME NEW t \in Transfer, NEW S \in SUBSET Of(t)
        PROVE  IsFiniteSet(S) /\ Cardinality(S) \in Nat
    BY Zenon, <1>1, SetFactsHold DEF SetFacts, Countable
  <1>3. \A o \in Obj : Owner(o) \in Transfer
    BY Zenon, SessionAssumption DEF Owner, Obj
  <1>4. \A o : Claiming(o) \in SUBSET Of(Owner(o))
    BY Zenon DEF Claiming
  <1>5. \A t : Ended(t) \in SUBSET Of(t)
    BY Zenon DEF Ended
  <1> QED
    BY Zenon, <1>1, <1>2, <1>3, <1>4, <1>5

\* No session claims an object whose sending is zero.
LEMMA NoneClaims ==
    ASSUME ClaimInv, NEW o \in Obj, sending[o] = 0
    PROVE  Claiming(o) = {}
  BY Zenon, ClaimsFinite, SetFactsHold DEF ClaimInv, SetFacts, Countable

\* The session that makes sent equal to need_send is the last one.
LEMMA LastEnds ==
    ASSUME ObjTypes, ClaimInv, NEW s \in Session, ~ Over(s), obj[s] \in Obj,
           Owner(obj[s]) = TransferOf[s], sent[obj[s]] + 1 = NeedSend
    PROVE  \A r \in Session : TransferOf[r] = TransferOf[s] => r = s \/ Over(r)
  <1> DEFINE t == TransferOf[s]
             o == obj[s]
             E == Ended(t) \cup {s}
  <1>1. t \in Transfer /\ s \in Of(t) /\ s \notin Ended(t) /\ Ended(t) \subseteq Of(t)
    BY Zenon, SessionAssumption DEF Of, Ended
  <1>2. IsFiniteSet(E) /\ Cardinality(E) = Cardinality(Ended(t)) + 1
    BY Zenon, <1>1, ClaimsFinite, CardinalityAdd
  <1>3. sent[o] <= Cardinality(Ended(t)) /\ sent[o] \in Nat
    BY Zenon DEF ClaimInv, ObjTypes
  <1>4. E \in SUBSET Of(t) /\ IsFiniteSet(Of(t)) /\ Cardinality(Of(t)) <= NeedSend
    BY Zenon, <1>1, ClaimsFinite
  <1>9. Countable(Of(t))
    BY Zenon, <1>4, SetFactsHold DEF SetFacts
  <1> HIDE DEF E
  <1>5. Cardinality(E) <= Cardinality(Of(t)) /\ Cardinality(Of(t)) \in Nat
    BY Zenon, <1>4, <1>9 DEF Countable
  <1>6. Cardinality(Ended(t)) \in Nat
    BY Zenon, <1>1, ClaimsFinite
  <1>7. Cardinality(E) = Cardinality(Of(t))
    <2> HIDE DEF E, t, o
    <2> QED
      BY SMTT(60), <1>2, <1>3, <1>4, <1>5, <1>6, SessionAssumption DEF o
  <1>8. E = Of(t)
    BY Zenon, <1>4, <1>7, <1>9 DEF Countable
  <1> QED
    BY Zenon, <1>8 DEF E, Of, Ended

-----------------------------------------------------------------------------
\* What is known of a session that claims its object or is about to.
LEMMA ActiveFacts ==
    ASSUME ObjTypes, ObjInv, NEW s \in Session, Active(s)
    PROVE  /\ TransferOf[s] \in Transfer /\ obj[s] \in Obj /\ obj[s] # None
           /\ Owner(obj[s]) = TransferOf[s] /\ cur[TransferOf[s]] = obj[s]
           /\ freed[TransferOf[s]] = 0 /\ obj[s] \in ready /\ ~ Over(s)
  <1>1. OpenOf(s)
    BY Zenon DEF ObjInv
  <1>2. TransferOf[s] \in Transfer
    BY Zenon, SessionAssumption
  <1>3. ~ Over(s)
    BY ZenonT(60), <1>1 DEF OpenOf, Active, Claims, Over
  <1> QED
    BY ZenonT(60), <1>1, <1>2, <1>3, SessionAssumption DEF ObjTypes, OpenOf, Active, Claims

\* The sweep frees an object nobody claims.
LEMMA ObjSweep ==
    ASSUME ObjTypes, ObjInv, ClaimInv, NEW t \in Transfer, Sweep(t)
    PROVE  ObjInv'
  <1> USE SessionAssumption DEF ObjTypes, ObjInv, Sweep, Expires, sessVars, Owner, Obj
  <1>0. \A r \in Session : Active(r) => TransferOf[r] # t
    <2> SUFFICES ASSUME NEW r \in Session, Active(r), TransferOf[r] = t PROVE FALSE
      OBVIOUS
    <2>1. /\ obj[r] \in Obj /\ obj[r] = cur[t] /\ Owner(obj[r]) = t
      BY Zenon, ActiveFacts
    <2>2. Claiming(obj[r]) = {}
      BY Zenon, <2>1, NoneClaims
    <2>3. Claims(r)
      BY Zenon, <2>1 DEF Active
    <2>4. r \in Claiming(obj[r])
      BY Zenon, <2>1, <2>3 DEF Claiming, Of
    <2> QED
      BY Zenon, <2>2, <2>4
  <1>1. ASSUME NEW u \in Transfer PROVE ObjOf(u)'
    BY SMTT(60) DEF ObjOf, OpenOf, ReadyOf
  <1>2. ASSUME NEW o \in Obj PROVE ReadyOf(o)'
    BY Zenon DEF ReadyOf, ObjOf
  <1>3. ASSUME NEW r \in Session PROVE OpenOf(r)'
    <2>1. Active(r)' <=> Active(r)
      BY Zenon DEF Active, Claims
    <2> QED
      BY Zenon, <1>0, <2>1 DEF OpenOf
  <1> QED
    BY Zenon, <1>1, <1>2, <1>3 DEF ObjInv

\* The last of the need_send sessions frees the object, and no other does.
LEMMA ObjFinish ==
    ASSUME ObjTypes, ObjInv, ClaimInv, NEW s \in Session, Finish(s)
    PROVE  ObjInv'
  <1> USE DEF Finish, FinishSend
  <1> DEFINE t == TransferOf[s]
             last == sent[obj[s]] + 1 = NeedSend
  <1>1. /\ t \in Transfer /\ obj[s] \in Obj /\ obj[s] # None /\ Owner(obj[s]) = t
        /\ cur[t] = obj[s] /\ freed[t] = 0 /\ obj[s] \in ready /\ ~ Over(s)
    BY Zenon, ActiveFacts
  <1>2. last => \A r \in Session : TransferOf[r] = t => r = s \/ Over(r)
    BY Zenon, <1>1, LastEnds
  <1>3. last => \A r \in Session : Active(r) /\ r # s => TransferOf[r] # t
    BY Zenon, <1>2, ActiveFacts
  <1>4. /\ freed' = [freed EXCEPT ![t] = IF last THEN 1 ELSE 0]
        /\ cur' = [cur EXCEPT ![t] = IF last THEN None ELSE @]
    BY SMTT(60), <1>1 DEF ObjTypes
  <1>5. seen[t] = "announced"
    BY Zenon, <1>1 DEF ObjInv, ReadyOf
  <1>6. \A r \in Session : r # s => (Active(r)' <=> Active(r))
    BY Zenon DEF ObjTypes, Active, Claims
  <1>7. ~ Active(s)'
    BY Zenon DEF ObjTypes, Active, Claims
  <1> HIDE DEF last
  <1>8. ASSUME NEW u \in Transfer PROVE ObjOf(u)'
    <2>1. ObjOf(u) /\ u \in Transfer
      BY Zenon DEF ObjInv
    <2> QED
      BY SMTT(60), <1>1, <1>4, <1>5, <2>1, SessionAssumption DEF ObjOf, ObjTypes, Owner, Obj
  <1>9. ASSUME NEW o \in Obj PROVE ReadyOf(o)'
    BY Zenon DEF ReadyOf, ObjInv, Owner
  <1>10. ASSUME NEW r \in Session PROVE OpenOf(r)'
    <2>1. OpenOf(r)
      BY Zenon DEF ObjInv
    <2>2. CASE r = s
      BY Zenon, <1>1, <1>7, <2>1, <2>2 DEF OpenOf, ObjTypes, Owner
    <2>3. CASE r # s
      BY ZenonT(60), <1>1, <1>3, <1>4, <1>6, <2>1, <2>3, SessionAssumption DEF OpenOf, ObjTypes, Owner
    <2> QED
      BY Zenon, <2>2, <2>3
  <1> QED
    BY Zenon, <1>8, <1>9, <1>10 DEF ObjInv

-----------------------------------------------------------------------------
\* meta.sending and meta.sent count sessions.

\* The sessions of an object are finitely many.
LEMMA PartCountable ==
    ASSUME NEW o \in Obj, NEW S \in SUBSET Of(Owner(o))
    PROVE  Countable(S) /\ IsFiniteSet(S)
  <1>1. IsFiniteSet(Of(Owner(o)))
    BY Zenon, ClaimsFinite
  <1>2. IsFiniteSet(S)
    BY Zenon, <1>1, CardinalitySubset
  <1> QED
    BY Zenon, <1>2, SetFactsHold DEF SetFacts

\* More sessions of an object may have ended.
LEMMA EndedGrows ==
    ASSUME NEW o \in Obj, \A r \in Session : Over(r) => Over(r)'
    PROVE  /\ Cardinality(Ended(Owner(o))) <= Cardinality(Ended(Owner(o))')
           /\ Cardinality(Ended(Owner(o))) \in Nat /\ Cardinality(Ended(Owner(o))') \in Nat
  <1>1. PICK E : E = Ended(Owner(o))'
    OBVIOUS
  <1>2. Ended(Owner(o)) \in SUBSET E /\ E \in SUBSET Of(Owner(o))
    BY Zenon, <1>1 DEF Ended, Of, Owner
  <1>3. Countable(E) /\ Countable(Ended(Owner(o)))
    BY Zenon, <1>2, PartCountable
  <1> QED
    BY Zenon, <1>1, <1>2, <1>3 DEF Countable

\* A step that lets no session claim or end keeps the counts; more sessions may
\* have ended.
LEMMA ClaimSame ==
    ASSUME ObjTypes, ClaimInv, UNCHANGED <<sent, sending>>,
           \A r \in Session : /\ (Claims(r)' <=> Claims(r)) /\ (Over(r) => Over(r)')
                              /\ (Claims(r) => obj'[r] = obj[r])
    PROVE  ClaimInv'
  <1> SUFFICES ASSUME NEW o \in Obj
               PROVE  /\ sending[o] = Cardinality(Claiming(o)')
                      /\ sent[o] <= Cardinality(Ended(Owner(o))')
    BY Zenon DEF ClaimInv
  <1>1. Claiming(o)' = Claiming(o)
    BY Zenon DEF Claiming, Of, Owner
  <1>2. sent[o] <= Cardinality(Ended(Owner(o))) /\ sent[o] \in Nat
    BY Zenon DEF ClaimInv, ObjTypes
  <1>3. sending[o] = Cardinality(Claiming(o)')
    BY Zenon, <1>1 DEF ClaimInv
  <1>4. sent[o] <= Cardinality(Ended(Owner(o))')
    BY SMTT(60), <1>2, EndedGrows
  <1> QED
    BY Zenon, <1>3, <1>4

\* The steps that change neither counter.
LEMMA ClaimQuiet ==
    ASSUME ObjTypes, ObjInv, ClaimInv,
           \/ \E t \in Transfer :
                 RecordPublish(t) \/ RecordAnnounce(t) \/ RecordDrop(t) \/ Sweep(t)
           \/ \E s \in Session : OpenArrive(s) \/ OpenAbandon(s) \/ Enter(s) \/ Begin(s)
           \/ UNCHANGED <<seen, cur, named, ready, sent, sending, freed, openPc, obj, inMap>>
    PROVE  ClaimInv'
  <1>1. ASSUME UNCHANGED <<sent, sending, openPc, obj, inMap>> PROVE ClaimInv'
    BY ONLY ClaimInv, <1>1 DEF ClaimInv, Claiming, Claims, Ended, Over, Of, Owner
  <1>2. ASSUME NEW t \in Transfer,
               RecordPublish(t) \/ RecordAnnounce(t) \/ RecordDrop(t) \/ Sweep(t)
        PROVE  UNCHANGED <<sent, sending, openPc, obj, inMap>>
    BY Zenon, <1>2 DEF RecordPublish, RecordAnnounce, RecordDrop, Sweep, sessVars
  <1>3. ASSUME NEW s \in Session, OpenArrive(s) \/ OpenAbandon(s) \/ Enter(s) \/ Begin(s)
        PROVE  ClaimInv'
    <2>1. UNCHANGED <<sent, sending>>
      BY Zenon, <1>3 DEF OpenArrive, OpenAbandon, Enter, Begin
    <2>2. ASSUME NEW r \in Session
          PROVE  /\ (Claims(r)' <=> Claims(r)) /\ (Over(r) => Over(r)')
                 /\ (Claims(r) => obj'[r] = obj[r])
      <3>1. OpenOf(r)
        BY Zenon DEF ObjInv
      <3>2. CASE r # s
        <4>1. openPc'[r] = openPc[r] /\ (r \in inMap' <=> r \in inMap) /\ obj'[r] = obj[r]
          <5>1. /\ \E v : openPc' = [openPc EXCEPT ![s] = v]
                /\ inMap' = inMap \/ inMap' = inMap \cup {s}
                /\ obj' = obj \/ \E v : obj' = [obj EXCEPT ![s] = v]
            BY Zenon, <1>3 DEF OpenArrive, OpenAbandon, Enter, Begin, sessVars
          <5> QED
            BY Zenon, <3>2, <5>1 DEF ObjTypes
        <4> QED
          BY Zenon, <4>1 DEF Claims, Over
      <3>3. CASE r = s
        <4>1. \/ openPc[s] = "sent" /\ openPc'[s] = "wait" /\ inMap' = inMap
              \/ openPc[s] = "wait" /\ openPc'[s] = "done" /\ inMap' = inMap
              \/ openPc[s] = "xfer" /\ openPc'[s] = "done" /\ s \in inMap' /\ obj' = obj
              \/ openPc[s] = "none" /\ openPc'[s] = "sent" /\ inMap' = inMap
          <5>1. \A v : openPc' = [openPc EXCEPT ![s] = v] => openPc'[s] = v
            BY Zenon DEF ObjTypes
          <5>2. CASE OpenArrive(s)
            BY Zenon, <5>1, <5>2 DEF OpenArrive, sessVars
          <5>3. CASE OpenAbandon(s)
            BY Zenon, <5>1, <5>3 DEF OpenAbandon, sessVars
          <5>4. CASE Enter(s)
            BY Zenon, <5>1, <5>4 DEF Enter
          <5>5. CASE Begin(s)
            BY Zenon, <5>1, <5>5 DEF Begin, sessVars
          <5> QED
            BY Zenon, <1>3, <5>2, <5>3, <5>4, <5>5
        <4>2. s \in inMap => openPc[s] = "done"
          BY Zenon, <3>1, <3>3 DEF OpenOf
        <4> QED
          BY Zenon, <3>3, <4>1, <4>2 DEF Claims, Over
      <3> QED
        BY Zenon, <3>2, <3>3
    <2> QED
      BY Zenon, <2>1, <2>2, ClaimSame
  <1> QED
    BY Zenon, <1>1, <1>2, <1>3

\* A claim adds one to sending.
LEMMA ClaimTake ==
    ASSUME ObjTypes, ObjInv, ClaimInv, NEW s \in Session, Take(s)
    PROVE  ClaimInv'
  <1> USE DEF Take
  <1>1. Active(s)
    BY Zenon DEF Active
  <1>2. obj[s] \in Obj /\ Owner(obj[s]) = TransferOf[s] /\ s \notin inMap
    <2>1. OpenOf(s)
      BY Zenon DEF ObjInv
    <2> QED
      BY Zenon, <2>1, ActiveFacts, <1>1 DEF OpenOf
  <1>3. \A r \in Session : Over(r) => Over(r)'
    BY Zenon DEF ObjTypes, Over
  <1>4. \A r \in Session : Claims(r)' <=> Claims(r) \/ r = s
    BY Zenon DEF ObjTypes, Claims
  <1>5. ~ Claims(s)
    BY Zenon, <1>2 DEF Claims
  <1> SUFFICES ASSUME NEW o \in Obj
               PROVE  /\ sending'[o] = Cardinality(Claiming(o)')
                      /\ sent[o] <= Cardinality(Ended(Owner(o))')
    BY Zenon DEF ClaimInv
  <1>6. sent[o] <= Cardinality(Ended(Owner(o))) /\ sent[o] \in Nat /\ sending[o] \in Int
        /\ sending[o] = Cardinality(Claiming(o))
    BY Zenon DEF ClaimInv, ObjTypes
  <1>7. sent[o] <= Cardinality(Ended(Owner(o))')
    BY SMTT(60), <1>3, <1>6, EndedGrows
  <1>8. CASE o = obj[s]
    <2>1. Claiming(o)' = Claiming(o) \cup {s} /\ s \notin Claiming(o)
      BY Zenon, <1>2, <1>4, <1>5, <1>8 DEF Claiming, Of, Owner
    <2>2. Cardinality(Claiming(o) \cup {s}) = Cardinality(Claiming(o)) + 1
      BY Zenon, <2>1, ClaimsFinite, CardinalityAdd
    <2>3. sending'[o] = sending[o] + 1
      BY Zenon, <1>8 DEF ObjTypes
    <2> QED
      BY Zenon, <1>6, <1>7, <2>1, <2>2, <2>3
  <1>9. CASE o # obj[s]
    <2>1. Claiming(o)' = Claiming(o)
      BY Zenon, <1>4, <1>9 DEF Claiming, Of, Owner
    <2>2. sending'[o] = sending[o]
      BY Zenon, <1>9 DEF ObjTypes
    <2> QED
      BY Zenon, <1>6, <1>7, <2>1, <2>2
  <1> QED
    BY Zenon, <1>8, <1>9

\* A release takes one from sending and may add one to sent.
LEMMA ClaimFinish ==
    ASSUME ObjTypes, ObjInv, ClaimInv, NEW s \in Session, Finish(s)
    PROVE  ClaimInv'
  <1> USE DEF Finish, FinishSend
  <1>1. obj[s] \in Obj /\ Owner(obj[s]) = TransferOf[s] /\ ~ Over(s)
    BY Zenon, ActiveFacts
  <1>2. \A r \in Session : (Over(r) \/ r = s) <=> Over(r)'
    BY Zenon DEF ObjTypes, Over
  <1>3. \A r \in Session : Claims(r)' <=> Claims(r) /\ r # s
    BY Zenon DEF ObjTypes, Claims
  <1> SUFFICES ASSUME NEW o \in Obj
               PROVE  /\ sending'[o] = Cardinality(Claiming(o)')
                      /\ sent'[o] <= Cardinality(Ended(Owner(o))')
    BY Zenon DEF ClaimInv
  <1>6. sent[o] <= Cardinality(Ended(Owner(o))) /\ sent[o] \in Nat /\ sending[o] \in Int
        /\ sending[o] = Cardinality(Claiming(o))
    BY Zenon DEF ClaimInv, ObjTypes
  <1>8. CASE o = obj[s]
    <2>1. Ended(Owner(o))' = Ended(Owner(o)) \cup {s} /\ s \notin Ended(Owner(o))
      BY Zenon, <1>1, <1>2, <1>8 DEF Ended, Of, Owner
    <2>2. /\ Cardinality(Ended(Owner(o)) \cup {s}) = Cardinality(Ended(Owner(o))) + 1
          /\ Cardinality(Ended(Owner(o))) \in Nat
      BY Zenon, <2>1, ClaimsFinite, CardinalityAdd
    <2>3. sent'[o] = sent[o] + 1
      BY Zenon, <1>8 DEF ObjTypes
    <2>4. sent'[o] <= Cardinality(Ended(Owner(o))')
      BY SMTT(60), <1>6, <2>1, <2>2, <2>3
    <2>5. Claiming(o)' = Claiming(o) \ {s}
      BY Zenon, <1>3 DEF Claiming, Of, Owner
    <2>6. CASE Claims(s)
      <3>1. s \in Claiming(o)
        BY Zenon, <1>1, <1>8, <2>6 DEF Claiming, Of
      <3>2. Countable(Claiming(o))
        BY Zenon, ClaimsFinite, SetFactsHold DEF SetFacts
      <3>3. Cardinality(Claiming(o) \ {s}) = Cardinality(Claiming(o)) - 1
        BY Zenon, <3>1, <3>2 DEF Countable
      <3>4. sending'[o] = sending[o] - 1
        BY Zenon, <1>8, <2>6 DEF ObjTypes
      <3> QED
        BY Zenon, <1>6, <2>4, <2>5, <3>3, <3>4
    <2>7. CASE ~ Claims(s)
      <3>1. Claiming(o) \ {s} = Claiming(o)
        BY Zenon, <2>7 DEF Claiming
      <3>2. sending'[o] = sending[o]
        BY SMTT(60), <1>8, <2>7 DEF ObjTypes
      <3> QED
        BY Zenon, <1>6, <2>4, <2>5, <3>1, <3>2
    <2> QED
      BY Zenon, <2>6, <2>7
  <1>9. CASE o # obj[s]
    <2>1. Claiming(o)' = Claiming(o)
      BY Zenon, <1>3, <1>9 DEF Claiming, Of, Owner
    <2>2. sending'[o] = sending[o] /\ sent'[o] = sent[o]
      BY Zenon, <1>9 DEF ObjTypes
    <2>3. sent'[o] <= Cardinality(Ended(Owner(o))')
      BY SMTT(60), <1>2, <1>6, <2>2, EndedGrows
    <2> QED
      BY Zenon, <1>6, <2>1, <2>2, <2>3
  <1> QED
    BY Zenon, <1>8, <1>9

\* The objects and their counters under every move.
LEMMA ObjMoveInv ==
    ASSUME ObjTypes, ObjInv, ClaimInv, ObjMove
    PROVE  ObjInv' /\ ClaimInv'
  <1>1. ASSUME UNCHANGED <<seen, cur, named, ready, sent, sending, freed, openPc, obj, inMap>>
        PROVE  ObjInv'
    BY ONLY ObjInv, <1>1 DEF ObjInv, ObjOf, ReadyOf, OpenOf, Active, Claims, Owner
  <1>2. ObjInv'
    BY Zenon, <1>1, ObjPublish, ObjAnnounce, ObjDrop, ObjSweep, ObjArrive, ObjTake,
       ObjAbandon, ObjEnter, ObjFinish, ObjBegin DEF ObjMove
  <1>3. ClaimInv'
    BY Zenon, ClaimQuiet, ClaimTake, ClaimFinish DEF ObjMove
  <1> QED
    BY Zenon, <1>2, <1>3

-----------------------------------------------------------------------------
\* inflight and completed count chunks.

\* Adding an element to a finite set, or taking it off.
LEMMA CountOne ==
    ASSUME NEW S, IsFiniteSet(S), NEW x
    PROVE  /\ IsFiniteSet(S \cup {x}) /\ IsFiniteSet(S \ {x})
           /\ Cardinality(S) \in Nat
           /\ Cardinality(S \cup {x}) = IF x \in S THEN Cardinality(S) ELSE Cardinality(S) + 1
           /\ Cardinality(S \ {x}) = IF x \in S THEN Cardinality(S) - 1 ELSE Cardinality(S)
  <1>1. Countable(S)
    BY Zenon, SetFactsHold DEF SetFacts
  <1>2. CASE x \in S
    <2>1. S \cup {x} = S
      BY Zenon, <1>2
    <2> QED
      BY Zenon, <1>1, <1>2, <2>1 DEF Countable
  <1>3. CASE x \notin S
    <2>1. S \ {x} = S
      BY Zenon, <1>3
    <2> QED
      BY Zenon, <1>1, <1>3, <2>1 DEF Countable
  <1> QED
    BY Zenon, <1>2, <1>3

\* There are finitely many chunks.
LEMMA ChunksFinite ==
    ASSUME NEW S \in SUBSET Chunk
    PROVE  IsFiniteSet(S) /\ Countable(S)
  <1>1. IsFiniteSet(Chunk)
    BY Zenon, SessionAssumption, CardinalityInterval DEF Chunk
  <1>2. IsFiniteSet(S)
    BY Zenon, <1>1, CardinalitySubset
  <1> QED
    BY Zenon, <1>2, SetFactsHold DEF SetFacts

\* A session whose chunks are left alone, and that stays in the map.
LEMMA ChunkFrame ==
    ASSUME NEW r \in Session, CountOf(r), PlaceOf(r),
           \A c \in Chunk : pull'[<<r, c>>] = pull[<<r, c>>],
           inflight'[r] = inflight[r], completed'[r] = completed[r]
    PROVE  /\ CountOf(r)'
           /\ (r \in inMap => r \in inMap') => PlaceOf(r)'
  <1>1. Carried(r)' = Carried(r) /\ Behind(r)' = Behind(r)
    BY Zenon DEF Carried, Behind
  <1>2. CountOf(r)'
    BY Zenon, <1>1 DEF CountOf
  <1>3. (r \in inMap => r \in inMap') => PlaceOf(r)'
    BY Zenon DEF PlaceOf
  <1> QED
    BY Zenon, <1>2, <1>3

\* A pull in hand, and a pull past its write.
Held(a) == a \in {"wait", "job", "sending", "failed"}
Past(a) == a \in {"sending", "failed", "end"}

\* What a chunk of session s that goes from a to b does to the counts.
Counts(s, a, b) ==
    /\ Past(a) => Past(b)
    /\ inflight'[s] = inflight[s] + (IF Held(b) THEN 1 ELSE 0) - (IF Held(a) THEN 1 ELSE 0)
    /\ completed'[s] <= completed[s] + (IF Past(b) /\ ~ Past(a) THEN 1 ELSE 0)
    /\ completed'[s] \in Nat

\* The counts of a session one of whose chunks moves on.
LEMMA ChunkCounts ==
    ASSUME PullTypes, NEW s \in Session, NEW c \in Chunk, NEW b, CountOf(s),
           pull' = [pull EXCEPT ![<<s, c>>] = b],
           Counts(s, pull[<<s, c>>], b)
    PROVE  CountOf(s)'
  <1> USE DEF Counts
  <1> DEFINE x == <<s, c>>
             H == Carried(s)
             P == Behind(s)
  <1>1. x \in SC /\ \A d \in Chunk : pull'[<<s, d>>] = IF d = c THEN b ELSE pull[<<s, d>>]
    BY Zenon DEF PullTypes, SC
  <1>2. /\ Carried(s)' = (IF Held(b) THEN H \cup {c} ELSE H \ {c})
        /\ Behind(s)' = (IF Past(b) THEN P \cup {c} ELSE P \ {c})
    BY Zenon, <1>1 DEF Carried, Behind, Held, Past
  <1>3. (c \in H <=> Held(pull[x])) /\ (c \in P <=> Past(pull[x]))
    BY Zenon DEF Carried, Behind, Held, Past
  <1>4. IsFiniteSet(H) /\ IsFiniteSet(P)
    <2>1. H \in SUBSET Chunk /\ P \in SUBSET Chunk
      BY Zenon DEF Carried, Behind
    <2> QED
      BY Zenon, <2>1, ChunksFinite
  <1> HIDE DEF H, P, x
  <1>5. /\ Cardinality(H) \in Nat
        /\ Cardinality(H \cup {c}) = IF c \in H THEN Cardinality(H) ELSE Cardinality(H) + 1
        /\ Cardinality(H \ {c}) = IF c \in H THEN Cardinality(H) - 1 ELSE Cardinality(H)
    BY Zenon, <1>4, CountOne
  <1>6. /\ Cardinality(P) \in Nat
        /\ Cardinality(P \cup {c}) = IF c \in P THEN Cardinality(P) ELSE Cardinality(P) + 1
        /\ Cardinality(P \ {c}) = IF c \in P THEN Cardinality(P) - 1 ELSE Cardinality(P)
    BY Zenon, <1>4, CountOne
  <1>7. inflight[s] = Cardinality(H) /\ completed[s] <= Cardinality(P) /\ completed[s] \in Nat
    BY Zenon DEF CountOf, H, P, PullTypes
  <1>8. inflight'[s] = Cardinality(Carried(s)')
    <2>1. CASE Held(b)
      BY SMTT(60), <1>2, <1>3, <1>5, <1>7, <2>1 DEF x
    <2>2. CASE ~ Held(b)
      BY SMTT(60), <1>2, <1>3, <1>5, <1>7, <2>2 DEF x
    <2> QED
      BY Zenon, <2>1, <2>2
  <1>9. completed'[s] <= Cardinality(Behind(s)')
    <2>1. CASE Past(b)
      BY SMTT(60), <1>2, <1>3, <1>6, <1>7, <2>1 DEF x
    <2>2. CASE ~ Past(b)
      BY SMTT(60), <1>2, <1>3, <1>6, <1>7, <2>2 DEF x
    <2> QED
      BY Zenon, <2>1, <2>2
  <1> QED
    BY Zenon, <1>8, <1>9 DEF CountOf

-----------------------------------------------------------------------------
\* The steps that touch the chunks of a session.

\* A session without operations has no chunk that waits or is written.
LEMMA NoneCarried ==
    ASSUME NEW s \in Session, CountOf(s), inflight[s] = 0
    PROVE  \A c \in Chunk : ~ Held(pull[<<s, c>>])
  <1>1. Carried(s) \in SUBSET Chunk
    BY Zenon DEF Carried
  <1>2. Carried(s) = {}
    BY Zenon, <1>1, ChunksFinite DEF Countable, CountOf
  <1> QED
    BY Zenon, <1>2 DEF Carried, Held

\* So has one whose only operation is that of chunk c.
LEMMA OneCarried ==
    ASSUME NEW s \in Session, CountOf(s), inflight[s] = 1, NEW c \in Chunk,
           Held(pull[<<s, c>>])
    PROVE  \A d \in Chunk : d # c => ~ Held(pull[<<s, d>>])
  <1>1. Carried(s) \in SUBSET Chunk /\ c \in Carried(s)
    BY Zenon DEF Carried, Held
  <1>2. Cardinality(Carried(s) \ {c}) = 0
    <2>1. Cardinality(Carried(s) \ {c}) = Cardinality(Carried(s)) - 1
      <3>1. Countable(Carried(s))
        BY Zenon, <1>1, ChunksFinite
      <3> QED
        BY Zenon, <1>1, <3>1 DEF Countable
    <2> QED
      BY SMTT(60), <2>1 DEF CountOf
  <1>3. Carried(s) \ {c} \in SUBSET Chunk
    BY Zenon, <1>1
  <1>4. Carried(s) \ {c} = {}
    BY <1>2, <1>3, ChunksFinite DEF Countable
  <1> QED
    BY Zenon, <1>4 DEF Carried, Held

\* When all but chunk c are behind, no other chunk waits or is written.
LEMMA LastChunk ==
    ASSUME PullTypes, NEW s \in Session, CountOf(s), PlaceOf(s), NEW c \in Chunk,
           pull[<<s, c>>] = "job", completed[s] + 1 = TotalChunks[s]
    PROVE  \A d \in Chunk : d # c => pull[<<s, d>>] \notin {"wait", "job"}
  <1> DEFINE T == 0 .. (TotalChunks[s] - 1)
             E == Behind(s) \cup {c}
  <1>1. TotalChunks[s] \in Nat /\ c \in T /\ T \subseteq Chunk
    BY SMTT(60), SessionAssumption DEF PlaceOf, Chunk
  <1>2. \A d \in Chunk : pull[<<s, d>>] # "none" => d \in T
    BY SMTT(60), <1>1 DEF PlaceOf, Chunk
  <1>3. Behind(s) \in SUBSET Chunk /\ E \in SUBSET T /\ c \notin Behind(s)
    BY Zenon, <1>1, <1>2 DEF Behind
  <1>4. Cardinality(E) = Cardinality(Behind(s)) + 1 /\ Cardinality(Behind(s)) \in Nat
    BY Zenon, <1>3, ChunksFinite DEF Countable
  <1>5. IsFiniteSet(T) /\ Cardinality(T) = TotalChunks[s]
    BY Zenon, <1>1, CardinalityInterval
  <1> HIDE DEF E, T
  <1>6. Cardinality(E) <= Cardinality(T) /\ (Cardinality(E) = Cardinality(T) => E = T)
    BY Zenon, <1>3, <1>5, CardinalitySubset
  <1>7. completed[s] <= Cardinality(Behind(s)) /\ completed[s] \in Nat
    BY Zenon DEF CountOf, PullTypes
  <1>8. E = T
    BY SMTT(60), <1>1, <1>4, <1>5, <1>6, <1>7
  <1> QED
    BY Zenon, <1>2, <1>8 DEF E, Behind

\* EndSession takes the session off the map, or nothing.
LEMMA EndMap ==
    ASSUME NEW s, NEW b, EndSession(s, b)
    PROVE  inMap' = inMap \/ (b /\ inMap' = inMap \ {s})
  BY Zenon DEF EndSession

\* The sessions a step on session s leaves alone.
LEMMA ChunkOthers ==
    ASSUME ChunkInv, NEW s \in Session, CountOf(s)', PlaceOf(s)',
           \A r \in Session : r # s =>
              /\ \A c \in Chunk : pull'[<<r, c>>] = pull[<<r, c>>]
              /\ inflight'[r] = inflight[r] /\ completed'[r] = completed[r]
              /\ r \in inMap => r \in inMap'
    PROVE  ChunkInv'
  <1>1. ASSUME NEW r \in Session, r # s PROVE CountOf(r)' /\ PlaceOf(r)'
    BY Zenon, <1>1, ChunkFrame DEF ChunkInv
  <1> QED
    BY Zenon, <1>1 DEF ChunkInv

\* The steps that do not touch the chunks.
LEMMA ChunkQuiet ==
    ASSUME ChunkInv, UNCHANGED <<pull, inflight, completed>>, inMap \subseteq inMap'
    PROVE  ChunkInv'
  <1>1. ASSUME NEW r \in Session PROVE CountOf(r)' /\ PlaceOf(r)'
    BY Zenon, ChunkFrame DEF ChunkInv
  <1> QED
    BY Zenon, <1>1 DEF ChunkInv

\* The steps that only end a session without operations.
LEMMA ChunkAbort ==
    ASSUME PullTypes, ChunkInv, NEW s \in Session, UNCHANGED <<pull, inflight, completed>>,
           inMap' = inMap \/ (inflight[s] = 0 /\ inMap' = inMap \ {s})
    PROVE  ChunkInv'
  <1>1. CASE inMap' = inMap
    BY Zenon, <1>1, ChunkQuiet
  <1>2. CASE inflight[s] = 0 /\ inMap' = inMap \ {s}
    <2>1. CountOf(s)'
      BY Zenon, ChunkFrame DEF ChunkInv
    <2>2. PlaceOf(s)'
      BY Zenon, <1>2, NoneCarried DEF ChunkInv, PlaceOf, Held
    <2> QED
      BY Zenon, <1>2, <2>1, <2>2, ChunkOthers
  <1> QED
    BY Zenon, <1>1, <1>2

\* A step on chunk c of session s.
LEMMA ChunkStep ==
    ASSUME PullTypes, PullTypes', ChunkInv, NEW s \in Session, NEW c \in Chunk, NEW b,
           CountOf(s)', pull' = [pull EXCEPT ![<<s, c>>] = b],
           \A r \in Session : r # s => inflight'[r] = inflight[r] /\ completed'[r] = completed[r],
           b # "none" => c < TotalChunks[s],
           inMap' = inMap \/ inMap' = inMap \ {s},
           b \in {"wait", "job"} => s \in inMap',
           s \notin inMap' => \A d \in Chunk : d # c => pull[<<s, d>>] \notin {"wait", "job"}
    PROVE  ChunkInv'
  <1>1. \A r \in Session, d \in Chunk :
           pull'[<<r, d>>] = IF r = s /\ d = c THEN b ELSE pull[<<r, d>>]
    BY Zenon DEF PullTypes, SC
  <1>2. PlaceOf(s)'
    BY SMTT(60), <1>1 DEF ChunkInv, PlaceOf
  <1>3. ASSUME NEW r \in Session, r # s
        PROVE  /\ \A d \in Chunk : pull'[<<r, d>>] = pull[<<r, d>>]
               /\ inflight'[r] = inflight[r] /\ completed'[r] = completed[r]
               /\ r \in inMap => r \in inMap'
    BY ZenonT(60), <1>1, <1>3
  <1> QED
    BY Zenon, <1>2, <1>3, ChunkOthers

\* issue_all sends a pull.
LEMMA ChunkIssue ==
    ASSUME PullTypes, PullTypes', ChunkInv, LeaseInv, NEW s \in Session, NEW c \in Chunk,
           NEW k, IssueChunk(s, c, k)
    PROVE  ChunkInv'
  <1> USE DEF IssueChunk, sessVars
  <1>1. pull[<<s, c>>] = "none"
    BY Zenon DEF LeaseInv, PaceOf, SC
  <1>2. Counts(s, "none", "sent")
    BY SMTT(60) DEF Counts, PullTypes, Held, Past
  <1>3. CountOf(s)'
    BY Zenon, <1>1, <1>2, ChunkCounts DEF ChunkInv
  <1>4. /\ pull' = [pull EXCEPT ![<<s, c>>] = "sent"] /\ c < TotalChunks[s]
        /\ UNCHANGED <<inflight, completed, inMap>>
    BY Zenon
  <1>5. s \notin inMap' => \A d \in Chunk : pull[<<s, d>>] \notin {"wait", "job"}
    BY Zenon, <1>4 DEF ChunkInv, PlaceOf
  <1> QED
    BY Zenon, <1>3, <1>4, <1>5, ChunkStep

\* A pull arrives at the prefill worker: counted, or refused.
LEMMA ChunkArrive ==
    ASSUME PullTypes, PullTypes', ChunkInv, NEW s \in Session, NEW c \in Chunk, PullArrive(s, c)
    PROVE  ChunkInv'
  <1> USE DEF PullArrive
  <1>0. CountOf(s) /\ PlaceOf(s) /\ c < TotalChunks[s]
    BY Zenon DEF ChunkInv, PlaceOf
  <1>1. inMap' = inMap \/ (state[s] = "CANCELLED" /\ inflight[s] = 0 /\ inMap' = inMap \ {s})
    BY Zenon, EndMap
  <1>2. CASE s \in inMap /\ state[s] = "ACTIVE"
    <2>1. /\ pull' = [pull EXCEPT ![<<s, c>>] = "wait"]
          /\ inflight' = [inflight EXCEPT ![s] = @ + 1] /\ completed' = completed
          /\ inMap' = inMap
      BY Zenon, <1>1, <1>2
    <2>2. inflight'[s] = inflight[s] + 1 - 0
          /\ \A r \in Session : r # s => inflight'[r] = inflight[r]
      BY SMTT(60), <2>1 DEF PullTypes
    <2>4. Counts(s, "sent", "wait")
      BY SMTT(60), <2>1, <2>2 DEF Counts, PullTypes, Held, Past
    <2>3. CountOf(s)'
      BY Zenon, <1>0, <2>1, <2>4, ChunkCounts
    <2> QED
      BY Zenon, <1>0, <1>2, <2>1, <2>2, <2>3, ChunkStep
  <1>3. CASE ~ (s \in inMap /\ state[s] = "ACTIVE")
    <2>1. /\ pull' = [pull EXCEPT ![<<s, c>>] = "end"]
          /\ UNCHANGED <<inflight, completed>>
      BY Zenon, <1>3
    <2>2. Counts(s, "sent", "end")
      BY SMTT(60), <2>1 DEF Counts, PullTypes, Held, Past
    <2>3. CountOf(s)'
      BY Zenon, <1>0, <2>1, <2>2, ChunkCounts
    <2>4. s \notin inMap' => \A d \in Chunk : pull[<<s, d>>] \notin {"wait", "job"}
      BY Zenon, <1>0, <1>1, NoneCarried DEF PlaceOf, Held
    <2> QED
      BY Zenon, <1>0, <1>1, <2>1, <2>3, <2>4, ChunkStep
  <1> QED
    BY Zenon, <1>2, <1>3

\* A pull gets its staging slot, or its encoding fails.
LEMMA ChunkSlot ==
    ASSUME PullTypes, PullTypes', ChunkInv, NEW s \in Session, NEW c \in Chunk,
           (\E k : PullSlot(s, c, k)) \/ PullFailed(s, c)
    PROVE  ChunkInv'
  <1>0. CountOf(s) /\ PlaceOf(s)
    BY Zenon DEF ChunkInv
  <1>1. PICK b \in {"failed", "job"} : pull' = [pull EXCEPT ![<<s, c>>] = b]
    BY Zenon DEF PullSlot, PullFailed
  <1>2. UNCHANGED <<inflight, completed, inMap>> /\ pull[<<s, c>>] \in {"wait", "job"}
    BY Zenon DEF PullSlot, PullFailed, sessVars
  <1>5. Counts(s, pull[<<s, c>>], b)
    BY SMTT(60), <1>2 DEF Counts, PullTypes, Held, Past
  <1>3. CountOf(s)'
    BY Zenon, <1>0, <1>1, <1>5, ChunkCounts
  <1>4. s \in inMap' /\ c < TotalChunks[s]
    BY Zenon, <1>0, <1>2 DEF PlaceOf
  <1> QED
    BY Zenon, <1>1, <1>2, <1>3, <1>4, ChunkStep

\* A chunk is written; the last one completes the session.
LEMMA ChunkDone ==
    ASSUME PullTypes, PullTypes', ChunkInv, NEW s \in Session, NEW c \in Chunk, NEW ok,
           PullDone(s, c, ok)
    PROVE  ChunkInv'
  <1> USE DEF PullDone
  <1>0. CountOf(s) /\ PlaceOf(s) /\ c < TotalChunks[s] /\ s \in inMap
    BY Zenon DEF ChunkInv, PlaceOf
  <1>1. inMap' = inMap \/ (completed[s] + 1 = TotalChunks[s] /\ inMap' = inMap \ {s})
    BY Zenon, EndMap
  <1>2. /\ pull' = [pull EXCEPT ![<<s, c>>] = "sending"] /\ inflight' = inflight
        /\ completed'[s] = completed[s] + 1
        /\ \A r \in Session : r # s => completed'[r] = completed[r]
    BY Zenon DEF PullTypes
  <1>5. Counts(s, "job", "sending")
    BY SMTT(60), <1>2 DEF Counts, PullTypes, Held, Past
  <1>3. CountOf(s)'
    BY Zenon, <1>0, <1>2, <1>5, ChunkCounts
  <1>4. s \notin inMap' => \A d \in Chunk : d # c => pull[<<s, d>>] \notin {"wait", "job"}
    BY Zenon, <1>0, <1>1, LastChunk
  <1> QED
    BY Zenon, <1>0, <1>1, <1>2, <1>3, <1>4, ChunkStep

\* A pull is answered; the last one of a cancelled session ends it.
LEMMA ChunkEnd ==
    ASSUME PullTypes, PullTypes', ChunkInv, NEW s \in Session, NEW c \in Chunk, PullEnd(s, c)
    PROVE  ChunkInv'
  <1> USE DEF PullEnd, Uncounted
  <1>0. CountOf(s) /\ PlaceOf(s) /\ c < TotalChunks[s]
    BY Zenon DEF ChunkInv, PlaceOf
  <1>1. inMap' = inMap \/ (inflight[s] = 1 /\ inMap' = inMap \ {s})
    BY Zenon, EndMap
  <1>2. /\ pull' = [pull EXCEPT ![<<s, c>>] = "end"] /\ completed' = completed
        /\ inflight'[s] = inflight[s] - 1
        /\ \A r \in Session : r # s => inflight'[r] = inflight[r]
    BY Zenon DEF PullTypes
  <1>5. Counts(s, pull[<<s, c>>], "end")
    BY SMTT(60), <1>2 DEF Counts, PullTypes, Held, Past
  <1>3. CountOf(s)'
    BY Zenon, <1>0, <1>2, <1>5, ChunkCounts
  <1>4. s \notin inMap' => \A d \in Chunk : d # c => pull[<<s, d>>] \notin {"wait", "job"}
    BY Zenon, <1>0, <1>1, OneCarried DEF PlaceOf, Held
  <1> QED
    BY Zenon, <1>0, <1>1, <1>2, <1>3, <1>4, ChunkStep

-----------------------------------------------------------------------------
\* The types.  One lemma per action; most variables of an action are unchanged.

\* Assigning one entry of a function.
LEMMA ExceptType ==
    ASSUME NEW A, NEW B, NEW f \in [A -> B], NEW a, NEW v, a \in A => v \in B
    PROVE  [f EXCEPT ![a] = v] \in [A -> B]
  <1>1. [f EXCEPT ![a] = v] = [x \in A |-> IF x = a THEN v ELSE f[x]]
    BY Zenon
  <1>2. \A x \in A : (IF x = a THEN v ELSE f[x]) \in B
    BY Zenon
  <1> QED
    BY Zenon, <1>1, <1>2

\* What FinishSend, EndSession and FinishReceive assign.
LEMMA FinishSendTypes ==
    ASSUME ObjTypes, NEW s \in Session, NEW d \in Int, FinishSend(s, d)
    PROVE  /\ sending' \in [Obj -> Int] /\ sent' \in [Obj -> Nat]
           /\ freed' \in [Transfer -> Nat] /\ cur' \in [Transfer -> Obj \cup {None}]
  <1> DEFINE o == obj[s]
             t == TransferOf[s]
             last == sent[o] + 1 = NeedSend /\ cur[t] # None
  <1>1. /\ sending' = [sending EXCEPT ![o] = sending[o] + d]
        /\ sent' = [sent EXCEPT ![o] = sent[o] + 1]
        /\ freed' = [freed EXCEPT ![t] = freed[t] + IF last THEN 1 ELSE 0]
        /\ cur' = [cur EXCEPT ![t] = IF last THEN None ELSE cur[t]]
    BY Zenon DEF FinishSend
  <1>2. t \in Transfer
    BY Zenon, SessionAssumption
  <1> HIDE DEF o, t, last
  <1>3. /\ o \in Obj => sending[o] + d \in Int
        /\ o \in Obj => sent[o] + 1 \in Nat
        /\ freed[t] + (IF last THEN 1 ELSE 0) \in Nat
        /\ (IF last THEN None ELSE cur[t]) \in Obj \cup {None}
    BY SMTT(60), <1>2 DEF ObjTypes
  <1>4. sending' \in [Obj -> Int] /\ sent' \in [Obj -> Nat]
    BY <1>1, <1>3, ExceptType DEF ObjTypes
  <1>5. freed' \in [Transfer -> Nat] /\ cur' \in [Transfer -> Obj \cup {None}]
    BY <1>1, <1>3, ExceptType DEF ObjTypes
  <1> QED
    BY Zenon, <1>4, <1>5

\* EndSession assigns what FinishSend does, and the map.
LEMMA EndSessionTypes ==
    ASSUME ObjTypes, NEW s \in Session, NEW b, EndSession(s, b)
    PROVE  /\ sending' \in [Obj -> Int] /\ sent' \in [Obj -> Nat]
           /\ freed' \in [Transfer -> Nat] /\ cur' \in [Transfer -> Obj \cup {None}]
           /\ inMap' \subseteq Session
  <1>1. CASE b /\ s \in inMap
    <2>1. -1 \in Int /\ inMap' = inMap \ {s} /\ FinishSend(s, -1)
      BY SMTT(60), <1>1 DEF EndSession
    <2> QED
      BY Zenon, <2>1, FinishSendTypes DEF ObjTypes
  <1>2. CASE ~ (b /\ s \in inMap)
    BY Zenon, <1>2 DEF EndSession, ObjTypes
  <1> QED
    BY Zenon, <1>1, <1>2

\* FinishReceive assigns the reports.
LEMMA FinishReceiveTypes ==
    ASSUME ReportTypes, NEW s \in Session, NEW bad, FinishReceive(s, bad)
    PROVE  ReportTypes'
  <1> DEFINE q == PullOf[s]
             one == IF Reports(s, bad) THEN 1 ELSE 0
             two == IF Reports(s, bad) /\ q \in FailedBlocks(s, bad) THEN 1 ELSE 0
  <1>5. /\ count' = [count EXCEPT ![q] = count[q] - 1]
        /\ fin' = [fin EXCEPT ![q] = fin[q] + one]
        /\ inv' = [inv EXCEPT ![q] = inv[q] + two]
    BY Zenon DEF FinishReceive
  <1>6. q \in Pull
    BY Zenon, SessionAssumption
  <1>7. one \in {0, 1} /\ two \in {0, 1}
    BY Zenon
  <1> HIDE DEF q, one, two
  <1>8. count[q] - 1 \in Int /\ fin[q] + one \in Nat /\ inv[q] + two \in Nat
    BY SMTT(60), <1>6, <1>7 DEF ReportTypes
  <1>1. count' \in [Pull -> Int]
    BY <1>5, <1>8, ExceptType DEF ReportTypes
  <1>2. failed' \subseteq Pull
    BY Zenon, SessionAssumption DEF ReportTypes, FinishReceive, FailedBlocks
  <1>3. fin' \in [Pull -> Nat]
    BY <1>5, <1>8, ExceptType DEF ReportTypes
  <1>4. inv' \in [Pull -> Nat]
    BY <1>5, <1>8, ExceptType DEF ReportTypes
  <1> QED
    BY Zenon, <1>1, <1>2, <1>3, <1>4 DEF ReportTypes

\* RecordPublish keeps the types.
LEMMA TyRecordPublish ==
    ASSUME Types, NEW t \in Transfer, RecordPublish(t)
    PROVE  Types'
  <1> USE DEF Types, RecordPublish
  <1>1. ObjTypes'
    BY Zenon DEF ObjTypes, Obj, sessVars
  <1>2. PullTypes' /\ AbortTypes' /\ LeaseTypes' /\ ReportTypes'
    BY Zenon DEF PullTypes, AbortTypes, LeaseTypes, ReportTypes, objVars, sessVars, prodVars, consVars, reported
  <1> QED
    BY Zenon, <1>1, <1>2

\* RecordAnnounce keeps the types.
LEMMA TyRecordAnnounce ==
    ASSUME Types, NEW t \in Transfer, RecordAnnounce(t)
    PROVE  Types'
  <1> USE DEF Types, RecordAnnounce
  <1>1. ObjTypes'
    BY Zenon DEF ObjTypes, Obj, sessVars
  <1>2. PullTypes' /\ AbortTypes' /\ LeaseTypes' /\ ReportTypes'
    BY Zenon DEF PullTypes, AbortTypes, LeaseTypes, ReportTypes, objVars, sessVars, prodVars, consVars, reported
  <1> QED
    BY Zenon, <1>1, <1>2

\* RecordDrop keeps the types.
LEMMA TyRecordDrop ==
    ASSUME Types, NEW t \in Transfer, RecordDrop(t)
    PROVE  Types'
  <1> USE DEF Types, RecordDrop
  <1>1. ObjTypes'
    BY Zenon DEF ObjTypes, Obj, sessVars
  <1>2. PullTypes' /\ AbortTypes' /\ LeaseTypes' /\ ReportTypes'
    BY Zenon DEF PullTypes, AbortTypes, LeaseTypes, ReportTypes, objVars, sessVars, prodVars, consVars, reported
  <1> QED
    BY Zenon, <1>1, <1>2

\* Sweep keeps the types.
LEMMA TySweep ==
    ASSUME Types, NEW t \in Transfer, Sweep(t)
    PROVE  Types'
  <1> USE DEF Types, Sweep
  <1>1. ObjTypes'
    BY SMTT(60) DEF ObjTypes, Obj, sessVars
  <1>2. PullTypes' /\ AbortTypes' /\ LeaseTypes' /\ ReportTypes'
    BY Zenon DEF PullTypes, AbortTypes, LeaseTypes, ReportTypes, objVars, sessVars, prodVars, consVars, reported
  <1> QED
    BY Zenon, <1>1, <1>2

\* OpenArrive keeps the types.
LEMMA TyOpenArrive ==
    ASSUME Types, NEW s \in Session, OpenArrive(s)
    PROVE  Types'
  <1> USE DEF Types, OpenArrive
  <1>1. ObjTypes'
    <2>1. openPc' \in [Session -> {"none", "sent", "wait", "xfer", "done"}]
      BY Zenon DEF ObjTypes
    <2>3. TransferOf[s] \in Transfer /\ s \in Obj
      BY Zenon, SessionAssumption DEF Obj
    <2>4. cur[TransferOf[s]] \in Obj \cup {None}
      BY Zenon, <2>3 DEF ObjTypes
    <2>5. (IF cur[TransferOf[s]] = None THEN s ELSE cur[TransferOf[s]]) \in Obj \cup {None}
      BY Zenon, <2>3, <2>4
    <2>2. obj' \in [Session -> Obj \cup {None}] /\ cur' \in [Transfer -> Obj \cup {None}]
      BY <2>5, ExceptType DEF ObjTypes
    <2> QED
      BY Zenon, <2>1, <2>2 DEF ObjTypes, sessVars
  <1>2. PullTypes' /\ AbortTypes' /\ LeaseTypes' /\ ReportTypes'
    BY Zenon DEF PullTypes, AbortTypes, LeaseTypes, ReportTypes, objVars, sessVars, prodVars, consVars, reported
  <1> QED
    BY Zenon, <1>1, <1>2

\* OpenReady keeps the types.
LEMMA TyOpenReady ==
    ASSUME Types, NEW s \in Session, OpenReady(s)
    PROVE  Types'
  <1> USE DEF Types, OpenReady
  <1>1. ObjTypes'
    <2>1. openPc' \in [Session -> {"none", "sent", "wait", "xfer", "done"}]
      BY Zenon DEF ObjTypes
    <2>2. /\ sending' \in [Obj -> Int] /\ sent' \in [Obj -> Nat]
          /\ freed' \in [Transfer -> Nat] /\ cur' \in [Transfer -> Obj \cup {None}]
          /\ inMap' \subseteq Session
      <3>1. CASE s \in closed
        <4>1. Taken(s) - 1 \in Int
          BY SMTT(60) DEF Taken
        <4> QED
          BY Zenon, <3>1, <4>1, FinishSendTypes DEF ObjTypes, sessVars
      <3>2. CASE ~ (s \in closed)
        BY SMTT(60), <3>2 DEF ObjTypes, sessVars
      <3> QED
        BY Zenon, <3>1, <3>2
    <2> QED
      BY Zenon, <2>1, <2>2 DEF ObjTypes, sessVars
  <1>2. AbortTypes'
    BY Zenon DEF AbortTypes, consVars
  <1>3. PullTypes' /\ LeaseTypes' /\ ReportTypes'
    BY Zenon DEF PullTypes, LeaseTypes, ReportTypes, objVars, sessVars, prodVars, consVars, reported
  <1> QED
    BY Zenon, <1>1, <1>2, <1>3

\* OpenAbandon keeps the types.
LEMMA TyOpenAbandon ==
    ASSUME Types, NEW s \in Session, OpenAbandon(s)
    PROVE  Types'
  <1> USE DEF Types, OpenAbandon
  <1>1. ObjTypes'
    <2>1. openPc' \in [Session -> {"none", "sent", "wait", "xfer", "done"}]
      BY Zenon DEF ObjTypes
    <2>3. TransferOf[s] \in Transfer
      BY Zenon, SessionAssumption
    <2>2. cur' \in [Transfer -> Obj \cup {None}]
      BY <2>3, ExceptType DEF ObjTypes
    <2> QED
      BY Zenon, <2>1, <2>2 DEF ObjTypes, sessVars
  <1>2. AbortTypes'
    BY Zenon DEF AbortTypes, consVars
  <1>3. PullTypes' /\ LeaseTypes' /\ ReportTypes'
    BY Zenon DEF PullTypes, LeaseTypes, ReportTypes, objVars, sessVars, prodVars, consVars, reported
  <1> QED
    BY Zenon, <1>1, <1>2, <1>3

\* OpenDone keeps the types.
LEMMA TyOpenDone ==
    ASSUME Types, NEW s \in Session, OpenDone(s)
    PROVE  Types'
  <1> USE DEF Types, OpenDone
  <1>1. ObjTypes'
    <2>1. openPc' \in [Session -> {"none", "sent", "wait", "xfer", "done"}]
      BY Zenon DEF ObjTypes
    <2>2. /\ sending' \in [Obj -> Int] /\ sent' \in [Obj -> Nat]
          /\ freed' \in [Transfer -> Nat] /\ cur' \in [Transfer -> Obj \cup {None}]
          /\ inMap' \subseteq Session
      <3>1. CASE TotalChunks[s] = 0
        <4>1. -1 \in Int
          BY SMTT(60) DEF Taken
        <4> QED
          BY Zenon, <3>1, <4>1, FinishSendTypes DEF ObjTypes, sessVars
      <3>2. CASE ~ (TotalChunks[s] = 0)
        BY Zenon, <3>2 DEF ObjTypes, sessVars
      <3> QED
        BY Zenon, <3>1, <3>2
    <2> QED
      BY Zenon, <2>1, <2>2 DEF ObjTypes, sessVars
  <1>2. PullTypes'
    BY Zenon DEF PullTypes
  <1>3. AbortTypes'
    BY Zenon DEF AbortTypes, consVars
  <1>4. LeaseTypes' /\ ReportTypes'
    BY Zenon DEF LeaseTypes, ReportTypes, objVars, sessVars, prodVars, consVars, reported
  <1> QED
    BY Zenon, <1>1, <1>2, <1>3, <1>4

\* OpenFailed keeps the types.
LEMMA TyOpenFailed ==
    ASSUME Types, NEW s \in Session, OpenFailed(s)
    PROVE  Types'
  <1> USE DEF Types, OpenFailed
  <1>1. ObjTypes'
    <2>1. openPc' \in [Session -> {"none", "sent", "wait", "xfer", "done"}]
      BY Zenon DEF ObjTypes
    <2>2. /\ sending' \in [Obj -> Int] /\ sent' \in [Obj -> Nat]
          /\ freed' \in [Transfer -> Nat] /\ cur' \in [Transfer -> Obj \cup {None}]
      <3>1. -1 \in Int
        BY SMTT(60)
      <3> QED
        BY Zenon, <3>1, FinishSendTypes
    <2> QED
      BY Zenon, <2>1, <2>2 DEF ObjTypes, sessVars
  <1>2. AbortTypes'
    BY Zenon DEF AbortTypes, consVars
  <1>3. PullTypes' /\ LeaseTypes' /\ ReportTypes'
    BY Zenon DEF PullTypes, LeaseTypes, ReportTypes, objVars, sessVars, prodVars, consVars, reported
  <1> QED
    BY Zenon, <1>1, <1>2, <1>3

\* AbortArrive keeps the types.
LEMMA TyAbortArrive ==
    ASSUME Types, NEW s \in Session, AbortArrive(s)
    PROVE  Types'
  <1> USE DEF Types, AbortArrive
  <1>1. ObjTypes'
    <2>1. /\ sending' \in [Obj -> Int] /\ sent' \in [Obj -> Nat]
          /\ freed' \in [Transfer -> Nat] /\ cur' \in [Transfer -> Obj \cup {None}]
          /\ inMap' \subseteq Session
      BY Zenon, EndSessionTypes
    <2> QED
      BY Zenon, <2>1 DEF ObjTypes
  <1>2. PullTypes'
    <2>1. inMap' \subseteq Session
      BY Zenon, EndSessionTypes
    <2> QED
      BY Zenon, <2>1 DEF PullTypes, sessVars
  <1>3. AbortTypes'
    <2>1. Running(s) \in SUBSET (Chunk \cup {-1})
      BY Zenon DEF Running
    <2> QED
      BY Zenon, <2>1 DEF AbortTypes, consVars
  <1>4. LeaseTypes' /\ ReportTypes'
    BY Zenon DEF LeaseTypes, ReportTypes, objVars, sessVars, prodVars, consVars, reported
  <1> QED
    BY Zenon, <1>1, <1>2, <1>3, <1>4

\* AbortDone and AbortExpired keep the types.
LEMMA TyAbortAnswer ==
    ASSUME Types, NEW s \in Session, NEW a \in {"ack", "error"}, AbortAnswer(s, a)
    PROVE  Types'
  <1> USE DEF Types, AbortAnswer
  <1>1. ObjTypes'
    <2>1. /\ sending' \in [Obj -> Int] /\ sent' \in [Obj -> Nat]
          /\ freed' \in [Transfer -> Nat] /\ cur' \in [Transfer -> Obj \cup {None}]
          /\ inMap' \subseteq Session
      BY Zenon, EndSessionTypes
    <2> QED
      BY Zenon, <2>1 DEF ObjTypes
  <1>2. PullTypes'
    <2>1. inMap' \subseteq Session
      BY Zenon, EndSessionTypes
    <2> QED
      BY Zenon, <2>1 DEF PullTypes, sessVars
  <1>3. AbortTypes'
    BY Zenon DEF AbortTypes, consVars
  <1>4. LeaseTypes' /\ ReportTypes'
    BY Zenon DEF LeaseTypes, ReportTypes, objVars, sessVars, prodVars, consVars, reported
  <1> QED
    BY Zenon, <1>1, <1>2, <1>3, <1>4

\* Start keeps the types.
LEMMA TyStart ==
    ASSUME Types, NEW s \in Session, Start(s)
    PROVE  Types'
  <1> USE DEF Types, Start
  <1>1. ObjTypes'
    BY Zenon DEF ObjTypes, objVars, sessVars
  <1>2. AbortTypes'
    BY Zenon DEF AbortTypes
  <1>3. PullTypes' /\ LeaseTypes' /\ ReportTypes'
    BY Zenon DEF PullTypes, LeaseTypes, ReportTypes, objVars, sessVars, prodVars, consVars, reported
  <1> QED
    BY Zenon, <1>1, <1>2, <1>3

\* OnOpened keeps the types.
LEMMA TyOnOpened ==
    ASSUME Types, NEW s \in Session, OnOpened(s)
    PROVE  Types'
  <1> USE DEF Types, OnOpened
  <1>1. AbortTypes'
    <2>1. dpc' \in [Session -> {"none", "open", "active", "decode", "abort", "done", "lost"}]
      <3>1. PICK v \in {"active", "done", dpc[s]} : dpc' = [dpc EXCEPT ![s] = v] \/ dpc' = dpc
        BY Zenon DEF reported
      <3> QED
        BY Zenon, <3>1 DEF AbortTypes
    <2> QED
      BY Zenon, <2>1 DEF AbortTypes, prodVars
  <1>2. ReportTypes'
    <2>1. CASE TotalChunks[s] = 0
      BY Zenon, <2>1, FinishReceiveTypes
    <2>2. CASE ~ (TotalChunks[s] = 0)
      BY Zenon, <2>2 DEF ReportTypes, reported
    <2> QED
      BY Zenon, <2>1, <2>2
  <1>3. ObjTypes' /\ PullTypes' /\ LeaseTypes'
    BY Zenon DEF ObjTypes, PullTypes, LeaseTypes, objVars, sessVars, prodVars, consVars, reported
  <1> QED
    BY Zenon, <1>1, <1>2, <1>3

\* SendAbort keeps the types.
LEMMA TySendAbort ==
    ASSUME Types, NEW s \in Session, SendAbort(s)
    PROVE  Types'
  <1> USE DEF Types, SendAbort
  <1>1. AbortTypes'
    BY Zenon DEF AbortTypes
  <1>2. LeaseTypes'
    BY Zenon DEF LeaseTypes, KeepLeases
  <1>3. ObjTypes' /\ PullTypes' /\ ReportTypes'
    BY Zenon DEF ObjTypes, PullTypes, ReportTypes, objVars, sessVars, prodVars, consVars, reported
  <1> QED
    BY Zenon, <1>1, <1>2, <1>3

\* Cleanup keeps the types.
LEMMA TyCleanup ==
    ASSUME Types, NEW s \in Session, Cleanup(s)
    PROVE  Types'
  <1> USE DEF Types, Cleanup
  <1>1. AbortTypes'
    BY Zenon DEF AbortTypes, prodVars
  <1>2. LeaseTypes'
    <2>3. Leased(s) \subseteq ReceiverSlot
      <3>1. \A d \in Chunk : rslot[<<s, d>>] \in ReceiverSlot \cup {None}
        BY Zenon DEF LeaseTypes, SC
      <3> QED
        BY Zenon, <3>1 DEF Leased
    <2>1. rfree' \subseteq ReceiverSlot
      BY Zenon, <2>3 DEF LeaseTypes
    <2>2. rslot' \in [SC -> ReceiverSlot \cup {None}]
      BY Zenon DEF LeaseTypes
    <2> QED
      BY Zenon, <2>1, <2>2 DEF LeaseTypes, prodVars
  <1>3. ReportTypes'
    BY Zenon, FinishReceiveTypes
  <1>4. ObjTypes' /\ PullTypes'
    BY Zenon DEF ObjTypes, PullTypes, objVars, sessVars, prodVars, consVars, reported
  <1> QED
    BY Zenon, <1>1, <1>2, <1>3, <1>4

\* CleanupFailed keeps the types.
LEMMA TyCleanupFailed ==
    ASSUME Types, NEW s \in Session, CleanupFailed(s)
    PROVE  Types'
  <1> USE DEF Types, CleanupFailed
  <1>1. AbortTypes'
    BY Zenon DEF AbortTypes, prodVars
  <1>2. ReportTypes'
    BY Zenon, FinishReceiveTypes
  <1>3. ObjTypes' /\ PullTypes' /\ LeaseTypes'
    BY Zenon DEF ObjTypes, PullTypes, LeaseTypes, objVars, sessVars, prodVars, consVars, reported
  <1> QED
    BY Zenon, <1>1, <1>2, <1>3

\* NoAck keeps the types.
LEMMA TyNoAck ==
    ASSUME Types, NEW s \in Session, NoAck(s)
    PROVE  Types'
  <1> USE DEF Types, NoAck
  <1>1. AbortTypes'
    BY Zenon DEF AbortTypes, prodVars
  <1>2. ObjTypes' /\ PullTypes' /\ LeaseTypes' /\ ReportTypes'
    BY Zenon DEF ObjTypes, PullTypes, LeaseTypes, ReportTypes, objVars, sessVars, prodVars, consVars, reported
  <1> QED
    BY Zenon, <1>1, <1>2

\* PullArrive keeps the types.
LEMMA TyPullArrive ==
    ASSUME Types, NEW s \in Session, NEW c \in Chunk, PullArrive(s, c)
    PROVE  Types'
  <1> USE DEF Types, PullArrive
  <1>1. ObjTypes'
    <2>1. /\ sending' \in [Obj -> Int] /\ sent' \in [Obj -> Nat]
          /\ freed' \in [Transfer -> Nat] /\ cur' \in [Transfer -> Obj \cup {None}]
          /\ inMap' \subseteq Session
      BY Zenon, EndSessionTypes
    <2> QED
      BY Zenon, <2>1 DEF ObjTypes
  <1>2. PullTypes'
    <2>1. inMap' \subseteq Session
      BY Zenon, EndSessionTypes
    <2> QED
      BY SMTT(60), <2>1 DEF PullTypes, SC
  <1>3. LeaseTypes'
    BY Zenon DEF LeaseTypes, SC, consVars
  <1>4. AbortTypes' /\ ReportTypes'
    BY Zenon DEF AbortTypes, ReportTypes, objVars, sessVars, prodVars, consVars, reported
  <1> QED
    BY Zenon, <1>1, <1>2, <1>3, <1>4

\* PullFailed keeps the types.
LEMMA TyPullFailed ==
    ASSUME Types, NEW s \in Session, NEW c \in Chunk, PullFailed(s, c)
    PROVE  Types'
  <1> USE DEF Types, PullFailed
  <1>1. PullTypes'
    BY Zenon DEF PullTypes, SC, sessVars
  <1>2. ObjTypes' /\ AbortTypes' /\ LeaseTypes' /\ ReportTypes'
    BY Zenon DEF ObjTypes, AbortTypes, LeaseTypes, ReportTypes, objVars, sessVars, prodVars, consVars, reported
  <1> QED
    BY Zenon, <1>1, <1>2

\* PullEnd keeps the types.
LEMMA TyPullEnd ==
    ASSUME Types, NEW s \in Session, NEW c \in Chunk, PullEnd(s, c)
    PROVE  Types'
  <1> USE DEF Types, PullEnd
  <1>1. ObjTypes'
    <2>1. /\ sending' \in [Obj -> Int] /\ sent' \in [Obj -> Nat]
          /\ freed' \in [Transfer -> Nat] /\ cur' \in [Transfer -> Obj \cup {None}]
          /\ inMap' \subseteq Session
      BY Zenon, EndSessionTypes
    <2> QED
      BY Zenon, <2>1 DEF ObjTypes
  <1>2. PullTypes'
    <2>1. inMap' \subseteq Session
      BY Zenon, EndSessionTypes
    <2> QED
      BY SMTT(60), <2>1 DEF PullTypes, SC, Uncounted
  <1>3. LeaseTypes'
    BY Zenon DEF LeaseTypes, SC, consVars
  <1>4. AbortTypes' /\ ReportTypes'
    BY Zenon DEF AbortTypes, ReportTypes, objVars, sessVars, prodVars, consVars, reported
  <1> QED
    BY Zenon, <1>1, <1>2, <1>3, <1>4

\* PullSlot keeps the types.
LEMMA TyPullSlot ==
    ASSUME Types, NEW s \in Session, NEW c \in Chunk, NEW k, PullSlot(s, c, k)
    PROVE  Types'
  <1> USE DEF Types, PullSlot
  <1>1. PullTypes'
    BY Zenon DEF PullTypes, SC, sessVars
  <1>2. ObjTypes' /\ AbortTypes' /\ LeaseTypes' /\ ReportTypes'
    BY Zenon DEF ObjTypes, AbortTypes, LeaseTypes, ReportTypes, objVars, sessVars, prodVars, consVars, reported
  <1> QED
    BY Zenon, <1>1, <1>2

\* PullDone keeps the types.
LEMMA TyPullDone ==
    ASSUME Types, NEW s \in Session, NEW c \in Chunk, NEW ok, PullDone(s, c, ok)
    PROVE  Types'
  <1> USE DEF Types, PullDone
  <1>1. ObjTypes'
    <2>1. /\ sending' \in [Obj -> Int] /\ sent' \in [Obj -> Nat]
          /\ freed' \in [Transfer -> Nat] /\ cur' \in [Transfer -> Obj \cup {None}]
          /\ inMap' \subseteq Session
      BY Zenon, EndSessionTypes
    <2> QED
      BY Zenon, <2>1 DEF ObjTypes
  <1>2. PullTypes'
    <2>1. inMap' \subseteq Session
      BY Zenon, EndSessionTypes
    <2> QED
      BY SMTT(60), <2>1 DEF PullTypes, SC
  <1>3. AbortTypes'
    BY Zenon DEF AbortTypes, consVars
  <1>4. LeaseTypes'
    BY Zenon DEF LeaseTypes, SC, consVars
  <1>5. ReportTypes'
    BY Zenon DEF ReportTypes, objVars, sessVars, prodVars, consVars, reported
  <1> QED
    BY Zenon, <1>1, <1>2, <1>3, <1>4, <1>5

\* IssueChunk keeps the types.
LEMMA TyIssueChunk ==
    ASSUME Types, NEW s \in Session, NEW c \in Chunk, NEW k \in ReceiverSlot, IssueChunk(s, c, k)
    PROVE  Types'
  <1> USE DEF Types, IssueChunk
  <1>1. PullTypes'
    BY Zenon DEF PullTypes, SC, sessVars
  <1>2. LeaseTypes'
    BY Zenon DEF LeaseTypes, SC
  <1>3. ObjTypes' /\ AbortTypes' /\ ReportTypes'
    BY Zenon DEF ObjTypes, AbortTypes, ReportTypes, objVars, sessVars, prodVars, consVars, reported
  <1> QED
    BY Zenon, <1>1, <1>2, <1>3

\* OnReady keeps the types.
LEMMA TyOnReady ==
    ASSUME Types, NEW s \in Session, NEW c \in Chunk, OnReady(s, c)
    PROVE  Types'
  <1> USE DEF Types, OnReady
  <1>1. AbortTypes'
    BY Zenon DEF AbortTypes, prodVars
  <1>2. LeaseTypes'
    BY Zenon DEF LeaseTypes, SC, prodVars
  <1>3. ObjTypes' /\ PullTypes' /\ ReportTypes'
    BY Zenon DEF ObjTypes, PullTypes, ReportTypes, objVars, sessVars, prodVars, consVars, reported
  <1> QED
    BY Zenon, <1>1, <1>2, <1>3

\* DecodeDone keeps the types.
LEMMA TyDecodeDone ==
    ASSUME Types, NEW s \in Session, NEW c \in Chunk, DecodeDone(s, c)
    PROVE  Types'
  <1> USE DEF Types, DecodeDone
  <1>1. AbortTypes'
    BY Zenon DEF AbortTypes, prodVars
  <1>2. LeaseTypes'
    BY Zenon DEF LeaseTypes, SC, prodVars
  <1>3. ObjTypes' /\ PullTypes' /\ ReportTypes'
    BY Zenon DEF ObjTypes, PullTypes, ReportTypes, objVars, sessVars, prodVars, consVars, reported
  <1> QED
    BY Zenon, <1>1, <1>2, <1>3

\* WritebackDone keeps the types.
LEMMA TyWritebackDone ==
    ASSUME Types, NEW s \in Session, NEW c \in Chunk, WritebackDone(s, c), LeaseInv
    PROVE  Types'
  <1> USE DEF Types, WritebackDone
  <1>1. AbortTypes'
    <2>1. dpc' \in [Session -> {"none", "open", "active", "decode", "abort", "done", "lost"}]
      <3>1. PICK v \in {"active", "done", dpc[s]} : dpc' = [dpc EXCEPT ![s] = v] \/ dpc' = dpc
        BY Zenon DEF reported
      <3> QED
        BY Zenon, <3>1 DEF AbortTypes
    <2> QED
      BY Zenon, <2>1 DEF AbortTypes, prodVars
  <1>2. LeaseTypes'
    <2>1. <<s, c>> \in SC /\ rslot[<<s, c>>] # None
      BY Zenon DEF LeaseInv, PaceOf, SC
    <2>2. rfree' \subseteq ReceiverSlot
      BY Zenon, <2>1 DEF LeaseTypes
    <2> QED
      BY SMTT(60), <2>2 DEF LeaseTypes, SC, prodVars
  <1>3. ReportTypes'
    <2>1. CASE decoded[s] + 1 = TotalChunks[s]
      BY Zenon, <2>1, FinishReceiveTypes
    <2>2. CASE ~ (decoded[s] + 1 = TotalChunks[s])
      BY Zenon, <2>2 DEF ReportTypes, reported
    <2> QED
      BY Zenon, <2>1, <2>2
  <1>4. ObjTypes' /\ PullTypes'
    BY Zenon DEF ObjTypes, PullTypes, objVars, sessVars, prodVars, consVars, reported
  <1> QED
    BY Zenon, <1>1, <1>2, <1>3, <1>4

\* WritebackFailed keeps the types.
LEMMA TyWritebackFailed ==
    ASSUME Types, NEW s \in Session, NEW c \in Chunk, WritebackFailed(s, c)
    PROVE  Types'
  <1> USE DEF Types, WritebackFailed
  <1>1. AbortTypes'
    BY Zenon DEF AbortTypes
  <1>2. LeaseTypes'
    BY Zenon DEF LeaseTypes, SC
  <1>3. ObjTypes' /\ PullTypes' /\ ReportTypes'
    BY Zenon DEF ObjTypes, PullTypes, ReportTypes, objVars, sessVars, prodVars, consVars, reported
  <1> QED
    BY Zenon, <1>1, <1>2, <1>3

-----------------------------------------------------------------------------
\* Aborts, and the end of a session.

\* What a step leaves alone of session r, or moves only towards its end.
Settled(r) ==
    /\ abortPc'[r] = abortPc[r] /\ openPc'[r] = openPc[r] /\ abortOps'[r] = abortOps[r]
    /\ dpc'[r] = dpc[r] /\ opened'[r] = opened[r]
    /\ r \in closed => r \in closed'
    /\ r \in inMap' => r \in inMap
    /\ dpc[r] = "done" => \A c \in Chunk :
          pull[<<r, c>>] \in {"none", "end"} => pull'[<<r, c>>] \in {"none", "end"}

\* What is known of the abort and the end of s.
AbortAt(s) == AbortOf(s) /\ StageOf(s) /\ StillOf(s)

\* A step that leaves session r alone.
LEMMA AbortFrame ==
    ASSUME NEW r \in Session, AbortAt(r), Settled(r)
    PROVE  AbortAt(r)'
  <1>1. AbortOf(r)'
    BY Zenon DEF AbortAt, AbortOf, Settled
  <1>2. StageOf(r)'
    BY Zenon DEF AbortAt, StageOf, Settled
  <1>3. StillOf(r)'
    BY Zenon DEF AbortAt, StillOf, Settled
  <1> QED
    BY Zenon, <1>1, <1>2, <1>3 DEF AbortAt

\* The steps of one session.
LEMMA AbortOne ==
    ASSUME AbortInv, NEW s \in Session, AbortAt(s)', \A r \in Session : r # s => Settled(r)
    PROVE  AbortInv'
  <1>1. ASSUME NEW r \in Session, r # s PROVE AbortAt(r)'
    BY Zenon, <1>1, AbortFrame DEF AbortInv, AbortAt
  <1> QED
    BY Zenon, <1>1 DEF AbortInv, AbortAt

\* A step that leaves every session alone.
LEMMA AbortNone ==
    ASSUME AbortInv, \A r \in Session : Settled(r)
    PROVE  AbortInv'
  <1>1. ASSUME NEW r \in Session PROVE AbortAt(r)'
    BY Zenon, AbortFrame DEF AbortInv, AbortAt
  <1> QED
    BY Zenon, <1>1 DEF AbortInv, AbortAt

\* The steps of a chunk
LEMMA AbortPull ==
    ASSUME AbortInv, PullTypes, AbortTypes, NEW s \in Session, NEW c \in Chunk,
           \/ PullArrive(s, c) \/ PullFailed(s, c) \/ PullEnd(s, c)
           \/ \E k : PullSlot(s, c, k)
           \/ \E ok : PullDone(s, c, ok)
           \/ \E k : IssueChunk(s, c, k)
    PROVE  AbortInv'
  <1>1. UNCHANGED <<abortPc, openPc, abortOps, dpc, opened>> /\ closed \subseteq closed'
    BY Zenon DEF PullArrive, PullFailed, PullEnd, PullSlot, PullDone, IssueChunk, consVars
  <1>2. inMap' \subseteq inMap
    BY Zenon, EndMap DEF PullArrive, PullFailed, PullEnd, PullSlot, PullDone, IssueChunk, sessVars
  <1>3. PICK b : pull' = [pull EXCEPT ![<<s, c>>] = b]
    BY Zenon DEF PullArrive, PullFailed, PullEnd, PullSlot, PullDone, IssueChunk
  <1>4. pull[<<s, c>>] \in {"none", "end"} => dpc[s] # "done"
    BY Zenon DEF PullArrive, PullFailed, PullEnd, PullSlot, PullDone, IssueChunk
  <1>5. \A r \in Session, d \in Chunk :
           pull'[<<r, d>>] = IF r = s /\ d = c THEN b ELSE pull[<<r, d>>]
    BY Zenon, <1>3 DEF PullTypes, SC
  <1>6. ASSUME NEW r \in Session PROVE Settled(r)
    BY Zenon, <1>1, <1>2, <1>4, <1>5 DEF Settled
  <1> QED
    BY Zenon, <1>6, AbortNone

\* The steps of an open
LEMMA AbortOpen ==
    ASSUME AbortInv, ObjInv, ObjTypes, AbortTypes, NEW s \in Session,
           OpenArrive(s) \/ OpenReady(s) \/ OpenAbandon(s) \/ OpenDone(s) \/ OpenFailed(s)
    PROVE  AbortInv'
  <1>1. UNCHANGED <<abortPc, abortOps, dpc, pull>> /\ closed \subseteq closed'
    BY Zenon DEF OpenArrive, OpenReady, OpenAbandon, OpenDone, OpenFailed, consVars
  <1>2. inMap' = inMap \/ (openPc[s] = "xfer" /\ inMap' = inMap \cup {s})
    BY Zenon DEF OpenArrive, OpenReady, OpenAbandon, OpenDone, OpenFailed, sessVars
  <1>3. PICK b \in {"wait", "done", "xfer"} :
            /\ openPc' = [openPc EXCEPT ![s] = b]
            /\ opened' = opened \/ (b = "done" /\ \E v \in {"ok", "error"} : opened' = [opened EXCEPT ![s] = v])
            /\ b = "xfer" => s \notin closed
    BY Zenon DEF OpenArrive, OpenReady, OpenAbandon, OpenDone, OpenFailed
  <1>4. openPc[s] \in {"sent", "wait", "xfer"}
    BY Zenon DEF OpenArrive, OpenReady, OpenAbandon, OpenDone, OpenFailed
  <1>5. openPc'[s] = b /\ (opened'[s] = opened[s] \/ b = "done")
    BY Zenon, <1>3 DEF ObjTypes, AbortTypes
  <1>6. ASSUME NEW r \in Session, r # s PROVE Settled(r)
    BY Zenon, <1>1, <1>2, <1>3, <1>6 DEF Settled, ObjTypes, AbortTypes
  <1>7. AbortAt(s)
    BY Zenon DEF AbortInv, AbortAt
  <1>8. AbortOf(s)'
    BY Zenon, <1>1, <1>2, <1>3, <1>4, <1>5, <1>7 DEF AbortAt, AbortOf
  <1>9. StageOf(s)'
    <2>1. opened[s] = "none"
      BY Zenon, <1>4, <1>7 DEF AbortAt, StageOf, AbortTypes
    <2> QED
      BY Zenon, <1>1, <1>3, <1>4, <1>5, <1>7, <2>1 DEF AbortAt, StageOf
  <1>10. StillOf(s)'
    BY Zenon, <1>1, <1>4, <1>7 DEF AbortAt, StillOf
  <1> QED
    BY Zenon, <1>6, <1>8, <1>9, <1>10, AbortOne DEF AbortAt

\* The prefill worker drains the operations of s and acknowledges.
LEMMA AbortServe ==
    ASSUME AbortInv, ObjTypes, AbortTypes, NEW s \in Session,
           AbortArrive(s) \/ AbortDone(s) \/ AbortExpired(s)
    PROVE  AbortInv'
  <1>1. UNCHANGED <<openPc, dpc, opened, pull>> /\ closed \subseteq closed'
    BY Zenon DEF AbortArrive, AbortDone, AbortExpired, AbortAnswer, consVars
  <1>2. inMap' \subseteq inMap
    BY Zenon, EndMap DEF AbortArrive, AbortDone, AbortExpired, AbortAnswer
  <1>3. ASSUME NEW r \in Session, r # s PROVE Settled(r)
    <2>1. \E v : abortPc' = [abortPc EXCEPT ![s] = v]
      BY Zenon DEF AbortArrive, AbortDone, AbortExpired, AbortAnswer
    <2>2. abortOps' = abortOps \/ \E v : abortOps' = [abortOps EXCEPT ![s] = v]
      BY Zenon DEF AbortArrive, AbortDone, AbortExpired, AbortAnswer
    <2>3. abortPc'[r] = abortPc[r] /\ abortOps'[r] = abortOps[r]
      BY Zenon, <1>3, <2>1, <2>2 DEF AbortTypes
    <2> QED
      BY Zenon, <1>1, <1>2, <2>3 DEF Settled
  <1>4. AbortAt(s)
    BY Zenon DEF AbortInv, AbortAt
  <1>5. StageOf(s)'
    BY Zenon, <1>1, <1>4 DEF AbortAt, StageOf
  <1>6. CASE AbortArrive(s)
    <2>1. abortPc[s] = "sent" /\ abortPc'[s] = "drain" /\ abortOps'[s] = Running(s) /\ s \in closed'
      BY Zenon, <1>6 DEF AbortArrive, AbortTypes
    <2>2. openPc[s] = "xfer" => -1 \in Running(s)
      BY Zenon DEF Running
    <2>3. AbortOf(s)' /\ StillOf(s)'
      BY Zenon, <1>1, <1>4, <2>1, <2>2 DEF AbortAt, AbortOf, StillOf
    <2> QED
      BY Zenon, <1>3, <1>5, <2>3, AbortOne DEF AbortAt
  <1>7. CASE AbortDone(s)
    <2>1. abortPc[s] = "drain" /\ abortPc'[s] = "ack" /\ s \in closed'
      BY Zenon, <1>1, <1>4, <1>7 DEF AbortDone, AbortAnswer, AbortTypes, AbortAt, AbortOf
    <2>2. openPc[s] # "xfer"
      BY Zenon, <1>4, <1>7, <2>1 DEF AbortDone, Drained, Running, AbortAt, AbortOf
    <2>3. s \notin inMap'
      BY Zenon, <1>7 DEF AbortDone, AbortAnswer, Drained, EndSession
    <2>4. AbortOf(s)' /\ StillOf(s)'
      BY Zenon, <1>1, <2>1, <2>2, <2>3 DEF AbortOf, StillOf
    <2> QED
      BY Zenon, <1>3, <1>5, <2>4, AbortOne DEF AbortAt
  <1>8. CASE AbortExpired(s)
    <2>1. abortPc[s] = "drain" /\ abortPc'[s] = "error" /\ s \in closed'
      BY Zenon, <1>1, <1>4, <1>8 DEF AbortExpired, AbortAnswer, AbortTypes, AbortAt, AbortOf
    <2>2. AbortOf(s)' /\ StillOf(s)'
      BY Zenon, <1>1, <1>4, <2>1 DEF AbortAt, AbortOf, StillOf
    <2> QED
      BY Zenon, <1>3, <1>5, <2>2, AbortOne DEF AbortAt
  <1> QED
    BY Zenon, <1>6, <1>7, <1>8

\* When the last chunk is written back every chunk is decoded.
LEMMA AllDecoded ==
    ASSUME LeaseInv, LeaseTypes, NEW s \in Session, PlaceOf(s), NEW c \in Chunk,
           rc[<<s, c>>] = "writeback", decoded[s] + 1 = TotalChunks[s]
    PROVE  /\ \A d \in Chunk : d < TotalChunks[s] => d = c \/ rc[<<s, d>>] = "done"
           /\ \A d \in Chunk : pull[<<s, d>>] \in {"none", "end"}
  <1> DEFINE T == 0 .. (TotalChunks[s] - 1)
             E == Decoded(s) \cup {c}
  <1>0. \A d \in Chunk : <<s, d>> \in SC
    BY Zenon DEF SC
  <1>1. \A d \in Chunk : rc[<<s, d>>] # "none" => d < TotalChunks[s]
    BY Zenon, <1>0 DEF LeaseInv, PaceOf, PlaceOf
  <1>2. TotalChunks[s] \in Nat /\ \A d \in Chunk : d < TotalChunks[s] <=> d \in T
    <2> DEFINE n == TotalChunks[s]
    <2>1. n \in 0 .. MaxChunks /\ MaxChunks \in Nat
      BY Zenon, SessionAssumption
    <2> HIDE DEF n
    <2>2. n \in Nat /\ \A d \in 0 .. (MaxChunks - 1) : d < n <=> d \in 0 .. (n - 1)
      BY SMTT(60), <2>1
    <2> QED
      BY Zenon, <2>2 DEF n, Chunk
  <1>3. Decoded(s) \in SUBSET Chunk /\ E \in SUBSET T /\ c \notin Decoded(s)
    BY Zenon, <1>1, <1>2 DEF Decoded
  <1>4. Cardinality(E) = Cardinality(Decoded(s)) + 1 /\ Cardinality(Decoded(s)) \in Nat
    BY Zenon, <1>3, ChunksFinite DEF Countable
  <1>5. IsFiniteSet(T) /\ Cardinality(T) = TotalChunks[s]
    BY Zenon, <1>2, CardinalityInterval
  <1>6. decoded[s] = Cardinality(Decoded(s))
    BY Zenon DEF LeaseInv
  <1> HIDE DEF E, T
  <1>7. Cardinality(E) = Cardinality(T) => E = T
    BY Zenon, <1>3, <1>5, CardinalitySubset
  <1>8. E = T
    BY Zenon, <1>4, <1>5, <1>6, <1>7
  <1>9. \A d \in Chunk : d < TotalChunks[s] => d = c \/ rc[<<s, d>>] = "done"
    BY Zenon, <1>2, <1>8 DEF E, Decoded
  <1>10. ASSUME NEW d \in Chunk PROVE pull[<<s, d>>] \in {"none", "end"}
    BY Zenon, <1>0, <1>9 DEF LeaseInv, PaceOf, PlaceOf
  <1> QED
    BY Zenon, <1>9, <1>10

\* The steps of the decode worker
LEMMA AbortConsume ==
    ASSUME AbortInv, ObjTypes, AbortTypes, LeaseTypes, LeaseInv, ChunkInv, NEW s \in Session,
           \/ Start(s) \/ OnOpened(s) \/ SendAbort(s)
           \/ Cleanup(s) \/ CleanupFailed(s) \/ NoAck(s)
           \/ \E c \in Chunk : \/ OnReady(s, c) \/ DecodeDone(s, c)
                               \/ WritebackDone(s, c) \/ WritebackFailed(s, c)
    PROVE  AbortInv'
  <1>1. UNCHANGED <<opened, pull, inMap, closed, abortOps>>
    BY Zenon DEF Start, OnOpened, SendAbort, Cleanup, CleanupFailed, NoAck, OnReady, DecodeDone,
       WritebackDone, WritebackFailed, prodVars, sessVars
  <1>2. AbortAt(s)
    BY Zenon DEF AbortInv, AbortAt
  <1>3. ASSUME NEW r \in Session, r # s PROVE Settled(r)
    <2>1. openPc'[r] = openPc[r]
      <3>1. openPc' = openPc \/ \E v : openPc' = [openPc EXCEPT ![s] = v]
        BY Zenon DEF Start, OnOpened, SendAbort, Cleanup, CleanupFailed, NoAck, OnReady,
           DecodeDone, WritebackDone, WritebackFailed, prodVars
      <3> QED
        BY Zenon, <1>3, <3>1 DEF ObjTypes
    <2>2. abortPc'[r] = abortPc[r]
      <3>1. abortPc' = abortPc \/ \E v : abortPc' = [abortPc EXCEPT ![s] = v]
        BY Zenon DEF Start, OnOpened, SendAbort, Cleanup, CleanupFailed, NoAck, OnReady,
           DecodeDone, WritebackDone, WritebackFailed, prodVars
      <3> QED
        BY Zenon, <1>3, <3>1 DEF AbortTypes
    <2>3. dpc'[r] = dpc[r]
      <3>1. dpc' = dpc \/ \E v : dpc' = [dpc EXCEPT ![s] = v]
        BY Zenon DEF Start, OnOpened, SendAbort, Cleanup, CleanupFailed, NoAck, OnReady,
           DecodeDone, WritebackDone, WritebackFailed
      <3> QED
        BY Zenon, <1>3, <3>1 DEF AbortTypes
    <2> QED
      BY Zenon, <1>1, <2>1, <2>2, <2>3 DEF Settled
  <1>4. \/ Start(s)
        \/ dpc[s] # "none" /\ openPc'[s] = openPc[s]
    BY ZenonT(60) DEF OnOpened, SendAbort, Cleanup, CleanupFailed, NoAck,
         OnReady, DecodeDone, WritebackDone, WritebackFailed, prodVars, Failing, Silent
  <1>5. CASE Start(s)
    <2>1. dpc[s] = "none" /\ dpc'[s] = "open" /\ openPc'[s] = "sent" /\ abortPc'[s] = abortPc[s]
      BY Zenon, <1>5 DEF Start, ObjTypes, AbortTypes
    <2>2. openPc[s] = "none" /\ opened[s] = "none"
      BY Zenon, <1>2, <2>1 DEF AbortAt, StageOf
    <2>3. AbortOf(s)' /\ StageOf(s)' /\ StillOf(s)'
      BY Zenon, <1>1, <1>2, <2>1, <2>2 DEF AbortAt, AbortOf, StageOf, StillOf
    <2> QED
      BY Zenon, <1>3, <2>3, AbortOne DEF AbortAt
  <1>6. CASE dpc[s] # "none" /\ openPc'[s] = openPc[s]
    <2>1. \/ dpc'[s] \in {"abort"} /\ abortPc'[s] = "sent"
          \/ abortPc' = abortPc /\ dpc'[s] = "lost"
          \/ abortPc' = abortPc /\ dpc'[s] \in {"active", "decode"} /\ dpc[s] \in {"active", "decode"}
          \/ abortPc' = abortPc /\ dpc'[s] = "active" /\ opened[s] = "ok"
          \/ abortPc' = abortPc /\ dpc'[s] = "done" /\ abortPc[s] = "ack"
          \/ abortPc' = abortPc /\ dpc'[s] = "done" /\ openPc[s] = "done"
               /\ \A c \in Chunk : pull[<<s, c>>] \in {"none", "end"}
      <3>1. CASE OnOpened(s)
        <4>1. dpc'[s] = (IF TotalChunks[s] = 0 THEN "done" ELSE "active") /\ abortPc' = abortPc
              /\ opened[s] = "ok"
          <5>1. /\ dpc' = [dpc EXCEPT ![s] = IF TotalChunks[s] = 0 THEN "done" ELSE "active"]
                /\ abortPc' = abortPc /\ opened[s] = "ok"
            BY Zenon, <3>1 DEF OnOpened, prodVars
          <5> QED
            BY Zenon, <5>1 DEF AbortTypes
        <4>2. openPc[s] = "done"
          BY Zenon, <1>2, <4>1 DEF AbortAt, StageOf
        <4>3. TotalChunks[s] = 0 => \A c \in Chunk : pull[<<s, c>>] = "none"
          <5>1. \A c \in Chunk : ~ (c < 0)
            <6>1. MaxChunks \in Nat
              BY Zenon, SessionAssumption
            <6> QED
              BY SMTT(60), <6>1 DEF Chunk
          <5> QED
            BY Zenon, <5>1 DEF ChunkInv, PlaceOf
        <4> QED
          BY Zenon, <4>1, <4>2, <4>3
      <3>2. CASE SendAbort(s)
        BY Zenon, <3>2 DEF SendAbort, AbortTypes
      <3>3. CASE Cleanup(s) \/ CleanupFailed(s)
        <4>1. dpc' = [dpc EXCEPT ![s] = "done"] /\ abortPc' = abortPc /\ abortPc[s] = "ack"
          BY Zenon, <3>3 DEF Cleanup, CleanupFailed, Acked, prodVars
        <4> QED
          BY Zenon, <4>1 DEF AbortTypes
      <3>4. CASE NoAck(s)
        BY Zenon, <3>4 DEF NoAck, AbortTypes, prodVars
      <3>5. ASSUME NEW c \in Chunk, OnReady(s, c) \/ DecodeDone(s, c)
            PROVE  abortPc' = abortPc /\ dpc'[s] \in {"active", "decode"} /\ dpc[s] \in {"active", "decode"}
        BY Zenon, <3>5 DEF OnReady, DecodeDone, AbortTypes, prodVars
      <3>6. ASSUME NEW c \in Chunk, WritebackFailed(s, c)
            PROVE  dpc'[s] \in {"abort"} /\ abortPc'[s] = "sent"
        BY Zenon, <3>6 DEF WritebackFailed, AbortTypes
      <3>7. ASSUME NEW c \in Chunk, WritebackDone(s, c)
            PROVE  \/ abortPc' = abortPc /\ dpc'[s] = "active" /\ dpc[s] = "active"
                   \/ abortPc' = abortPc /\ dpc'[s] = "done" /\ openPc[s] = "done"
                        /\ \A d \in Chunk : pull[<<s, d>>] \in {"none", "end"}
        <4>1. /\ abortPc' = abortPc /\ dpc[s] = "active"
              /\ dpc'[s] = (IF decoded[s] + 1 = TotalChunks[s] THEN "done" ELSE "active")
          <5>1. /\ abortPc' = abortPc /\ dpc[s] = "active"
                /\ dpc' = IF decoded[s] + 1 = TotalChunks[s] THEN [dpc EXCEPT ![s] = "done"] ELSE dpc
            BY Zenon, <3>7 DEF WritebackDone, prodVars
          <5> QED
            BY Zenon, <5>1 DEF AbortTypes
        <4>2. openPc[s] = "done"
          BY Zenon, <1>2, <4>1 DEF AbortAt, StageOf
        <4>3. decoded[s] + 1 = TotalChunks[s] => \A d \in Chunk : pull[<<s, d>>] \in {"none", "end"}
          BY Zenon, <3>7, AllDecoded DEF WritebackDone, ChunkInv
        <4> QED
          BY Zenon, <4>1, <4>2, <4>3
      <3>8. ~ Start(s)
        BY Zenon, <1>6 DEF Start
      <3> QED
        BY Zenon, <3>1, <3>2, <3>3, <3>4, <3>5, <3>6, <3>7, <3>8
    <2>2. openPc[s] # "none"
      BY Zenon, <1>2, <1>6 DEF AbortAt, StageOf
    <2>3. AbortOf(s)'
      BY Zenon, <1>1, <1>2, <1>6, <2>1 DEF AbortAt, AbortOf
    <2>4. StageOf(s)'
      BY Zenon, <1>1, <1>2, <1>6, <2>1, <2>2 DEF AbortAt, StageOf
    <2>5. StillOf(s)'
      BY Zenon, <1>1, <1>6, <2>1 DEF StillOf
    <2> QED
      BY Zenon, <1>3, <2>3, <2>4, <2>5, AbortOne DEF AbortAt
  <1> QED
    BY Zenon, <1>4, <1>5, <1>6

-----------------------------------------------------------------------------
\* Leases of receive slots.

\* What a step leaves alone of chunk c of session s.
PaceFrame(s, c) == LET x == <<s, c>> IN
    /\ rc'[x] = rc[x]
    /\ pull'[x] # pull[x] => pull[x] # "none" /\ pull'[x] # "none" /\ pull[x] # "end"
    /\ answer'[x] # answer[x] => answer'[x] = "none" \/ pull'[x] = "end"
    /\ answer'[x] # answer[x] => pull[x] # "end"
    /\ dpc[s] = "done" => dpc'[s] = "done"
    /\ rslot'[x] # rslot[x] => dpc'[s] = "done"

\* A chunk that a step leaves alone.
LEMMA PaceSame ==
    ASSUME NEW s \in Session, NEW c \in Chunk, PaceOf(s, c), PaceFrame(s, c)
    PROVE  PaceOf(s, c)'
  BY Zenon DEF PaceOf, PaceFrame

\* A step that gives no slot and no chunk to anybody
LEMMA LeaseFrame ==
    ASSUME LeaseInv, SlotsOnce', UNCHANGED <<rc, decoded>>,
           \A s \in Session, c \in Chunk : PaceFrame(s, c)
    PROVE  LeaseInv'
  <1>1. \A s \in Session, c \in Chunk : PaceOf(s, c)'
    BY Zenon, PaceSame DEF LeaseInv
  <1>2. \A s \in Session : Decoded(s)' = Decoded(s)
    BY Zenon DEF Decoded
  <1> QED
    BY Zenon, <1>1, <1>2 DEF LeaseInv

\* Steps that touch only dpc, or nothing
LEMMA LeaseQuiet ==
    ASSUME LeaseInv, AbortTypes, UNCHANGED <<rc, decoded, rslot, rfree, pull, answer>>,
           \A s \in Session : dpc[s] = "done" => dpc'[s] = "done"
    PROVE  LeaseInv'
  <1>1. \A s \in Session, c \in Chunk : PaceFrame(s, c)
    BY Zenon DEF PaceFrame
  <1>2. SlotsOnce'
    BY Zenon DEF LeaseInv, SlotsOnce
  <1> QED
    BY Zenon, <1>1, <1>2, LeaseFrame

\* The prefill worker's steps on a chunk
LEMMA LeasePull ==
    ASSUME LeaseInv, PullTypes, LeaseTypes, NEW s \in Session, NEW c \in Chunk,
           \/ PullArrive(s, c) \/ PullFailed(s, c) \/ PullEnd(s, c)
           \/ \E k : PullSlot(s, c, k)
           \/ \E ok : PullDone(s, c, ok)
    PROVE  LeaseInv'
  <1>1. UNCHANGED <<rc, decoded, rslot, rfree, dpc>>
    BY Zenon DEF PullArrive, PullFailed, PullEnd, PullSlot, PullDone, consVars
  <1>2. SlotsOnce'
    BY Zenon, <1>1 DEF LeaseInv, SlotsOnce
  <1>3. PICK b \in {"wait", "end", "failed", "job", "sending"} :
            /\ pull' = [pull EXCEPT ![<<s, c>>] = b]
            /\ answer' = answer \/ (b = "end" /\ \E v : answer' = [answer EXCEPT ![<<s, c>>] = v])
    BY Zenon DEF PullArrive, PullFailed, PullEnd, PullSlot, PullDone
  <1>4. pull[<<s, c>>] \notin {"none", "end"}
    BY Zenon DEF PullArrive, PullFailed, PullEnd, PullSlot, PullDone
  <1>5. \A r \in Session, d \in Chunk :
           /\ pull'[<<r, d>>] = IF r = s /\ d = c THEN b ELSE pull[<<r, d>>]
           /\ answer'[<<r, d>>] = answer[<<r, d>>] \/ (r = s /\ d = c /\ b = "end")
    BY Zenon, <1>3 DEF PullTypes, LeaseTypes, SC
  <1>6. ASSUME NEW r \in Session, NEW d \in Chunk PROVE PaceFrame(r, d)
    <2>1. CASE r = s /\ d = c
      BY Zenon, <1>1, <1>4, <1>5, <2>1 DEF PaceFrame
    <2>2. CASE ~ (r = s /\ d = c)
      BY Zenon, <1>1, <1>5, <2>2 DEF PaceFrame
    <2> QED
      BY Zenon, <2>1, <2>2
  <1> QED
    BY Zenon, <1>1, <1>2, <1>6, LeaseFrame

\* No chunk but one gets another slot, and that one a free slot or none.
LEMMA SlotsChange ==
    ASSUME SlotsOnce, NEW x \in SC, NEW k, k = None \/ k \in rfree \ rfree',
           \A y \in SC : rslot'[y] = IF y = x THEN k ELSE rslot[y],
           rfree' \subseteq rfree \cup {rslot[x]}
    PROVE  SlotsOnce'
  <1> SUFFICES ASSUME NEW y \in SC, rslot'[y] # None
               PROVE  /\ rslot'[y] \notin rfree'
                      /\ \A z \in SC : rslot'[z] = rslot'[y] => z = y
    BY Zenon DEF SlotsOnce
  <1>1. CASE y = x
    <2>1. rslot'[y] = k /\ k \in rfree /\ k \notin rfree' /\ k # None
      BY Zenon, <1>1
    <2>2. ASSUME NEW z \in SC, rslot'[z] = k PROVE z = y
      BY Zenon, <1>1, <2>1, <2>2 DEF SlotsOnce
    <2> QED
      BY Zenon, <2>1, <2>2
  <1>2. CASE y # x
    <2>1. rslot'[y] = rslot[y] /\ rslot[y] # None
      BY Zenon, <1>2
    <2>2. rslot[y] \notin rfree /\ rslot[x] # rslot[y] /\ \A z \in SC : rslot[z] = rslot[y] => z = y
      BY Zenon, <1>2, <2>1 DEF SlotsOnce
    <2>3. k # rslot[y]
      BY Zenon, <2>1, <2>2
    <2> QED
      BY Zenon, <2>1, <2>2, <2>3
  <1> QED
    BY Zenon, <1>1, <1>2

\* What a step on chunk c of session s, which goes to b, leaves alone.
ChunkMove(s, c, b) ==
    /\ \A r \in Session, d \in Chunk : r # s \/ d # c =>
          /\ pull'[<<r, d>>] = pull[<<r, d>>] /\ answer'[<<r, d>>] = answer[<<r, d>>]
          /\ rslot'[<<r, d>>] = rslot[<<r, d>>]
    /\ \A r \in Session : dpc[r] = "done" => dpc'[r] = "done"
    /\ rc[<<s, c>>] # "done"
    /\ \/ b # "done" /\ decoded' = decoded
       \/ b = "done" /\ decoded' = [decoded EXCEPT ![s] = @ + 1]

\* Chunk c of session s goes to b and no other chunk moves.
GoesTo(s, c, b) ==
    \A r \in Session, d \in Chunk :
        rc'[<<r, d>>] = IF r = s /\ d = c THEN b ELSE rc[<<r, d>>]

\* decoded counts a chunk when it is written back.
LEMMA DecodedMove ==
    ASSUME LeaseInv, LeaseTypes, NEW s \in Session, NEW c \in Chunk, NEW b, ChunkMove(s, c, b),
           GoesTo(s, c, b)
    PROVE  \A r \in Session : decoded'[r] = Cardinality(Decoded(r)')
  <1> SUFFICES ASSUME NEW r \in Session PROVE decoded'[r] = Cardinality(Decoded(r)')
    OBVIOUS
  <1>0. decoded[r] = Cardinality(Decoded(r)) /\ decoded[r] \in Nat
    BY Zenon DEF LeaseInv, LeaseTypes
  <1>1. \A d \in Chunk : r # s => rc'[<<r, d>>] = rc[<<r, d>>]
    BY Zenon DEF GoesTo
  <1>2. \A d \in Chunk : d # c => rc'[<<r, d>>] = rc[<<r, d>>]
    BY Zenon DEF GoesTo
  <1>3. rc'[<<s, c>>] = b /\ rc[<<s, c>>] # "done"
    BY Zenon DEF ChunkMove, GoesTo
  <1>4. CASE r # s
    <2>1. Decoded(r)' = Decoded(r)
      BY Zenon, <1>1, <1>4 DEF Decoded
    <2>2. decoded'[r] = decoded[r]
      BY Zenon, <1>4 DEF LeaseTypes, ChunkMove
    <2> QED
      BY Zenon, <1>0, <2>1, <2>2
  <1>5. CASE r = s /\ b # "done"
    <2>1. ASSUME NEW d \in Chunk PROVE rc'[<<r, d>>] = "done" <=> rc[<<r, d>>] = "done"
      BY Zenon, <1>2, <1>3, <1>5
    <2>2. Decoded(r)' = Decoded(r)
      BY Zenon, <2>1 DEF Decoded
    <2>3. decoded'[r] = decoded[r]
      BY Zenon, <1>5 DEF ChunkMove
    <2> QED
      BY Zenon, <1>0, <2>2, <2>3
  <1>6. CASE r = s /\ b = "done"
    <2>1. ASSUME NEW d \in Chunk
          PROVE  rc'[<<r, d>>] = "done" <=> rc[<<r, d>>] = "done" \/ d = c
      BY Zenon, <1>2, <1>3, <1>6
    <2>2. Decoded(r)' = Decoded(r) \cup {c} /\ c \notin Decoded(r) /\ Decoded(r) \in SUBSET Chunk
      BY Zenon, <1>3, <1>6, <2>1 DEF Decoded
    <2>3. Cardinality(Decoded(r) \cup {c}) = Cardinality(Decoded(r)) + 1
      BY Zenon, <2>2, ChunksFinite DEF Countable
    <2>4. decoded'[r] = decoded[r] + 1
      BY Zenon, <1>6 DEF LeaseTypes, ChunkMove
    <2> QED
      BY Zenon, <1>0, <2>2, <2>3, <2>4
  <1> QED
    BY Zenon, <1>4, <1>5, <1>6

\* A step on one chunk, when that chunk is right after it.
LEMMA LeaseChunk ==
    ASSUME LeaseInv, LeaseTypes, NEW s \in Session, NEW c \in Chunk, NEW b,
           rc' = [rc EXCEPT ![<<s, c>>] = b], SlotsOnce', PaceOf(s, c)', ChunkMove(s, c, b)
    PROVE  LeaseInv'
  <1>1. GoesTo(s, c, b)
    <2> SUFFICES ASSUME NEW r \in Session, NEW d \in Chunk
                 PROVE  rc'[<<r, d>>] = IF r = s /\ d = c THEN b ELSE rc[<<r, d>>]
      BY Zenon DEF GoesTo
    <2>1. <<r, d>> \in SC /\ <<s, c>> \in SC
      BY Zenon DEF SC
    <2>2. rc'[<<r, d>>] = IF <<r, d>> = <<s, c>> THEN b ELSE rc[<<r, d>>]
      BY Zenon, <2>1 DEF LeaseTypes
    <2>3. <<r, d>> = <<s, c>> <=> r = s /\ d = c
      BY Zenon
    <2> QED
      BY Zenon, <2>2, <2>3
  <1>2. ASSUME NEW r \in Session, NEW d \in Chunk PROVE PaceOf(r, d)'
    <2>1. CASE r = s /\ d = c
      BY Zenon, <2>1
    <2>2. CASE r # s \/ d # c
      <3>1. rc'[<<r, d>>] = rc[<<r, d>>]
        BY Zenon, <1>1, <2>2 DEF GoesTo
      <3>2. PaceFrame(r, d)
        BY Zenon, <2>2, <3>1 DEF PaceFrame, ChunkMove
      <3> QED
        BY Zenon, <3>2, PaceSame DEF LeaseInv
    <2> QED
      BY Zenon, <2>1, <2>2
  <1>3. \A r \in Session : decoded'[r] = Cardinality(Decoded(r)')
    BY Zenon, <1>1, DecodedMove
  <1> QED
    BY Zenon, <1>2, <1>3 DEF LeaseInv

\* issue_all leases a free slot.
LEMMA LeaseIssue ==
    ASSUME LeaseInv, LeaseTypes, PullTypes, NEW s \in Session, NEW c \in Chunk,
           NEW k \in ReceiverSlot, IssueChunk(s, c, k)
    PROVE  LeaseInv'
  <1> USE DEF IssueChunk
  <1>0. <<s, c>> \in SC /\ k # None /\ k \in rfree
    BY Zenon, SessionAssumption DEF SC
  <1>1. SlotsOnce'
    <2>1. \A y \in SC : rslot'[y] = IF y = <<s, c>> THEN k ELSE rslot[y]
      BY Zenon, <1>0 DEF LeaseTypes
    <2>2. SlotsOnce /\ k \in rfree \ rfree' /\ rfree' \subseteq rfree
      BY Zenon, <1>0 DEF LeaseInv
    <2> QED
      BY Zenon, <1>0, <2>1, <2>2, SlotsChange
  <1>2. PaceOf(s, c)
    BY Zenon DEF LeaseInv
  <1>3. rc'[<<s, c>>] = "granted" /\ pull'[<<s, c>>] = "sent" /\ rslot'[<<s, c>>] = k
        /\ answer[<<s, c>>] = "none"
    BY Zenon, <1>0, <1>2 DEF LeaseTypes, PullTypes, PaceOf
  <1>4. PaceOf(s, c)'
    BY Zenon, <1>0, <1>3 DEF PaceOf
  <1>5. \A r \in Session, d \in Chunk : r # s \/ d # c =>
              /\ pull'[<<r, d>>] = pull[<<r, d>>] /\ answer'[<<r, d>>] = answer[<<r, d>>]
              /\ rslot'[<<r, d>>] = rslot[<<r, d>>]
    BY Zenon DEF LeaseTypes, PullTypes, SC
  <1>6. /\ rc' = [rc EXCEPT ![<<s, c>>] = "granted"] /\ decoded' = decoded /\ dpc' = dpc
        /\ rc[<<s, c>>] # "done"
    BY Zenon
  <1> HIDE DEF IssueChunk
  <1>7. ChunkMove(s, c, "granted")
    BY Zenon, <1>5, <1>6 DEF ChunkMove
  <1> QED
    BY Zenon, <1>1, <1>4, <1>6, <1>7, LeaseChunk

\* A chunk is read, decoded, or its writeback fails: it keeps its slot.
LEMMA LeaseDecode ==
    ASSUME LeaseInv, LeaseTypes, PullTypes, AbortTypes, NEW s \in Session, NEW c \in Chunk,
           OnReady(s, c) \/ DecodeDone(s, c) \/ WritebackFailed(s, c)
    PROVE  LeaseInv'
  <1>0. <<s, c>> \in SC /\ PaceOf(s, c)
    BY Zenon DEF SC, LeaseInv
  <1>1. UNCHANGED <<pull, rslot, rfree, decoded>>
    BY Zenon DEF OnReady, DecodeDone, WritebackFailed, prodVars
  <1>2. SlotsOnce'
    BY Zenon, <1>1 DEF LeaseInv, SlotsOnce
  <1>3. PICK b \in {"decode", "writeback", "broken"} : rc' = [rc EXCEPT ![<<s, c>>] = b]
    BY Zenon DEF OnReady, DecodeDone, WritebackFailed
  <1>4. \/ answer[<<s, c>>] = "ok" /\ answer' = [answer EXCEPT ![<<s, c>>] = "read"]
        \/ answer' = answer /\ rc[<<s, c>>] \in {"decode", "writeback"}
    BY Zenon DEF OnReady, DecodeDone, WritebackFailed
  <1>5. rc[<<s, c>>] \in {"granted", "decode", "writeback"} /\ answer'[<<s, c>>] = "read"
    BY Zenon, <1>0, <1>4 DEF LeaseTypes, PaceOf
  <1>6. dpc[s] # "done" /\ \E v : dpc' = [dpc EXCEPT ![s] = v]
    BY Zenon DEF OnReady, DecodeDone, WritebackFailed
  <1>7. rc'[<<s, c>>] = b /\ \A r \in Session : dpc[r] = "done" => dpc'[r] = "done"
    BY Zenon, <1>0, <1>3, <1>6 DEF LeaseTypes, AbortTypes
  <1>8. pull[<<s, c>>] = "end"
    BY Zenon, <1>0, <1>4 DEF PaceOf
  <1>9. PaceOf(s, c)'
    BY Zenon, <1>0, <1>1, <1>5, <1>6, <1>7, <1>8 DEF PaceOf
  <1>10. \A r \in Session, d \in Chunk : r # s \/ d # c => answer'[<<r, d>>] = answer[<<r, d>>]
    BY Zenon, <1>4 DEF LeaseTypes, SC
  <1>11. ChunkMove(s, c, b)
    BY Zenon, <1>1, <1>5, <1>7, <1>10 DEF ChunkMove
  <1> QED
    BY Zenon, <1>2, <1>3, <1>9, <1>11, LeaseChunk

\* A chunk is written back: its slot becomes free.
LEMMA LeaseWriteback ==
    ASSUME LeaseInv, LeaseTypes, PullTypes, AbortTypes, NEW s \in Session, NEW c \in Chunk,
           WritebackDone(s, c)
    PROVE  LeaseInv'
  <1> DEFINE x == <<s, c>>
  <1>0. x \in SC /\ PaceOf(s, c)
    BY Zenon DEF SC, LeaseInv
  <1>1. /\ dpc[s] = "active" /\ rc[x] = "writeback" /\ UNCHANGED <<pull, answer>>
        /\ rc' = [rc EXCEPT ![x] = "done"] /\ rfree' = rfree \cup {rslot[x]}
        /\ rslot' = [rslot EXCEPT ![x] = None] /\ decoded' = [decoded EXCEPT ![s] = @ + 1]
        /\ dpc' = dpc \/ dpc' = [dpc EXCEPT ![s] = "done"]
    BY Zenon DEF WritebackDone, prodVars
  <1>2. SlotsOnce'
    <2>1. SlotsOnce
      BY Zenon DEF LeaseInv
    <2>2. \A y \in SC : rslot'[y] = IF y = x THEN None ELSE rslot[y]
      BY Zenon, <1>0, <1>1 DEF LeaseTypes
    <2> HIDE DEF x
    <2> QED
      BY Zenon, <1>0, <1>1, <2>1, <2>2, SlotsChange
  <1>3. rc'[x] = "done" /\ \A r \in Session : dpc[r] = "done" => dpc'[r] = "done"
    BY Zenon, <1>0, <1>1 DEF LeaseTypes, AbortTypes
  <1>4. answer[x] = "read" /\ pull[x] = "end"
    BY Zenon, <1>0, <1>1 DEF PaceOf
  <1>5. PaceOf(s, c)'
    BY Zenon, <1>1, <1>3, <1>4 DEF PaceOf
  <1>6. \A r \in Session, d \in Chunk : r # s \/ d # c => rslot'[<<r, d>>] = rslot[<<r, d>>]
    BY Zenon, <1>1 DEF LeaseTypes, SC
  <1>7. ChunkMove(s, c, "done")
    BY Zenon, <1>1, <1>3, <1>6 DEF ChunkMove
  <1> QED
    BY Zenon, <1>1, <1>2, <1>5, <1>7, LeaseChunk

\* After AbortAck the slots of the session become free.
LEMMA LeaseCleanup ==
    ASSUME LeaseInv, LeaseTypes, AbortTypes, NEW s \in Session, Cleanup(s)
    PROVE  LeaseInv'
  <1>1. /\ UNCHANGED <<pull, answer, rc, decoded>> /\ dpc' = [dpc EXCEPT ![s] = "done"]
        /\ rfree' = rfree \cup Leased(s)
        /\ rslot' = [x \in SC |-> IF x[1] = s THEN None ELSE rslot[x]]
    BY Zenon DEF Cleanup, prodVars
  <1>2. \A r \in Session, d \in Chunk :
           rslot'[<<r, d>>] = IF r = s THEN None ELSE rslot[<<r, d>>]
    BY Zenon, <1>1 DEF SC
  <1>3. \A r \in Session : dpc'[r] = IF r = s THEN "done" ELSE dpc[r]
    BY Zenon, <1>1 DEF AbortTypes
  <1>4. ASSUME NEW r \in Session, NEW d \in Chunk PROVE PaceFrame(r, d)
    BY Zenon, <1>1, <1>2, <1>3 DEF PaceFrame
  <1>5. SlotsOnce'
    <2>1. \A r \in Session, d \in Chunk : r # s => rslot[<<r, d>>] \notin Leased(s)
      <3> SUFFICES ASSUME NEW r \in Session, NEW d \in Chunk, r # s, NEW e \in Chunk,
                          rslot[<<r, d>>] = rslot[<<s, e>>], rslot[<<s, e>>] # None
                   PROVE  FALSE
        BY Zenon DEF Leased
      <3>1. <<r, d>> \in SC /\ <<s, e>> \in SC
        BY Zenon DEF SC
      <3>2. <<r, d>> = <<s, e>>
        BY Zenon, <3>1 DEF LeaseInv, SlotsOnce
      <3> QED
        BY Zenon, <3>2
    <2>2. \A y \in SC : y = <<y[1], y[2]>> /\ y[1] \in Session /\ y[2] \in Chunk
      BY SMTT(60) DEF SC
    <2>3. \A y \in SC : /\ y[1] = s => rslot'[y] = None
                        /\ y[1] # s => rslot'[y] = rslot[y] /\ rslot[y] \notin Leased(s)
      BY Zenon, <1>1, <2>1, <2>2
    <2>4. ASSUME NEW y \in SC, rslot'[y] # None
          PROVE  rslot'[y] \notin rfree' /\ \A z \in SC : rslot'[z] = rslot'[y] => z = y
      <3>1. rslot'[y] = rslot[y] /\ rslot[y] \notin Leased(s)
        BY Zenon, <2>3, <2>4
      <3>2. rslot[y] \notin rfree /\ \A z \in SC : rslot[z] = rslot[y] => z = y
        BY Zenon, <2>4, <3>1 DEF LeaseInv, SlotsOnce
      <3>3. ASSUME NEW z \in SC, rslot'[z] = rslot'[y] PROVE z = y
        BY Zenon, <2>3, <2>4, <3>1, <3>2, <3>3
      <3> QED
        BY Zenon, <1>1, <3>1, <3>2, <3>3
    <2> QED
      BY Zenon, <2>4 DEF SlotsOnce
  <1> QED
    BY Zenon, <1>1, <1>4, <1>5, LeaseFrame

-----------------------------------------------------------------------------
\* Reports, and what a session has received when it ends.

\* The sessions of a pull are finitely many.
LEMMA OpenFinite ==
    ASSUME NEW q \in Pull
    PROVE  IsFiniteSet(Open(q)) /\ Countable(Open(q))
  <1>1. Open(q) \in SUBSET {s \in Session : PullOf[s] = q}
    BY Zenon DEF Open
  <1>2. IsFiniteSet(Open(q))
    BY Zenon, <1>1, TargetAssumption, CardinalitySubset
  <1> QED
    BY Zenon, <1>2, SetFactsHold DEF SetFacts

\* A step that ends no session
LEMMA ReportSame ==
    ASSUME ReportInv, UNCHANGED reported,
           \A s \in Session : dpc[s] = "done" <=> dpc'[s] = "done"
    PROVE  ReportInv'
  <1>1. ASSUME NEW q \in Pull PROVE ReportOf(q)'
    <2>1. Open(q)' = Open(q)
      BY Zenon DEF Open
    <2>2. ReportOf(q)
      BY Zenon DEF ReportInv
    <2> QED
      BY Zenon, <2>1, <2>2 DEF ReportOf, reported
  <1> QED
    BY Zenon, <1>1 DEF ReportInv

\* A session that ends is counted; the last one reports the pull
LEMMA ReportFinish ==
    ASSUME ReportInv, ReportTypes, AbortTypes, NEW s \in Session, NEW bad,
           dpc[s] # "done", dpc' = [dpc EXCEPT ![s] = "done"], FinishReceive(s, bad)
    PROVE  ReportInv'
  <1> DEFINE p == PullOf[s]
  <1>1. \A r \in Session : dpc'[r] = IF r = s THEN "done" ELSE dpc[r]
    BY Zenon DEF AbortTypes
  <1>2. p \in Pull
    BY Zenon, SessionAssumption
  <1>3. ASSUME NEW q \in Pull, q # p PROVE ReportOf(q)'
    <2>1. Open(q)' = Open(q)
      BY Zenon, <1>1, <1>3 DEF Open
    <2>2. count'[q] = count[q] /\ fin'[q] = fin[q] /\ inv'[q] = inv[q]
      BY Zenon, <1>3 DEF FinishReceive, ReportTypes
    <2>3. q \in failed' <=> q \in failed
      BY Zenon, <1>3 DEF FinishReceive, FailedBlocks
    <2>4. ReportOf(q)
      BY Zenon DEF ReportInv
    <2> QED
      BY Zenon, <2>1, <2>2, <2>3, <2>4 DEF ReportOf
  <1>4. ReportOf(p)'
    <2>0. ReportOf(p)
      BY Zenon, <1>2 DEF ReportInv
    <2>1. Open(p)' = Open(p) \ {s} /\ s \in Open(p)
      BY Zenon, <1>1 DEF Open
    <2>2. IsFiniteSet(Open(p)) /\ Countable(Open(p))
      BY Zenon, <1>2, OpenFinite
    <2>3. Cardinality(Open(p) \ {s}) = Cardinality(Open(p)) - 1
      BY Zenon, <2>1, <2>2 DEF Countable
    <2>4. count'[p] = count[p] - 1
      BY Zenon, <1>2 DEF FinishReceive, ReportTypes
    <2>5. Reports(s, bad) => Open(p) \ {s} = {}
      <3>1. Open(p) \ {s} \in SUBSET Open(p)
        BY Zenon
      <3>2. Reports(s, bad) => Cardinality(Open(p) \ {s}) = 0
        BY SMTT(60), <2>0, <2>3 DEF Reports, ReportOf
      <3>3. IsFiniteSet(Open(p) \ {s})
        BY Zenon, <2>2, <3>1, CardinalitySubset
      <3>4. Countable(Open(p) \ {s})
        BY <3>3, SetFactsHold DEF SetFacts
      <3> QED
        BY Zenon, <3>2, <3>4 DEF Countable
    <2>6. fin[p] = 0
      BY SMTT(60), <1>2, <2>0, <2>1 DEF ReportOf, ReportTypes
    <2>7. fin'[p] = (IF Reports(s, bad) THEN 1 ELSE 0) /\ inv[p] \in Nat
          /\ inv'[p] = inv[p] + (IF Reports(s, bad) /\ p \in FailedBlocks(s, bad) THEN 1 ELSE 0)
      BY SMTT(60), <1>2, <2>6 DEF FinishReceive, ReportTypes
    <2>8. failed' = FailedBlocks(s, bad)
      BY Zenon DEF FinishReceive
    <2>9. fin'[p] > 0 => Reports(s, bad)
      BY SMTT(60), <2>7
    <2>10. fin'[p] > 0 /\ p \in failed' => inv'[p] > 0
      BY SMTT(60), <2>7, <2>8, <2>9
    <2> QED
      BY Zenon, <2>0, <2>1, <2>3, <2>4, <2>5, <2>9, <2>10 DEF ReportOf
  <1> QED
    BY Zenon, <1>3, <1>4 DEF ReportInv

\* What a step does that ends session s.
EndsReceive(s) ==
    /\ dpc[s] # "done" /\ dpc' = [dpc EXCEPT ![s] = "done"]
    /\ \/ FinishReceive(s, TRUE)
       \/ /\ FinishReceive(s, FALSE)
          /\ \/ opened[s] = "ok" /\ TotalChunks[s] = 0
             \/ \E c \in Chunk :
                   /\ dpc[s] = "active" /\ rc[<<s, c>>] = "writeback"
                   /\ decoded[s] + 1 = TotalChunks[s]
                   /\ rc' = [rc EXCEPT ![<<s, c>>] = "done"]

\* Every step ends one session or leaves the reports alone.
LEMMA NextReports ==
    ASSUME AbortTypes, [Next]_vars
    PROVE  \/ \E s \in Session : EndsReceive(s)
           \/ UNCHANGED reported /\ \A s \in Session : dpc[s] = "done" <=> dpc'[s] = "done"
  <1> DEFINE Quiet == UNCHANGED reported /\ \A s \in Session : dpc[s] = "done" <=> dpc'[s] = "done"
  <1>0. (UNCHANGED reported /\ dpc' = dpc) => Quiet
    BY Zenon
  <1>1. ASSUME NEW t \in Transfer,
               RecordPublish(t) \/ RecordAnnounce(t) \/ RecordDrop(t) \/ Sweep(t)
        PROVE  UNCHANGED reported /\ dpc' = dpc
    BY Zenon, <1>1 DEF RecordPublish, RecordAnnounce, RecordDrop, Sweep, consVars, reported
  <1>2. ASSUME NEW s \in Session,
               \/ OpenArrive(s) \/ OpenReady(s) \/ OpenAbandon(s) \/ OpenDone(s)
               \/ OpenFailed(s) \/ AbortArrive(s) \/ AbortDone(s) \/ AbortExpired(s)
        PROVE  UNCHANGED reported /\ dpc' = dpc
    BY Zenon, <1>2 DEF OpenArrive, OpenReady, OpenAbandon, OpenDone, OpenFailed, AbortArrive,
       AbortDone, AbortExpired, AbortAnswer, consVars, reported
  <1>3. ASSUME NEW s \in Session, NEW c \in Chunk, NEW k,
               \/ PullArrive(s, c) \/ PullFailed(s, c) \/ PullEnd(s, c) \/ PullSlot(s, c, k)
               \/ PullDone(s, c, k) \/ IssueChunk(s, c, k)
        PROVE  UNCHANGED reported /\ dpc' = dpc
    BY Zenon, <1>3 DEF PullArrive, PullFailed, PullEnd, PullSlot, PullDone, IssueChunk, consVars,
       reported
  <1>4. ASSUME NEW s \in Session, NEW v, v # "done", dpc[s] # "done", UNCHANGED reported,
               dpc' = [dpc EXCEPT ![s] = v]
        PROVE  Quiet
    BY Zenon, <1>4 DEF AbortTypes
  <1>5. ASSUME NEW s \in Session, Start(s) \/ SendAbort(s) \/ NoAck(s) PROVE Quiet
    <2>1. \E v \in {"open", "abort", "lost"} : dpc' = [dpc EXCEPT ![s] = v]
      BY Zenon, <1>5 DEF Start, SendAbort, NoAck
    <2>2. UNCHANGED reported /\ dpc[s] # "done"
      BY Zenon, <1>5 DEF Start, SendAbort, NoAck, Failing, Silent
    <2> HIDE DEF Quiet
    <2> QED
      BY Zenon, <1>4, <2>1, <2>2
  <1>6. ASSUME NEW s \in Session, NEW c \in Chunk,
               OnReady(s, c) \/ DecodeDone(s, c) \/ WritebackFailed(s, c)
        PROVE  Quiet
    <2>1. \E v \in {"decode", "active", "abort"} : dpc' = [dpc EXCEPT ![s] = v]
      BY Zenon, <1>6 DEF OnReady, DecodeDone, WritebackFailed
    <2>2. UNCHANGED reported /\ dpc[s] # "done"
      BY Zenon, <1>6 DEF OnReady, DecodeDone, WritebackFailed
    <2> HIDE DEF Quiet
    <2> QED
      BY Zenon, <1>4, <2>1, <2>2
  <1>7. ASSUME NEW s \in Session, Cleanup(s) \/ CleanupFailed(s) PROVE EndsReceive(s)
    BY Zenon, <1>7 DEF Cleanup, CleanupFailed, EndsReceive
  <1>8. ASSUME NEW s \in Session, OnOpened(s) PROVE EndsReceive(s) \/ Quiet
    <2> HIDE DEF Quiet
    <2>1. CASE TotalChunks[s] = 0
      BY Zenon, <1>8, <2>1 DEF OnOpened, EndsReceive
    <2>2. CASE TotalChunks[s] # 0
      BY Zenon, <1>4, <1>8, <2>2 DEF OnOpened
    <2> QED
      BY Zenon, <2>1, <2>2
  <1>9. ASSUME NEW s \in Session, NEW c \in Chunk, WritebackDone(s, c)
        PROVE  EndsReceive(s) \/ Quiet
    <2>1. CASE decoded[s] + 1 = TotalChunks[s]
      BY Zenon, <1>9, <2>1 DEF WritebackDone, EndsReceive
    <2>2. CASE decoded[s] + 1 # TotalChunks[s]
      BY Zenon, <1>0, <1>9, <2>2 DEF WritebackDone
    <2> QED
      BY Zenon, <2>1, <2>2
  <1>10. ASSUME UNCHANGED vars PROVE Quiet
    BY Zenon, <1>0, <1>10 DEF vars, consVars, reported
  <1> HIDE DEF Quiet
  <1>11. Quiet \/ \E s \in Session : EndsReceive(s)
    BY Zenon, <1>0, <1>1, <1>2, <1>3, <1>5, <1>6, <1>7, <1>8, <1>9, <1>10 DEF Next
  <1> QED
    BY Zenon, <1>11 DEF Quiet

\* Every step keeps the counters and the reports of the pulls.
LEMMA NextReport ==
    ASSUME AbortTypes, ReportTypes, ReportInv, [Next]_vars
    PROVE  ReportInv'
  BY Zenon, NextReports, ReportSame, ReportFinish DEF EndsReceive

-----------------------------------------------------------------------------
\* What a step leaves alone of what session s has received.
WholeFrame(s) ==
    /\ Served \subseteq Served' /\ failed \subseteq failed'
    /\ opened[s] = "ok" => opened'[s] = "ok"
    /\ dpc[s] = "done" => \A c \in Chunk : rc'[<<s, c>>] = rc[<<s, c>>]

\* A session that had ended, and was not touched.
LEMMA WholeSame ==
    ASSUME NEW s \in Session, WholeOf(s), WholeFrame(s), dpc'[s] = "done" => dpc[s] = "done"
    PROVE  WholeOf(s)'
  BY Zenon DEF WholeOf, WholeFrame, Whole

\* Nothing that was received is taken back.
LEMMA NextKeeps ==
    ASSUME ObjTypes, AbortTypes, LeaseTypes, AbortInv, [Next]_vars
    PROVE  \A s \in Session : WholeFrame(s)
  <1>1. Served \subseteq Served' /\ failed \subseteq failed'
    <2>1. Served \subseteq Served'
      <3>1. ASSUME NEW t \in Transfer,
                   RecordPublish(t) \/ RecordAnnounce(t) \/ RecordDrop(t) \/ Sweep(t)
            PROVE  UNCHANGED <<written, unwritten>>
        BY Zenon, <3>1 DEF RecordPublish, RecordAnnounce, RecordDrop, Sweep
      <3>2. ASSUME NEW s \in Session,
                   \/ OpenArrive(s) \/ OpenReady(s) \/ OpenAbandon(s) \/ OpenDone(s)
                   \/ OpenFailed(s) \/ AbortArrive(s) \/ AbortDone(s) \/ AbortExpired(s)
                   \/ Start(s) \/ OnOpened(s) \/ SendAbort(s)
                   \/ Cleanup(s) \/ CleanupFailed(s) \/ NoAck(s)
            PROVE  UNCHANGED <<written, unwritten>>
        BY Zenon, <3>2 DEF OpenArrive, OpenReady, OpenAbandon, OpenDone, OpenFailed, AbortArrive,
           AbortDone, AbortExpired, AbortAnswer, Start, OnOpened, SendAbort, Cleanup,
           CleanupFailed, NoAck, prodVars
      <3>3. ASSUME NEW s \in Session, NEW c \in Chunk, NEW k,
                   \/ PullArrive(s, c) \/ PullFailed(s, c) \/ PullEnd(s, c) \/ PullSlot(s, c, k)
                   \/ PullDone(s, c, k) \/ IssueChunk(s, c, k) \/ OnReady(s, c) \/ DecodeDone(s, c)
                   \/ WritebackDone(s, c) \/ WritebackFailed(s, c)
            PROVE  Served \subseteq Served'
        BY Zenon, <3>3 DEF PullArrive, PullFailed, PullEnd, PullSlot, PullDone, IssueChunk,
           OnReady, DecodeDone, WritebackDone, WritebackFailed, prodVars, Served
      <3>4. CASE UNCHANGED vars
        BY Zenon, <3>4 DEF vars, prodVars, Served
      <3>5. UNCHANGED <<written, unwritten>> => Served \subseteq Served'
        BY Zenon DEF Served
      <3> QED
        BY Zenon, <3>1, <3>2, <3>3, <3>4, <3>5 DEF Next
    <2>2. failed \subseteq failed'
      BY Zenon, NextReports DEF EndsReceive, FinishReceive, FailedBlocks, reported
    <2> QED
      BY Zenon, <2>1, <2>2
  <1>2. ASSUME NEW s \in Session, opened[s] = "ok" PROVE opened'[s] = "ok"
    <2>0. openPc[s] = "done"
      BY Zenon, <1>2 DEF AbortInv, StageOf
    <2>1. ASSUME NEW r \in Session, OpenReady(r) \/ OpenAbandon(r) \/ OpenDone(r) \/ OpenFailed(r)
          PROVE  opened'[s] = "ok"
      <3>1. openPc[r] # "done"
        BY Zenon, <2>1 DEF OpenReady, OpenAbandon, OpenDone, OpenFailed
      <3>2. opened' = opened \/ \E v : opened' = [opened EXCEPT ![r] = v]
        BY Zenon, <2>1 DEF OpenReady, OpenAbandon, OpenDone, OpenFailed
      <3> QED
        BY Zenon, <1>2, <2>0, <3>1, <3>2 DEF AbortTypes
    <2>2. ASSUME NEW t \in Transfer,
                 RecordPublish(t) \/ RecordAnnounce(t) \/ RecordDrop(t) \/ Sweep(t)
          PROVE  opened' = opened
      BY Zenon, <2>2 DEF RecordPublish, RecordAnnounce, RecordDrop, Sweep
    <2>3. ASSUME NEW r \in Session,
                 \/ OpenArrive(r) \/ AbortArrive(r) \/ AbortDone(r) \/ AbortExpired(r)
                 \/ Start(r) \/ OnOpened(r) \/ SendAbort(r)
                 \/ Cleanup(r) \/ CleanupFailed(r) \/ NoAck(r)
          PROVE  opened' = opened
      BY Zenon, <2>3 DEF OpenArrive, AbortArrive, AbortDone, AbortExpired, AbortAnswer, Start, OnOpened,
         SendAbort, Cleanup, CleanupFailed, NoAck
    <2>4. ASSUME NEW r \in Session, NEW c \in Chunk, NEW k,
                 \/ PullArrive(r, c) \/ PullFailed(r, c) \/ PullEnd(r, c) \/ PullSlot(r, c, k)
                 \/ PullDone(r, c, k) \/ IssueChunk(r, c, k) \/ OnReady(r, c) \/ DecodeDone(r, c)
                 \/ WritebackDone(r, c) \/ WritebackFailed(r, c)
          PROVE  opened' = opened
      BY Zenon, <2>4 DEF PullArrive, PullFailed, PullEnd, PullSlot, PullDone, IssueChunk,
           OnReady, DecodeDone, WritebackDone, WritebackFailed
    <2>5. CASE UNCHANGED vars
      BY Zenon, <1>2, <2>5 DEF vars
    <2> QED
      BY Zenon, <1>2, <2>1, <2>2, <2>3, <2>4, <2>5 DEF Next
  <1>3. ASSUME NEW s \in Session, dpc[s] = "done", NEW c \in Chunk
        PROVE  rc'[<<s, c>>] = rc[<<s, c>>]
    <2>1. ASSUME NEW r \in Session, NEW d \in Chunk, NEW k,
                 \/ IssueChunk(r, d, k) \/ OnReady(r, d) \/ DecodeDone(r, d)
                 \/ WritebackDone(r, d) \/ WritebackFailed(r, d)
          PROVE  rc'[<<s, c>>] = rc[<<s, c>>]
      <3>1. \E v : rc' = [rc EXCEPT ![<<r, d>>] = v]
        BY Zenon, <2>1 DEF IssueChunk, OnReady, DecodeDone, WritebackDone, WritebackFailed
      <3>2. dpc[r] # "done"
        BY Zenon, <2>1 DEF IssueChunk, OnReady, DecodeDone, WritebackDone, WritebackFailed
      <3>3. <<r, d>> # <<s, c>>
        BY Zenon, <1>3, <3>2
      <3>4. <<s, c>> \in SC
        BY Zenon DEF SC
      <3> QED
        BY Zenon, <3>1, <3>3, <3>4 DEF LeaseTypes
    <2>2. ASSUME NEW t \in Transfer,
                 RecordPublish(t) \/ RecordAnnounce(t) \/ RecordDrop(t) \/ Sweep(t)
          PROVE  rc' = rc
      BY Zenon, <2>2 DEF RecordPublish, RecordAnnounce, RecordDrop, Sweep, consVars
    <2>3. ASSUME NEW r \in Session,
                 \/ OpenArrive(r) \/ OpenReady(r) \/ OpenAbandon(r) \/ OpenDone(r) \/ OpenFailed(r)
                 \/ AbortArrive(r) \/ AbortDone(r) \/ AbortExpired(r)
                 \/ Start(r) \/ OnOpened(r) \/ SendAbort(r)
                 \/ Cleanup(r) \/ CleanupFailed(r) \/ NoAck(r)
          PROVE  rc' = rc
      BY Zenon, <2>3 DEF OpenArrive, OpenReady, OpenAbandon, OpenDone, OpenFailed, AbortArrive,
         AbortDone, AbortExpired, AbortAnswer, Start, OnOpened, SendAbort, Cleanup,
         CleanupFailed, NoAck, consVars
    <2>4. ASSUME NEW r \in Session, NEW d \in Chunk, NEW k,
                 \/ PullArrive(r, d) \/ PullFailed(r, d) \/ PullEnd(r, d) \/ PullSlot(r, d, k)
                 \/ PullDone(r, d, k)
          PROVE  rc' = rc
      BY Zenon, <2>4 DEF PullArrive, PullFailed, PullEnd, PullSlot, PullDone, consVars
    <2>5. CASE UNCHANGED vars
      BY Zenon, <2>5 DEF vars, consVars
    <2> QED
      BY Zenon, <2>1, <2>2, <2>3, <2>4, <2>5 DEF Next
  <1> QED
    BY Zenon, <1>1, <1>2, <1>3 DEF WholeFrame

\* A session that ends without a failure has received every chunk.
LEMMA NextWhole ==
    ASSUME Types, LeaseInv, ChunkInv, AbortInv, WrittenInv, [Next]_vars
    PROVE  \A s \in Session : WholeOf(s)'
  <1> USE DEF Types
  <1>1. \A s \in Session : WholeFrame(s)
    BY Zenon, NextKeeps
  <1>2. ASSUME NEW s \in Session, NEW r \in Session, EndsReceive(r), r # s PROVE WholeOf(s)'
    <2>1. dpc'[s] = dpc[s]
      BY Zenon, <1>2 DEF EndsReceive, AbortTypes
    <2> QED
      BY Zenon, <1>1, <2>1, WholeSame DEF WrittenInv
  <1>3. ASSUME NEW s \in Session, EndsReceive(s), FinishReceive(s, TRUE) PROVE WholeOf(s)'
    BY Zenon, <1>3 DEF WholeOf, FinishReceive, FailedBlocks
  <1>4. ASSUME NEW s \in Session, opened[s] = "ok", TotalChunks[s] = 0 PROVE WholeOf(s)'
    <2>1. opened'[s] = "ok"
      BY Zenon, <1>1, <1>4 DEF WholeFrame
    <2>2. \A c \in Chunk : ~ (c < TotalChunks[s])
      BY SMTT(60), <1>4, SessionAssumption DEF Chunk
    <2> QED
      BY Zenon, <2>1, <2>2 DEF WholeOf, Whole
  <1>5. ASSUME NEW s \in Session, NEW c \in Chunk, dpc[s] = "active", rc[<<s, c>>] = "writeback",
               decoded[s] + 1 = TotalChunks[s], rc' = [rc EXCEPT ![<<s, c>>] = "done"]
        PROVE  WholeOf(s)'
    <2>1. opened'[s] = "ok"
      BY Zenon, <1>1, <1>5 DEF WholeFrame, AbortInv, StageOf
    <2>2. \A d \in Chunk : d < TotalChunks[s] => d = c \/ rc[<<s, d>>] = "done"
      BY Zenon, <1>5, AllDecoded DEF ChunkInv
    <2>3. ASSUME NEW d \in Chunk, d < TotalChunks[s]
          PROVE  <<s, d>> \in Served' /\ rc'[<<s, d>>] = "done"
      <3>1. rc[<<s, d>>] \in {"writeback", "done"}
        BY Zenon, <1>5, <2>2, <2>3
      <3>2. answer[<<s, d>>] = "read"
        BY Zenon, <3>1 DEF LeaseInv, PaceOf
      <3>3. <<s, d>> \in Served'
        BY Zenon, <1>1, <3>2 DEF WrittenInv, WrittenOf, WholeFrame
      <3>4. <<s, d>> \in SC /\ <<s, c>> \in SC
        BY Zenon DEF SC
      <3>5. rc'[<<s, d>>] = "done"
        <4>1. CASE d = c
          BY Zenon, <1>5, <3>4, <4>1 DEF LeaseTypes
        <4>2. CASE d # c
          <5>1. <<s, d>> # <<s, c>>
            BY Zenon, <4>2
          <5>2. rc[<<s, d>>] = "done"
            BY Zenon, <2>2, <2>3, <4>2
          <5> QED
            BY Zenon, <1>5, <3>4, <5>1, <5>2 DEF LeaseTypes
        <4> QED
          BY Zenon, <4>1, <4>2
      <3> QED
        BY Zenon, <3>3, <3>5
    <2> QED
      BY Zenon, <2>1, <2>3 DEF WholeOf, Whole
  <1>6. ASSUME NEW s \in Session, EndsReceive(s) PROVE WholeOf(s)'
    BY Zenon, <1>3, <1>4, <1>5, <1>6 DEF EndsReceive
  <1>7. ASSUME NEW s \in Session, dpc'[s] = "done" => dpc[s] = "done" PROVE WholeOf(s)'
    BY Zenon, <1>1, <1>7, WholeSame DEF WrittenInv
  <1>8. ASSUME NEW s \in Session PROVE WholeOf(s)'
    <2>1. CASE \E r \in Session : EndsReceive(r)
      BY Zenon, <1>2, <1>6, <2>1
    <2>2. CASE ~ \E r \in Session : EndsReceive(r)
      <3>1. dpc[s] = "done" <=> dpc'[s] = "done"
        BY Zenon, <2>2, NextReports
      <3> QED
        BY Zenon, <1>7, <3>1
    <2> QED
      BY Zenon, <2>1, <2>2
  <1> QED
    BY Zenon, <1>8

\* What a step of another chunk, or none, does to chunk c of session s
LEMMA WrittenSame ==
    ASSUME WrittenInv, Served \subseteq Served', UNCHANGED <<pull, answer>>
    PROVE  \A s \in Session, c \in Chunk : WrittenOf(s, c)'
  BY Zenon DEF WrittenInv, WrittenOf

\* A step on one chunk, when that chunk is right after it.
LEMMA WrittenChunk ==
    ASSUME WrittenInv, PullTypes, LeaseTypes, Served \subseteq Served',
           NEW s \in Session, NEW c \in Chunk, WrittenOf(s, c)',
           pull' = pull \/ \E b : pull' = [pull EXCEPT ![<<s, c>>] = b],
           answer' = answer \/ \E b : answer' = [answer EXCEPT ![<<s, c>>] = b]
    PROVE  \A r \in Session, d \in Chunk : WrittenOf(r, d)'
  <1> SUFFICES ASSUME NEW r \in Session, NEW d \in Chunk PROVE WrittenOf(r, d)'
    OBVIOUS
  <1>1. CASE <<r, d>> = <<s, c>>
    BY Zenon, <1>1 DEF WrittenOf
  <1>2. CASE <<r, d>> # <<s, c>>
    <2>1. <<r, d>> \in SC
      BY Zenon DEF SC
    <2>2. pull'[<<r, d>>] = pull[<<r, d>>]
      BY Zenon, <1>2, <2>1 DEF PullTypes
    <2>3. answer'[<<r, d>>] = answer[<<r, d>>]
      BY Zenon, <1>2, <2>1 DEF LeaseTypes
    <2> QED
      BY Zenon, <2>2, <2>3 DEF WrittenInv, WrittenOf
  <1> QED
    BY Zenon, <1>1, <1>2

\* The write of a chunk that is answered was made.
LEMMA NextWritten ==
    ASSUME Types, WrittenInv, LeaseInv, AbortInv, [Next]_vars
    PROVE  \A s \in Session, c \in Chunk : WrittenOf(s, c)'
  <1> USE DEF Types
  <1> DEFINE Goal == \A s \in Session, c \in Chunk : WrittenOf(s, c)'
  <1>0. Served \subseteq Served'
    <2>1. \A s \in Session : WholeFrame(s)
      BY Zenon, NextKeeps
    <2>2. CASE Session = {}
      <3>1. SC = {}
        BY Zenon, <2>2 DEF SC
      <3> QED
        BY Zenon, <3>1 DEF LeaseTypes, Served
    <2> QED
      BY Zenon, <2>1, <2>2 DEF WholeFrame
  <1>1. ASSUME UNCHANGED <<pull, answer>> PROVE Goal
    BY Zenon, <1>0, <1>1, WrittenSame
  <1>2. ASSUME NEW t \in Transfer,
               RecordPublish(t) \/ RecordAnnounce(t) \/ RecordDrop(t) \/ Sweep(t)
        PROVE  UNCHANGED <<pull, answer>>
    BY Zenon, <1>2 DEF RecordPublish, RecordAnnounce, RecordDrop, Sweep
  <1>3. ASSUME NEW s \in Session,
               \/ OpenArrive(s) \/ OpenReady(s) \/ OpenAbandon(s) \/ OpenDone(s) \/ OpenFailed(s)
               \/ AbortArrive(s) \/ AbortDone(s) \/ AbortExpired(s)
               \/ Start(s) \/ OnOpened(s) \/ SendAbort(s)
               \/ Cleanup(s) \/ CleanupFailed(s) \/ NoAck(s)
        PROVE  UNCHANGED <<pull, answer>>
    BY Zenon, <1>3 DEF OpenArrive, OpenReady, OpenAbandon, OpenDone, OpenFailed, AbortArrive,
         AbortDone, AbortExpired, AbortAnswer, Start, OnOpened, SendAbort, Cleanup,
           CleanupFailed, NoAck, prodVars
  <1>4. ASSUME NEW s \in Session, NEW c \in Chunk,
               DecodeDone(s, c) \/ WritebackDone(s, c) \/ WritebackFailed(s, c)
        PROVE  UNCHANGED <<pull, answer>>
    BY Zenon, <1>4 DEF DecodeDone, WritebackDone, WritebackFailed, prodVars
  <1>5. ASSUME NEW s \in Session, NEW c \in Chunk, NEW k,
               \/ PullArrive(s, c) \/ PullFailed(s, c) \/ PullEnd(s, c) \/ PullSlot(s, c, k)
               \/ PullDone(s, c, k) \/ IssueChunk(s, c, k) \/ OnReady(s, c)
        PROVE  Goal
    <2>0. <<s, c>> \in SC /\ WrittenOf(s, c) /\ PaceOf(s, c)
      BY Zenon DEF SC, WrittenInv, LeaseInv
    <2>1. pull' = pull \/ \E b : pull' = [pull EXCEPT ![<<s, c>>] = b]
      BY Zenon, <1>5 DEF PullArrive, PullFailed, PullEnd, PullSlot, PullDone, IssueChunk, OnReady,
         prodVars
    <2>2. answer' = answer \/ \E b : answer' = [answer EXCEPT ![<<s, c>>] = b]
      BY Zenon, <1>5 DEF PullArrive, PullFailed, PullEnd, PullSlot, PullDone, IssueChunk, OnReady
    <2>3. CASE PullArrive(s, c)
      <3>1. pull'[<<s, c>>] \in {"wait", "end"} /\ answer[<<s, c>>] = "none"
            /\ answer'[<<s, c>>] \in {"none", "error"}
        BY Zenon, <2>0, <2>3 DEF PullArrive, PullTypes, LeaseTypes, PaceOf
      <3> QED
        BY Zenon, <1>0, <2>1, <2>2, <3>1, WrittenChunk DEF WrittenOf
    <2>4. CASE PullFailed(s, c) \/ PullSlot(s, c, k) \/ IssueChunk(s, c, k)
      <3>1. \E b \in {"failed", "job", "sent"} : pull' = [pull EXCEPT ![<<s, c>>] = b]
        BY Zenon, <2>4 DEF PullFailed, PullSlot, IssueChunk
      <3>2. pull'[<<s, c>>] # "sending" /\ answer' = answer
        BY Zenon, <2>0, <2>4, <3>1 DEF PullFailed, PullSlot, IssueChunk, PullTypes
      <3>3. WrittenOf(s, c)'
        BY Zenon, <1>0, <2>0, <3>2 DEF WrittenOf
      <3> QED
        BY Zenon, <1>0, <2>1, <2>2, <3>3, WrittenChunk
    <2>5. CASE PullEnd(s, c)
      <3>1. pull' = [pull EXCEPT ![<<s, c>>] = "end"]
            /\ answer' = IF pull[<<s, c>>] = "sending" THEN [answer EXCEPT ![<<s, c>>] = "ok"] ELSE answer
        BY Zenon, <2>5 DEF PullEnd
      <3>2. pull'[<<s, c>>] = "end" /\ (pull[<<s, c>>] = "sending" \/ answer' = answer)
        BY Zenon, <2>0, <3>1 DEF PullTypes
      <3>3. WrittenOf(s, c)'
        BY Zenon, <1>0, <2>0, <3>2 DEF WrittenOf
      <3> QED
        BY Zenon, <1>0, <2>1, <2>2, <3>3, WrittenChunk
    <2>6. CASE PullDone(s, c, k)
      <3>1. <<s, c>> \in Served'
        BY Zenon, <2>6 DEF PullDone, Served
      <3>2. WrittenOf(s, c)'
        BY Zenon, <3>1 DEF WrittenOf
      <3> QED
        BY Zenon, <1>0, <2>1, <2>2, <3>2, WrittenChunk
    <2>7. CASE OnReady(s, c)
      <3>1. <<s, c>> \in Served'
        BY Zenon, <1>0, <2>0, <2>7 DEF OnReady, WrittenOf
      <3>2. WrittenOf(s, c)'
        BY Zenon, <3>1 DEF WrittenOf
      <3> QED
        BY Zenon, <1>0, <2>1, <2>2, <3>2, WrittenChunk
    <2> HIDE DEF Goal
    <2> QED
      BY Zenon, <1>5, <2>3, <2>4, <2>5, <2>6, <2>7
  <1>6. ASSUME UNCHANGED vars PROVE Goal
    BY Zenon, <1>1, <1>6 DEF vars, prodVars
  <1> HIDE DEF Goal
  <1>7. Goal
    BY Zenon, <1>1, <1>2, <1>3, <1>4, <1>5, <1>6 DEF Next
  <1> QED
    BY Zenon, <1>7 DEF Goal

-----------------------------------------------------------------------------
\* Every step of the system is a step of each of the parts above.

\* A session that ends while it is in the map finishes its object.
LEMMA EndIsMove ==
    ASSUME ObjTypes, ObjInv, NEW s \in Session, NEW b, EndSession(s, b),
           UNCHANGED <<seen, named, ready, openPc, obj>>
    PROVE  ObjMove
  <1>1. CASE b /\ s \in inMap
    <2>1. openPc[s] = "done" /\ Claims(s) /\ Active(s)
      BY Zenon, <1>1 DEF ObjInv, OpenOf, Claims, Active
    <2>2. openPc' = [openPc EXCEPT ![s] = "done"]
      BY Zenon, <2>1 DEF ObjTypes
    <2>3. inMap' = inMap \ {s} /\ FinishSend(s, -1)
      BY Zenon, <1>1 DEF EndSession
    <2>4. Finish(s)
      BY Zenon, <2>1, <2>2, <2>3 DEF Finish
    <2> QED
      BY Zenon, <2>4 DEF ObjMove
  <1>2. CASE ~ (b /\ s \in inMap)
    BY Zenon, <1>2 DEF EndSession, ObjMove
  <1> QED
    BY Zenon, <1>1, <1>2

\* Every step is one of the object moves.
LEMMA NextIsObjMove ==
    ASSUME Types, ObjInv, AbortInv, [Next]_vars
    PROVE  ObjMove
  <1> USE DEF Types
  <1>1. ASSUME NEW t \in Transfer,
               RecordPublish(t) \/ RecordAnnounce(t) \/ RecordDrop(t) \/ Sweep(t)
        PROVE  ObjMove
    BY Zenon, <1>1 DEF ObjMove
  <1>2. ASSUME NEW s \in Session, OpenArrive(s) \/ OpenAbandon(s)
        PROVE  ObjMove
    BY Zenon, <1>2 DEF ObjMove
  <1>3. ASSUME NEW s \in Session, OpenReady(s) PROVE ObjMove
    <2>0. Active(s) /\ s \notin inMap /\ ~ Claims(s)
      BY Zenon, <1>3 DEF OpenReady, Active, Claims, ObjInv, OpenOf
    <2>1. CASE s \in closed
      <3>1. Taken(s) - 1 = 0
        BY SMTT(60) DEF Taken
      <3>2. FinishSend(s, 0) /\ inMap' = inMap \ {s}
        BY Zenon, <1>3, <2>0, <2>1, <3>1 DEF OpenReady, sessVars
      <3>3. Finish(s)
        BY Zenon, <1>3, <2>0, <2>1, <3>2 DEF OpenReady, Finish
      <3> QED
        BY Zenon, <3>3 DEF ObjMove
    <2>2. CASE s \notin closed
      BY Zenon, <1>3, <2>2 DEF OpenReady, ObjMove, Take, sessVars
    <2> QED
      BY Zenon, <2>1, <2>2
  <1>4. ASSUME NEW s \in Session, OpenDone(s) \/ OpenFailed(s) PROVE ObjMove
    <2>0. Active(s) /\ s \notin inMap /\ Claims(s)
      BY Zenon, <1>4 DEF OpenDone, OpenFailed, Active, Claims, ObjInv, OpenOf
    <2>1. CASE TotalChunks[s] = 0 \/ OpenFailed(s)
      <3>1. FinishSend(s, -1) /\ inMap' = inMap \ {s}
        BY Zenon, <1>4, <2>0, <2>1 DEF OpenDone, OpenFailed, sessVars
      <3>2. Finish(s)
        BY Zenon, <1>4, <2>0, <2>1, <3>1 DEF OpenDone, OpenFailed, Finish
      <3> QED
        BY Zenon, <3>2 DEF ObjMove
    <2>2. CASE OpenDone(s) /\ TotalChunks[s] # 0
      BY Zenon, <2>2 DEF OpenDone, ObjMove, Enter
    <2> QED
      BY Zenon, <1>4, <2>1, <2>2
  <1>5. ASSUME NEW s \in Session, AbortArrive(s) \/ AbortDone(s) \/ AbortExpired(s) PROVE ObjMove
    BY Zenon, <1>5, EndIsMove DEF AbortArrive, AbortDone, AbortExpired, AbortAnswer
  <1>6. ASSUME NEW s \in Session, NEW c \in Chunk, NEW ok,
               PullArrive(s, c) \/ PullEnd(s, c) \/ PullDone(s, c, ok)
        PROVE  ObjMove
    BY Zenon, <1>6, EndIsMove DEF PullArrive, PullEnd, PullDone
  <1>7. ASSUME NEW s \in Session, Start(s) PROVE ObjMove
    <2>1. openPc[s] = "none"
      BY Zenon, <1>7 DEF Start, AbortInv, StageOf
    <2> QED
      BY Zenon, <1>7, <2>1 DEF Start, ObjMove, Begin, objVars, sessVars
  <1> DEFINE Same == UNCHANGED <<seen, cur, named, ready, sent, sending, freed, openPc, obj, inMap>>
  <1>8. ASSUME NEW s \in Session,
               \/ OnOpened(s) \/ SendAbort(s) \/ Cleanup(s) \/ CleanupFailed(s) \/ NoAck(s)
        PROVE  Same
    BY Zenon, <1>8 DEF OnOpened, SendAbort, Cleanup, CleanupFailed, NoAck, objVars, sessVars, prodVars
  <1>9. ASSUME NEW s \in Session, NEW c \in Chunk, NEW k,
               \/ PullFailed(s, c) \/ PullSlot(s, c, k) \/ IssueChunk(s, c, k)
               \/ OnReady(s, c) \/ DecodeDone(s, c) \/ WritebackDone(s, c) \/ WritebackFailed(s, c)
        PROVE  Same
    BY Zenon, <1>9 DEF PullFailed, PullSlot, IssueChunk, OnReady, DecodeDone, WritebackDone,
       WritebackFailed, objVars, sessVars, prodVars
  <1>10. CASE UNCHANGED vars
    BY Zenon, <1>10 DEF vars, prodVars, objVars, sessVars, ObjMove
  <1>11. Same => ObjMove
    BY Zenon DEF ObjMove
  <1> HIDE DEF Same
  <1> QED
    BY Zenon, <1>1, <1>2, <1>3, <1>4, <1>5, <1>6, <1>7, <1>8, <1>9, <1>10, <1>11 DEF Next

\* Every step keeps the types.
LEMMA NextTypes ==
    ASSUME Types, LeaseInv, [Next]_vars
    PROVE  Types'
  <1>1. ASSUME NEW t \in Transfer,
               RecordPublish(t) \/ RecordAnnounce(t) \/ RecordDrop(t) \/ Sweep(t)
        PROVE  Types'
    BY Zenon, <1>1, TyRecordPublish, TyRecordAnnounce, TyRecordDrop, TySweep
  <1>2. ASSUME NEW s \in Session,
               \/ OpenArrive(s) \/ OpenReady(s) \/ OpenAbandon(s) \/ OpenDone(s)
               \/ OpenFailed(s) \/ AbortArrive(s) \/ AbortDone(s) \/ AbortExpired(s)
        PROVE  Types'
    BY Zenon, <1>2, TyOpenArrive, TyOpenReady, TyOpenAbandon, TyOpenDone, TyOpenFailed,
       TyAbortArrive, TyAbortAnswer DEF AbortDone, AbortExpired
  <1>3. ASSUME NEW s \in Session,
               \/ Start(s) \/ OnOpened(s) \/ SendAbort(s)
               \/ Cleanup(s) \/ CleanupFailed(s) \/ NoAck(s)
        PROVE  Types'
    BY Zenon, <1>3, TyStart, TyOnOpened, TySendAbort, TyCleanup, TyCleanupFailed, TyNoAck
  <1>4. ASSUME NEW s \in Session, NEW c \in Chunk,
               \/ PullArrive(s, c) \/ PullFailed(s, c) \/ PullEnd(s, c)
               \/ OnReady(s, c) \/ DecodeDone(s, c)
               \/ WritebackDone(s, c) \/ WritebackFailed(s, c)
        PROVE  Types'
    BY Zenon, <1>4, TyPullArrive, TyPullFailed, TyPullEnd, TyOnReady, TyDecodeDone,
       TyWritebackDone, TyWritebackFailed
  <1>5. ASSUME NEW s \in Session, NEW c \in Chunk,
               \/ \E k \in SenderSlot : PullSlot(s, c, k)
               \/ \E ok \in BOOLEAN : PullDone(s, c, ok)
               \/ \E k \in ReceiverSlot : IssueChunk(s, c, k)
        PROVE  Types'
    BY Zenon, <1>5, TyPullSlot, TyPullDone, TyIssueChunk
  <1>6. CASE UNCHANGED vars
    BY Zenon, <1>6 DEF vars, prodVars, objVars, sessVars, consVars, Types, ObjTypes, PullTypes,
       AbortTypes, LeaseTypes, ReportTypes
  <1> QED
    BY Zenon, <1>1, <1>2, <1>3, <1>4, <1>5, <1>6 DEF Next

\* Every step keeps what is known of the chunks.
LEMMA NextChunk ==
    ASSUME Types, Types', LeaseInv, ChunkInv, [Next]_vars
    PROVE  ChunkInv'
  <1> USE DEF Types
  <1>1. ASSUME UNCHANGED <<pull, inflight, completed, inMap>> PROVE ChunkInv'
    BY Zenon, <1>1, ChunkQuiet
  <1>2. ASSUME NEW t \in Transfer,
               RecordPublish(t) \/ RecordAnnounce(t) \/ RecordDrop(t) \/ Sweep(t)
        PROVE  UNCHANGED <<pull, inflight, completed, inMap>>
    BY Zenon, <1>2 DEF RecordPublish, RecordAnnounce, RecordDrop, Sweep, sessVars
  <1>3. ASSUME NEW s \in Session,
               OpenArrive(s) \/ OpenReady(s) \/ OpenAbandon(s) \/ OpenFailed(s)
        PROVE  UNCHANGED <<pull, inflight, completed, inMap>>
    BY Zenon, <1>3 DEF OpenArrive, OpenReady, OpenAbandon, OpenFailed, sessVars
  <1>4. ASSUME NEW s \in Session, OpenDone(s) PROVE ChunkInv'
    <2>1. UNCHANGED <<pull, inflight, completed>> /\ inMap \subseteq inMap'
      BY Zenon, <1>4 DEF OpenDone
    <2> QED
      BY Zenon, <2>1, ChunkQuiet
  <1>5. ASSUME NEW s \in Session, AbortArrive(s) \/ AbortDone(s) \/ AbortExpired(s) PROVE ChunkInv'
    <2>1. UNCHANGED <<pull, inflight, completed>>
      BY Zenon, <1>5 DEF AbortArrive, AbortDone, AbortExpired, AbortAnswer
    <2>2. inMap' = inMap \/ (inflight[s] = 0 /\ inMap' = inMap \ {s})
      BY Zenon, <1>5, EndMap DEF AbortArrive, AbortDone, AbortExpired, AbortAnswer, Drained
    <2> QED
      BY Zenon, <2>1, <2>2, ChunkAbort
  <1>6. ASSUME NEW s \in Session,
               \/ Start(s) \/ OnOpened(s) \/ SendAbort(s)
               \/ Cleanup(s) \/ CleanupFailed(s) \/ NoAck(s)
        PROVE  UNCHANGED <<pull, inflight, completed, inMap>>
    BY Zenon, <1>6 DEF Start, OnOpened, SendAbort, Cleanup, CleanupFailed, NoAck, sessVars, prodVars
  <1>7. ASSUME NEW s \in Session, NEW c \in Chunk, NEW k,
               \/ OnReady(s, c) \/ DecodeDone(s, c) \/ WritebackDone(s, c) \/ WritebackFailed(s, c)
        PROVE  UNCHANGED <<pull, inflight, completed, inMap>>
    BY Zenon, <1>7 DEF OnReady, DecodeDone, WritebackDone, WritebackFailed, sessVars, prodVars
  <1>8. ASSUME NEW s \in Session, NEW c \in Chunk,
               \/ PullArrive(s, c) \/ PullFailed(s, c) \/ PullEnd(s, c)
               \/ \E k \in SenderSlot : PullSlot(s, c, k)
               \/ \E ok \in BOOLEAN : PullDone(s, c, ok)
               \/ \E k \in ReceiverSlot : IssueChunk(s, c, k)
        PROVE  ChunkInv'
    BY Zenon, <1>8, ChunkArrive, ChunkSlot, ChunkEnd, ChunkDone, ChunkIssue
  <1>9. CASE UNCHANGED vars
    BY Zenon, <1>1, <1>9 DEF vars, prodVars, sessVars
  <1> QED
    BY Zenon, <1>1, <1>2, <1>3, <1>4, <1>5, <1>6, <1>7, <1>8, <1>9 DEF Next

-----------------------------------------------------------------------------
\* The invariant, and what follows from it.

\* Every step keeps what is known of aborts and ends.
LEMMA NextAbort ==
    ASSUME Types, ObjInv, LeaseInv, ChunkInv, AbortInv, [Next]_vars
    PROVE  AbortInv'
  <1> USE DEF Types
  <1>1. ASSUME NEW t \in Transfer,
               RecordPublish(t) \/ RecordAnnounce(t) \/ RecordDrop(t) \/ Sweep(t)
        PROVE  AbortInv'
    <2>1. UNCHANGED <<abortPc, openPc, abortOps, dpc, opened, closed, inMap, pull>>
      BY Zenon, <1>1 DEF RecordPublish, RecordAnnounce, RecordDrop, Sweep, sessVars, consVars
    <2> QED
      BY Zenon, <2>1, AbortNone DEF Settled
  <1>2. ASSUME NEW s \in Session,
               \/ OpenArrive(s) \/ OpenReady(s) \/ OpenAbandon(s) \/ OpenDone(s) \/ OpenFailed(s)
        PROVE  AbortInv'
    BY Zenon, <1>2, AbortOpen
  <1>3. ASSUME NEW s \in Session, AbortArrive(s) \/ AbortDone(s) \/ AbortExpired(s) PROVE AbortInv'
    BY Zenon, <1>3, AbortServe
  <1>4. ASSUME NEW s \in Session,
               Start(s) \/ OnOpened(s) \/ SendAbort(s) \/ Cleanup(s) \/ CleanupFailed(s) \/ NoAck(s)
        PROVE  AbortInv'
    BY Zenon, <1>4, AbortConsume
  <1>5. ASSUME NEW s \in Session, NEW c \in Chunk,
               OnReady(s, c) \/ DecodeDone(s, c) \/ WritebackDone(s, c) \/ WritebackFailed(s, c)
        PROVE  AbortInv'
    BY Zenon, <1>5, AbortConsume
  <1>6. ASSUME NEW s \in Session, NEW c \in Chunk,
               \/ PullArrive(s, c) \/ PullFailed(s, c) \/ PullEnd(s, c)
               \/ \E k : PullSlot(s, c, k)
               \/ \E ok : PullDone(s, c, ok)
               \/ \E k : IssueChunk(s, c, k)
        PROVE  AbortInv'
    BY Zenon, <1>6, AbortPull
  <1>7. ASSUME UNCHANGED vars PROVE AbortInv'
    <2>1. UNCHANGED <<abortPc, openPc, abortOps, dpc, opened, closed, inMap, pull>>
      BY Zenon, <1>7 DEF vars, prodVars, sessVars, consVars
    <2> QED
      BY Zenon, <2>1, AbortNone DEF Settled
  <1> QED
    BY Zenon, <1>1, <1>2, <1>3, <1>4, <1>5, <1>6, <1>7 DEF Next

\* Every step keeps what is known of the leases.
LEMMA NextLease ==
    ASSUME Types, LeaseInv, [Next]_vars
    PROVE  LeaseInv'
  <1> USE DEF Types
  <1>1. ASSUME UNCHANGED <<rc, decoded, rslot, rfree, pull, answer, dpc>> PROVE LeaseInv'
    BY Zenon, <1>1, LeaseQuiet
  <1>2. ASSUME NEW t \in Transfer,
               RecordPublish(t) \/ RecordAnnounce(t) \/ RecordDrop(t) \/ Sweep(t)
        PROVE  UNCHANGED <<rc, decoded, rslot, rfree, pull, answer, dpc>>
    BY Zenon, <1>2 DEF RecordPublish, RecordAnnounce, RecordDrop, Sweep, consVars
  <1>3. ASSUME NEW s \in Session,
               \/ OpenArrive(s) \/ OpenReady(s) \/ OpenAbandon(s) \/ OpenDone(s) \/ OpenFailed(s)
               \/ AbortArrive(s) \/ AbortDone(s) \/ AbortExpired(s)
        PROVE  UNCHANGED <<rc, decoded, rslot, rfree, pull, answer, dpc>>
    BY Zenon, <1>3 DEF OpenArrive, OpenReady, OpenAbandon, OpenDone, OpenFailed, AbortArrive,
         AbortDone, AbortExpired, AbortAnswer, consVars
  <1>4. ASSUME NEW s \in Session,
               Start(s) \/ OnOpened(s) \/ SendAbort(s) \/ CleanupFailed(s) \/ NoAck(s)
        PROVE  LeaseInv'
    <2>1. UNCHANGED <<rc, decoded, rslot, rfree, pull, answer>>
      BY Zenon, <1>4 DEF Start, OnOpened, SendAbort, CleanupFailed, NoAck, KeepLeases, prodVars
    <2>0. \E v : dpc' = [dpc EXCEPT ![s] = v]
      BY Zenon, <1>4 DEF Start, OnOpened, SendAbort, CleanupFailed, NoAck
    <2>2. dpc[s] # "done"
      BY Zenon, <1>4 DEF Start, OnOpened, SendAbort, CleanupFailed, NoAck, Failing, Silent
    <2>3. \A r \in Session : dpc[r] = "done" => dpc'[r] = "done"
      BY Zenon, <2>0, <2>2 DEF AbortTypes
    <2> QED
      BY Zenon, <2>1, <2>3, LeaseQuiet
  <1>5. ASSUME NEW s \in Session, Cleanup(s) PROVE LeaseInv'
    BY Zenon, <1>5, LeaseCleanup
  <1>6. ASSUME NEW s \in Session, NEW c \in Chunk,
               \/ PullArrive(s, c) \/ PullFailed(s, c) \/ PullEnd(s, c)
               \/ \E k : PullSlot(s, c, k)
               \/ \E ok : PullDone(s, c, ok)
        PROVE  LeaseInv'
    BY Zenon, <1>6, LeasePull
  <1>7. ASSUME NEW s \in Session, NEW c \in Chunk, NEW k \in ReceiverSlot, IssueChunk(s, c, k)
        PROVE  LeaseInv'
    BY Zenon, <1>7, LeaseIssue
  <1>8. ASSUME NEW s \in Session, NEW c \in Chunk,
               OnReady(s, c) \/ DecodeDone(s, c) \/ WritebackFailed(s, c)
        PROVE  LeaseInv'
    BY Zenon, <1>8, LeaseDecode
  <1>9. ASSUME NEW s \in Session, NEW c \in Chunk, WritebackDone(s, c) PROVE LeaseInv'
    BY Zenon, <1>9, LeaseWriteback
  <1>10. ASSUME UNCHANGED vars PROVE LeaseInv'
    BY Zenon, <1>1, <1>10 DEF vars, prodVars, consVars
  <1> QED
    BY Zenon, <1>1, <1>2, <1>3, <1>4, <1>5, <1>6, <1>7, <1>8, <1>9, <1>10 DEF Next

\* The inductive invariant.
InprocInv == Types /\ ObjInv /\ ClaimInv /\ ChunkInv /\ AbortInv /\ LeaseInv /\ ReportInv

\* It holds before the first request.
LEMMA InitInv ==
    ASSUME Init
    PROVE  InprocInv /\ WrittenInv
  <1>0. Cardinality({}) = 0
    BY Zenon, CardinalitySmall
  <1>1. Types
    <2>1. ObjTypes
      BY SMTT(60) DEF Init, ObjTypes
    <2>2. PullTypes
      BY SMTT(60) DEF Init, PullTypes
    <2>3. AbortTypes
      BY Zenon DEF Init, AbortTypes
    <2>4. LeaseTypes
      BY Zenon DEF Init, LeaseTypes
    <2>5. ReportTypes
      <3>1. \A q \in Pull : Cardinality({s \in Session : PullOf[s] = q}) \in Nat
        BY Zenon, TargetAssumption, CardinalityRemove
      <3>2. count \in [Pull -> Int]
        BY SMTT(60), <3>1 DEF Init
      <3> QED
        BY Zenon, <3>2 DEF Init, ReportTypes
    <2> QED
      BY Zenon, <2>1, <2>2, <2>3, <2>4, <2>5 DEF Types
  <1>2. /\ \A s \in Session : openPc[s] = "none" /\ dpc[s] = "none" /\ abortPc[s] = "none"
                              /\ opened[s] = "none" /\ obj[s] = None
                              /\ inflight[s] = 0 /\ completed[s] = 0 /\ decoded[s] = 0
        /\ \A t \in Transfer : cur[t] = None /\ freed[t] = 0
        /\ \A o \in Obj : sending[o] = 0 /\ sent[o] = 0
        /\ \A s \in Session, c \in Chunk :
              /\ pull[<<s, c>>] = "none" /\ answer[<<s, c>>] = "none" /\ rc[<<s, c>>] = "none"
        /\ \A x \in SC : rslot[x] = None
        /\ \A q \in Pull : /\ fin[q] = 0
                           /\ count[q] = Cardinality({s \in Session : PullOf[s] = q})
        /\ ready = {} /\ inMap = {}
    BY Zenon DEF Init, SC
  <1>3. ObjInv
    <2>1. ASSUME NEW t \in Transfer PROVE ObjOf(t)
      <3>1. cur[t] = None /\ freed[t] = 0 /\ None \notin Session
        BY Zenon, <1>2, SessionAssumption DEF Obj
      <3>2. freed[t] <= 1 /\ ~ (freed[t] > 0)
        BY SMTT(60), <3>1
      <3> QED
        BY Zenon, <3>1, <3>2 DEF ObjOf
    <2>2. ASSUME NEW s \in Session PROVE OpenOf(s)
      BY Zenon, <1>2 DEF OpenOf, Active, Claims
    <2> QED
      BY Zenon, <1>2, <2>1, <2>2 DEF ObjInv, ReadyOf
  <1>4. ClaimInv
    <2> SUFFICES ASSUME NEW o \in Obj
                 PROVE  /\ sending[o] = Cardinality(Claiming(o))
                        /\ sent[o] <= Cardinality(Ended(Owner(o)))
      BY Zenon DEF ClaimInv
    <2>1. Claiming(o) = {}
      BY Zenon, <1>2 DEF Claiming, Claims, Of
    <2>2. Ended(Owner(o)) = {}
      BY Zenon, <1>2 DEF Ended, Over, Of
    <2> QED
      BY SMTT(60), <1>0, <1>2, <2>1, <2>2
  <1>5. ChunkInv
    <2> SUFFICES ASSUME NEW s \in Session PROVE CountOf(s) /\ PlaceOf(s)
      BY Zenon DEF ChunkInv
    <2>1. Carried(s) = {} /\ Behind(s) = {}
      BY Zenon, <1>2 DEF Carried, Behind
    <2>2. CountOf(s)
      BY SMTT(60), <1>0, <1>2, <2>1 DEF CountOf
    <2> QED
      BY Zenon, <1>2, <2>2 DEF PlaceOf
  <1>6. AbortInv
    BY Zenon, <1>2 DEF AbortInv, AbortOf, StageOf, StillOf
  <1>7. LeaseInv
    <2>1. ASSUME NEW s \in Session PROVE Decoded(s) = {}
      BY Zenon, <1>2 DEF Decoded
    <2>2. \A s \in Session : decoded[s] = Cardinality(Decoded(s))
      BY Zenon, <1>0, <1>2, <2>1
    <2>3. SlotsOnce
      BY Zenon, <1>2 DEF SlotsOnce
    <2>4. \A s \in Session, c \in Chunk : PaceOf(s, c)
      BY Zenon, <1>2 DEF PaceOf
    <2> QED
      BY Zenon, <2>2, <2>3, <2>4 DEF LeaseInv
  <1>8. ReportInv
    <2> SUFFICES ASSUME NEW q \in Pull PROVE ReportOf(q)
      BY Zenon DEF ReportInv
    <2>1. Open(q) = {s \in Session : PullOf[s] = q}
      BY Zenon, <1>2 DEF Open
    <2>2. fin[q] = 0
      BY Zenon, <1>2
    <2>3. ~ (fin[q] > 0)
      BY SMTT(60), <2>2
    <2> QED
      BY Zenon, <1>2, <2>1, <2>3 DEF ReportOf
  <1>9. WrittenInv
    BY Zenon, <1>2 DEF WrittenInv, WholeOf, WrittenOf
  <1> QED
    BY Zenon, <1>1, <1>3, <1>4, <1>5, <1>6, <1>7, <1>8, <1>9 DEF InprocInv

\* Every step keeps it.
LEMMA NextInv ==
    ASSUME InprocInv, [Next]_vars
    PROVE  InprocInv'
  <1> USE DEF InprocInv
  <1>1. Types'
    BY Zenon, NextTypes
  <1>2. ObjInv' /\ ClaimInv'
    BY Zenon, NextIsObjMove, ObjMoveInv DEF Types
  <1>3. ChunkInv'
    BY Zenon, <1>1, NextChunk
  <1>4. AbortInv'
    BY Zenon, NextAbort
  <1>5. LeaseInv'
    BY Zenon, NextLease
  <1>6. ReportInv'
    BY Zenon, NextReport DEF Types
  <1> QED
    BY Zenon, <1>1, <1>2, <1>3, <1>4, <1>5, <1>6

\* A chunk that is being written belongs to a session in the map that has not
\* ended, and waits at the decode worker.
LEMMA JobHeld ==
    ASSUME InprocInv, NEW s \in Session, NEW c \in Chunk, pull[<<s, c>>] = "job"
    PROVE  s \in inMap /\ dpc[s] # "done" /\ rc[<<s, c>>] = "granted"
  <1> USE DEF InprocInv
  <1>1. s \in inMap
    BY Zenon DEF ChunkInv, PlaceOf
  <1>2. dpc[s] # "done"
    BY Zenon, <1>1 DEF AbortInv, StillOf, AbortOf
  <1>3. <<s, c>> \in SC /\ rc[<<s, c>>] \in {"none", "granted", "decode", "writeback", "done", "broken"}
    BY Zenon DEF Types, LeaseTypes, SC
  <1>4. rc[<<s, c>>] = "granted"
    BY Zenon, <1>3 DEF LeaseInv, PaceOf
  <1> QED
    BY Zenon, <1>1, <1>2, <1>4

\* The inductive invariant holds in every reachable state, for any number of
\* sessions, transfers, chunks and slots and every set of faults.
THEOREM InprocInvariant == Spec => []InprocInv
  <1>1. Init => InprocInv
    BY Zenon, InitInv
  <1>2. InprocInv /\ [Next]_vars => InprocInv'
    BY Zenon, NextInv
  <1> QED
    BY <1>1, <1>2, PTL DEF Spec

\* _finish_compression_send_meta and _sweep_expired_sends put a request in
\* _finished_sending at most once, and never while a session reads its blocks.
THEOREM InprocBlocksAreHeld == Spec => []InprocBlocksHeld
  <1>1. InprocInv => InprocBlocksHeld
    <2> SUFFICES ASSUME InprocInv PROVE InprocBlocksHeld
      BY Zenon
    <2>1. \A t \in Transfer : freed[t] <= 1
      BY Zenon DEF InprocInv, ObjInv, ObjOf
    <2>2. ASSUME NEW s \in Session, Writes(s) PROVE freed[TransferOf[s]] = 0
      BY Zenon, <2>2, JobHeld DEF Writes, InprocInv, ObjInv, OpenOf, Active, Claims
    <2> QED
      BY Zenon, <2>1, <2>2 DEF InprocBlocksHeld
  <1> QED
    BY <1>1, InprocInvariant, PTL

\* The prefill worker writes a chunk only into the receive slot that is leased for
\* it, which no other chunk has and which is not free, and it writes nothing for a
\* request that was reported as received.
THEOREM InprocSlotsLeased == Spec => []InprocSlotLease
  <1>1. InprocInv => InprocSlotLease
    <2> SUFFICES ASSUME InprocInv PROVE InprocSlotLease
      BY Zenon
    <2>1. ASSUME NEW x \in SC, pull[x] = "job"
          PROVE  /\ rslot[x] # None /\ rslot[x] \notin rfree
                 /\ \A y \in SC : y # x => rslot[y] # rslot[x]
      <3>1. PICK s \in Session, c \in Chunk : x = <<s, c>>
        BY SMTT(60) DEF SC
      <3>2. dpc[s] # "done" /\ rc[<<s, c>>] = "granted"
        BY Zenon, <2>1, <3>1, JobHeld
      <3>3. rslot[x] # None
        BY Zenon, <3>1, <3>2 DEF InprocInv, LeaseInv, PaceOf
      <3> QED
        BY Zenon, <3>3 DEF InprocInv, LeaseInv, SlotsOnce
    <2>2. ASSUME NEW s \in Session, fin[PullOf[s]] > 0 PROVE ~ Writes(s)
      <3>1. PullOf[s] \in Pull
        BY Zenon, SessionAssumption
      <3>2. dpc[s] = "done"
        BY Zenon, <2>2, <3>1 DEF InprocInv, ReportInv, ReportOf, Open
      <3> QED
        BY Zenon, <3>2, JobHeld DEF Writes, InprocInv, AbortInv, StillOf, AbortOf
    <2> QED
      BY Zenon, <2>1, <2>2 DEF InprocSlotLease
  <1> QED
    BY <1>1, InprocInvariant, PTL

\* Whatever fails, a request that is reported as received without invalid blocks
\* has had every chunk of every session written, decoded and written back; the one
\* failure that is not reported is that of a write.
THEOREM InprocLossReported == Spec => []InprocNoSilentLoss
  <1> DEFINE Both == InprocInv /\ WrittenInv
  <1>1. Init => Both
    BY Zenon, InitInv
  <1>2. Both /\ [Next]_vars => Both'
    <2> SUFFICES ASSUME InprocInv, WrittenInv, [Next]_vars PROVE InprocInv' /\ WrittenInv'
      BY Zenon
    <2>1. InprocInv'
      BY Zenon, NextInv
    <2>2. WrittenInv'
      BY Zenon, NextWhole, NextWritten DEF InprocInv, WrittenInv
    <2> QED
      BY Zenon, <2>1, <2>2
  <1>3. Both => InprocNoSilentLoss
    <2> SUFFICES ASSUME InprocInv, WrittenInv, NEW q \in Pull, fin[q] > 0, inv[q] = 0,
                        NEW s \in Session, PullOf[s] = q
                 PROVE  /\ opened[s] = "ok"
                        /\ \A c \in 0 .. (TotalChunks[s] - 1) :
                              <<s, c>> \in Served /\ rc[<<s, c>>] = "done"
      BY Zenon DEF InprocNoSilentLoss, Served
    <2>1. q \notin failed
      <3>1. ~ (inv[q] > 0)
        BY SMTT(60)
      <3> QED
        BY Zenon, <3>1 DEF InprocInv, ReportInv, ReportOf
    <2>2. dpc[s] = "done"
      BY Zenon DEF InprocInv, ReportInv, ReportOf, Open
    <2>3. Whole(s)
      BY Zenon, <2>1, <2>2 DEF WrittenInv, WholeOf
    <2>4. \A c \in 0 .. (TotalChunks[s] - 1) : c \in Chunk /\ c < TotalChunks[s]
      BY SMTT(60), SessionAssumption DEF Chunk
    <2> QED
      BY Zenon, <2>3, <2>4 DEF Whole
  <1> HIDE DEF Both
  <1> QED
    BY <1>1, <1>2, <1>3, PTL DEF Spec
=============================================================================
