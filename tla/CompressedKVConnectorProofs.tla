------------------- MODULE CompressedKVConnectorProofs -------------------
(***************************************************************************)
(* Theorems about NcclTransport, and about the connector on top of it, for  *)
(* every set of payloads, requests, keys and sizes, every capacity, every   *)
(* combination of faults, with and without asynchronous sends and a router  *)
(* that waits.  The theorems about Spec are about the transport alone,      *)
(* whatever its clients do; those about ConnSpec follow from them.          *)
(***************************************************************************)
EXTENDS CompressedKVConnector, DataLemmas

-----------------------------------------------------------------------------
\* The transport.

\* A retried item goes to some place of the queue, its end included.
LEMMA RetryIndexRange ==
    ASSUME NEW q \in Seq(Payload), NEW p \in Payload
    PROVE  RetryIndex(q, p) \in 1..(Len(q) + 1)
  <1> DEFINE same == {i \in DOMAIN q : RidOf[q[i]] = RidOf[p]}
  <1>1. DOMAIN q = 1..Len(q) /\ Len(q) \in Nat
    BY Zenon, SeqElements
  <1>2. CASE same = {}
    BY SMTT(60), Z3T(60), <1>2, <1>1 DEF RetryIndex
  <1>3. CASE same # {}
    <2>1. same \in SUBSET Nat
      BY SMTT(60), Z3T(60), <1>1
    <2>2. \E i \in same : \A j \in same : i <= j
      BY Zenon, <1>3, <2>1, LeastNat
    <2>3. RetryIndex(q, p) \in same
      BY Zenon, <1>3, <2>2 DEF RetryIndex
    <2> QED
      BY SMTT(60), Z3T(60), <2>3, <1>1
  <1> QED
    BY Zenon, <1>2, <1>3

\* A retried item is put back into a queue of payloads.
LEMMA InsertRetryType ==
    ASSUME NEW q \in Seq(Payload), NEW p \in Payload
    PROVE  InsertRetry(q, p) \in Seq(Payload)
  <1>1. DOMAIN q = 1..Len(q) /\ Len(q) \in Nat
    BY Zenon, SeqElements
  <1> DEFINE i == RetryIndex(q, p)
  <1>3. \A j \in 1..Len(q) : q[j] \in Payload
    BY Zenon, SeqElements
  <1> HIDE DEF i
  <1>4. i \in 1..(Len(q) + 1)
    BY Zenon, RetryIndexRange DEF i
  <1>5. SubSeq(q, 1, i - 1) \in Seq(Payload)
    <2>1. \A j \in 1..(i - 1) : q[j] \in Payload
      BY SMTT(60), Z3T(60), <1>1, <1>3, <1>4
    <2> QED
      BY SMTT(60), Z3T(60), <1>1, <1>4, <2>1, SubSeqElements
  <1>6. SubSeq(q, i, Len(q)) \in Seq(Payload)
    <2>1. \A j \in i..Len(q) : q[j] \in Payload
      BY SMTT(60), Z3T(60), <1>1, <1>3, <1>4
    <2> QED
      BY SMTT(60), Z3T(60), <1>1, <1>4, <2>1, SubSeqElements
  <1>7. <<p>> \in Seq(Payload)
    OBVIOUS
  <1>8. SubSeq(q, 1, i - 1) \o <<p>> \o SubSeq(q, i, Len(q)) \in Seq(Payload)
    BY Zenon, <1>5, <1>6, <1>7, ConcatElements
  <1> QED
    BY Zenon, <1>8 DEF InsertRetry, i

\* What release_received does to the credit and the mark.
LEMMA ReleaseEffect ==
    ASSUME TypeOK, NEW p \in Payload, Release(p)
    PROVE  /\ reserved' \in Nat
           /\ reserved' <= reserved
           /\ reserved' = 0 \/ reserved' = reserved - Bytes[p]
           /\ priority' = (IF priority = RidOf[p] THEN None ELSE priority)
           /\ priority' \in Rid \cup {None}
           /\ expected' \subseteq Rid
  <1>1. Bytes[p] \in Nat /\ reserved \in Nat
    BY SMTT(60), Z3T(60), BytesAssumption DEF TypeOK
  <1>2. reserved' = IF reserved >= Bytes[p] THEN reserved - Bytes[p] ELSE 0
    BY Zenon DEF Release, Monus
  <1>3. /\ reserved' \in Nat
        /\ reserved' <= reserved
        /\ reserved' = 0 \/ reserved' = reserved - Bytes[p]
    BY SMTT(60), Z3T(60), <1>1, <1>2
  <1> QED
    BY Zenon, <1>3 DEF Release, TypeOK

\* Retiring an item leaves two integers.
LEMMA FinishEffect ==
    ASSUME TypeOK, NEW p \in Payload, FinishSendItem(p)
    PROVE  sendPendingBytes' \in Int /\ sendInflight' \in Int
  <1>1. Bytes[p] \in Int
    BY SMTT(60), Z3T(60), BytesAssumption
  <1>2. sendPendingBytes \in Int /\ sendInflight \in Int
    BY Zenon DEF TypeOK
  <1> QED
    BY ONLY <1>1, <1>2, FinishSendItem(p) DEF FinishSendItem

\* Publishing one more entry adds only that entry to what can be read.
LEMMA PublishEffect ==
    ASSUME TypeOK, NEW k \in Rid, NEW e \in Payload \cup {Failed},
           received' = [received EXCEPT ![k] = Append(@, e)], held' = held
    PROVE  Delivered' \subseteq (Delivered \cup {e}) \cap Payload
  <1>0. Delivered' \subseteq Payload
    BY Zenon DEF Delivered, Published, TypeOK
  <1> SUFFICES ASSUME NEW p \in Payload, NEW r \in Rid, p \in Range(received'[r])
               PROVE  p = e \/ \E q \in Rid : p \in Range(received[q])
    BY Zenon, <1>0 DEF Delivered, Published
  <1>1. received[k] \in Seq(Payload \cup {Failed})
    BY Zenon DEF TypeOK
  <1>2. Range(Append(received[k], e)) = Range(received[k]) \cup {e}
    BY SMTT(60), Z3T(60), <1>1, AppendRange
  <1>3. received'[r] = IF r = k THEN Append(received[k], e) ELSE received[r]
    BY Zenon DEF TypeOK
  <1> QED
    BY Zenon, <1>2, <1>3

\* Every step keeps the types, given what the handshake says of the item
\* each thread holds.
LEMMA TypeStep ==
    ASSUME TypeOK, Handshake, [Next]_vars
    PROVE  TypeOK'
  <1> USE PayloadAssumption DEF TypeOK, Handshake
  <1>1. CASE SendPop
    BY SMTT(60), Z3T(60), <1>1, HeadTailRange DEF SendPop, sendVars, ncclVars, creditVars, listenVars
  <1>2. CASE SendRetry
    <2>1. InsertRetry(sendQueue, sendCur) \in Seq(Payload)
      BY Zenon, <1>2, InsertRetryType DEF SendRetry
    <2> QED
      BY SMTT(60), Z3T(60), <1>2, <2>1 DEF SendRetry, sendVars, ncclVars, creditVars, listenVars
  <1>3. CASE SendRetire
    <2>1. sendCur \in Payload
      BY ONLY <1>3, PayloadAssumption, TypeOK, Handshake DEF SendRetire, TypeOK, Handshake
    <2>2. sendPendingBytes' \in Int /\ sendInflight' \in Int
      BY ONLY <1>3, <2>1, TypeOK, FinishEffect DEF SendRetire
    <2>3. /\ sendCur' = None /\ ack' = None
          /\ UNCHANGED <<sendQueue, sendCompletions, putMsg, ncclVars, listenVars,
                         creditVars, recvCompletions, received, submitted, held, lost>>
      BY ONLY <1>3 DEF SendRetire
    <2> HIDE DEF Handshake
    <2> QED
      BY Zenon, <2>2, <2>3 DEF ncclVars, creditVars, listenVars
  <1>4. CASE SendPost
    BY Zenon, <1>4, AppendRange DEF SendPost, sendVars, ncclVars, creditVars, listenVars
  <1>5. CASE SendComplete
    <2>1. /\ Head(sendCompletions) \in Payload
          /\ Tail(sendCompletions) \in Seq(Payload)
      BY Zenon, <1>5, HeadTailRange DEF SendComplete
    <2>2. sendPendingBytes' \in Int /\ sendInflight' \in Int
      BY ONLY <1>5, <2>1, TypeOK, FinishEffect DEF SendComplete
    <2>3. /\ sendCompletions' = Tail(sendCompletions)
          /\ UNCHANGED <<sendQueue, sendCur, putMsg, ack, ncclVars, listenVars,
                         creditVars, recvCompletions, received, submitted, held, lost>>
      BY ONLY <1>5 DEF SendComplete
    <2> HIDE DEF Handshake
    <2> QED
      BY ZenonT(60), <2>1, <2>2, <2>3 DEF ncclVars, creditVars, listenVars
  <1>6. CASE NcclTransfer
    BY Zenon, <1>6, HeadTailRange DEF NcclTransfer, sendVars, ncclVars, creditVars, listenVars
  <1>7. CASE ListenInit
    BY Zenon, <1>7 DEF ListenInit, sendVars, ncclVars, creditVars, listenVars
  <1>8. CASE ListenPutBeforeInit
    BY Zenon, <1>8, AppendRange DEF ListenPutBeforeInit, MarkFailed, sendVars, ncclVars, creditVars, listenVars
  <1>9. CASE ListenPutRetry
    BY Zenon, <1>9 DEF ListenPutRetry, sendVars, ncclVars, creditVars, listenVars
  <1>10. CASE ListenPutReserve
    BY SMTT(60), Z3T(60), <1>10, BytesAssumption DEF ListenPutReserve, Reserve, sendVars, ncclVars, creditVars, listenVars
  <1>11. CASE ListenAck
    BY Zenon, <1>11 DEF ListenAck, sendVars, ncclVars, creditVars, listenVars
  <1>12. CASE ListenPost
    BY Zenon, <1>12, AppendRange DEF ListenPost, sendVars, ncclVars, creditVars, listenVars
  <1>13. CASE RecvComplete
    BY Zenon, <1>13, HeadTailRange, AppendRange DEF RecvComplete, RecvDone, sendVars, ncclVars, creditVars, listenVars
  <1>14. CASE ListenOom
    BY SMTT(60), Z3T(60), <1>14, AppendRange, BytesAssumption DEF ListenOom, Release, MarkFailed, Monus, sendVars, ncclVars, creditVars, listenVars
  <1>15. CASE ListenError
    BY Zenon, <1>15 DEF ListenError, sendVars, ncclVars, creditVars, listenVars
  <1>16. CASE RecvError
    <2> DEFINE p == Head(recvCompletions)
    <2>1. p \in Payload /\ Tail(recvCompletions) \in Seq(Payload)
      BY Zenon, <1>16, HeadTailRange DEF RecvError, RecvDone
    <2>2. Bytes[p] \in Nat /\ RidOf[p] \in Rid
      BY SMTT(60), Z3T(60), <2>1, BytesAssumption
    <2>3. Append(received[RidOf[p]], Failed) \in Seq(Payload \cup {Failed})
      BY Zenon, <2>2, AppendRange
    <2>4. received' \in [Rid -> Seq(Payload \cup {Failed})]
      BY Zenon, <1>16, <2>2, <2>3 DEF RecvError, MarkFailed
    <2>5. Release(p)
      BY Zenon, <1>16 DEF RecvError
    <2>6. reserved' \in Nat /\ priority' \in Rid \cup {None} /\ expected' \subseteq Rid
      BY Zenon, <2>1, <2>5, ReleaseEffect
    <2> QED
      BY Zenon, <1>16, <2>1, <2>4, <2>6 DEF RecvError, sendVars, ncclVars, creditVars, listenVars
  <1>17. CASE ConsumerRestart
    BY SMTT(60), Z3T(60), <1>17 DEF ConsumerRestart, sendVars, ncclVars, creditVars, listenVars
  <1>18. ASSUME NEW p \in Payload, Send(p) PROVE TypeOK'
    <2>1. Append(sendQueue, p) \in Seq(Payload)
      BY Zenon, AppendRange
    <2>2. Bytes[p] \in Int
      BY SMTT(60), Z3T(60), BytesAssumption
    <2> QED
      BY SMTT(60), Z3T(60), <1>18, <2>1, <2>2 DEF Send, sendVars, ncclVars, creditVars, listenVars
  <1>19. ASSUME NEW p \in Payload, ReleaseReceived(p) PROVE TypeOK'
    <2>1. Bytes[p] \in Nat /\ RidOf[p] \in Rid
      BY SMTT(60), Z3T(60), BytesAssumption
    <2>2. reserved' \in Nat /\ priority' \in Rid \cup {None} /\ expected' \subseteq Rid
      BY SMTT(60), Z3T(60), <1>19, <2>1 DEF ReleaseReceived, Release, Monus
    <2> QED
      BY Zenon, <1>19, <2>2 DEF ReleaseReceived, sendVars, ncclVars, creditVars, listenVars
  <1>20. CASE DrainReceived
    BY SMTT(60), Z3T(60), <1>20 DEF DrainReceived, sendVars, ncclVars, creditVars, listenVars
  <1>21. ASSUME NEW S \in SUBSET Rid, SetExpectedRequests(S) PROVE TypeOK'
    BY Zenon, <1>21 DEF SetExpectedRequests, sendVars, ncclVars, creditVars, listenVars
  <1>22. CASE UNCHANGED vars
    BY Zenon, <1>22 DEF vars, sendVars, ncclVars, creditVars, listenVars
  <1> QED
    BY Zenon, <1>1, <1>2, <1>3, <1>4, <1>5, <1>6, <1>7, <1>8, <1>9, <1>10, <1>11, <1>12, <1>13, <1>14, <1>15, <1>16, <1>17, <1>18, <1>19, <1>20, <1>21, <1>22
    DEF Next, ProducerThreads, ConsumerThreads, ConsumerFaults, Clients

\* Every step keeps the handshake.
LEMMA HandshakeStep ==
    ASSUME TypeOK, Handshake, [Next]_vars
    PROVE  Handshake'
  <1> USE PayloadAssumption DEF TypeOK, Handshake
  <1>1. CASE SendPop
    BY Zenon, <1>1, HeadTailRange DEF SendPop, sendVars, ncclVars, creditVars, listenVars
  <1>2. CASE SendRetry
    BY Zenon, <1>2 DEF SendRetry, sendVars, ncclVars, creditVars, listenVars
  <1>3. CASE SendRetire
    BY Zenon, <1>3 DEF SendRetire, FinishSendItem, sendVars, ncclVars, creditVars, listenVars
  <1>4. CASE SendPost
    BY Zenon, <1>4 DEF SendPost, sendVars, ncclVars, creditVars, listenVars
  <1>5. CASE SendComplete
    BY Zenon, <1>5 DEF SendComplete, FinishSendItem, sendVars, ncclVars, creditVars, listenVars
  <1>6. CASE NcclTransfer
    BY Zenon, <1>6, HeadTailRange DEF NcclTransfer, sendVars, ncclVars, creditVars, listenVars
  <1>7. CASE ListenInit
    BY Zenon, <1>7 DEF ListenInit, sendVars, ncclVars, creditVars, listenVars
  <1>8. CASE ListenPutBeforeInit
    BY Zenon, <1>8 DEF ListenPutBeforeInit, MarkFailed, sendVars, ncclVars, creditVars, listenVars
  <1>9. CASE ListenPutRetry
    BY Zenon, <1>9 DEF ListenPutRetry, sendVars, ncclVars, creditVars, listenVars
  <1>10. CASE ListenPutReserve
    BY Zenon, <1>10 DEF ListenPutReserve, Reserve, sendVars, ncclVars, creditVars, listenVars
  <1>11. CASE ListenAck
    BY Zenon, <1>11 DEF ListenAck, sendVars, ncclVars, creditVars, listenVars
  <1>12. CASE ListenPost
    BY Zenon, <1>12 DEF ListenPost, sendVars, ncclVars, creditVars, listenVars
  <1>13. CASE RecvComplete
    BY Zenon, <1>13 DEF RecvComplete, RecvDone, sendVars, ncclVars, creditVars, listenVars
  <1>14. CASE ListenOom
    BY Zenon, <1>14 DEF ListenOom, Release, MarkFailed, Monus, sendVars, ncclVars, creditVars, listenVars
  <1>15. CASE ListenError
    BY Zenon, <1>15 DEF ListenError, sendVars, ncclVars, creditVars, listenVars
  <1>16. CASE RecvError
    BY Zenon, <1>16 DEF RecvError, RecvDone, Release, MarkFailed, Monus, sendVars, ncclVars, creditVars, listenVars
  <1>17. CASE ConsumerRestart
    BY Zenon, <1>17 DEF ConsumerRestart, sendVars, ncclVars, creditVars, listenVars
  <1>18. ASSUME NEW p \in Payload, Send(p) PROVE Handshake'
    BY Zenon, <1>18 DEF Send, sendVars, ncclVars, creditVars, listenVars
  <1>19. ASSUME NEW p \in Payload, ReleaseReceived(p) PROVE Handshake'
    BY Zenon, <1>19 DEF ReleaseReceived, Release, Monus, sendVars, ncclVars, creditVars, listenVars
  <1>20. CASE DrainReceived
    BY Zenon, <1>20 DEF DrainReceived, sendVars, ncclVars, creditVars, listenVars
  <1>21. ASSUME NEW S \in SUBSET Rid, SetExpectedRequests(S) PROVE Handshake'
    BY Zenon, <1>21 DEF SetExpectedRequests, sendVars, ncclVars, creditVars, listenVars
  <1>22. CASE UNCHANGED vars
    BY ZenonT(60), <1>22 DEF vars, sendVars, ncclVars, creditVars, listenVars
  <1> QED
    BY Zenon, <1>1, <1>2, <1>3, <1>4, <1>5, <1>6, <1>7, <1>8, <1>9, <1>10, <1>11, <1>12, <1>13, <1>14, <1>15, <1>16, <1>17, <1>18, <1>19, <1>20, <1>21, <1>22
    DEF Next, ProducerThreads, ConsumerThreads, ConsumerFaults, Clients

\* Every step keeps the two streams aligned: an acknowledgement adds its
\* payload to both sides at once, posting moves it, a transfer takes the
\* same head off both.
LEMMA AlignedStep ==
    ASSUME TypeOK, Handshake, Aligned, [Next]_vars
    PROVE  Aligned'
  <1> USE PayloadAssumption DEF TypeOK, Handshake, Aligned
  <1>1. CASE SendPop
    BY Zenon, <1>1 DEF SendPop, sendVars, ncclVars, creditVars, listenVars
  <1>2. CASE SendRetry
    BY Zenon, <1>2 DEF SendRetry, sendVars, ncclVars, creditVars, listenVars
  <1>3. CASE SendRetire
    BY Zenon, <1>3 DEF SendRetire, FinishSendItem, sendVars, ncclVars, creditVars, listenVars
  <1>4. CASE SendPost
    BY Zenon, <1>4 DEF SendPost, sendVars, ncclVars, creditVars, listenVars
  <1>5. CASE SendComplete
    BY Zenon, <1>5 DEF SendComplete, FinishSendItem, sendVars, ncclVars, creditVars, listenVars
  <1>6. CASE NcclTransfer
    <2>1. comm # "lost"
      BY Zenon, <1>6 DEF NcclTransfer
    <2>2. ASSUME NEW e \in Payload
          PROVE  /\ Tail(Append(sendStream, e)) = Append(Tail(sendStream), e)
                 /\ Tail(Append(recvStream, e)) = Append(Tail(recvStream), e)
      <3>1. /\ sendStream \in Seq(Payload) /\ sendStream # <<>>
            /\ recvStream \in Seq(Payload) /\ recvStream # <<>>
        BY Zenon, <1>6 DEF NcclTransfer
      <3> QED
        BY ONLY <3>1, e \in Payload, AppendHeadTail
    <2> DEFINE sent == ack = "OK" /\ sendCur \notin Unsupported
               posting == listenPc = "acked" /\ listenCur \notin Unsupported
    <2>3. sent => sendCur \in Payload
      OBVIOUS
    <2>4. posting => listenCur \in Payload
      OBVIOUS
    <2>5. (IF sent THEN Append(Tail(sendStream), sendCur) ELSE Tail(sendStream))
          = (IF posting THEN Append(Tail(recvStream), listenCur) ELSE Tail(recvStream))
      BY Zenon, <2>1, <2>2, <2>3, <2>4
    <2> QED
      BY Zenon, <1>6, <2>5 DEF NcclTransfer, sendVars, ncclVars, creditVars, listenVars
  <1>7. CASE ListenInit
    BY Zenon, <1>7 DEF ListenInit, sendVars, ncclVars, creditVars, listenVars
  <1>8. CASE ListenPutBeforeInit
    BY Zenon, <1>8 DEF ListenPutBeforeInit, MarkFailed, sendVars, ncclVars, creditVars, listenVars
  <1>9. CASE ListenPutRetry
    BY Zenon, <1>9 DEF ListenPutRetry, sendVars, ncclVars, creditVars, listenVars
  <1>10. CASE ListenPutReserve
    BY Zenon, <1>10 DEF ListenPutReserve, Reserve, sendVars, ncclVars, creditVars, listenVars
  <1>11. CASE ListenAck
    BY Zenon, <1>11 DEF ListenAck, sendVars, ncclVars, creditVars, listenVars
  <1>12. CASE ListenPost
    BY Zenon, <1>12 DEF ListenPost, sendVars, ncclVars, creditVars, listenVars
  <1>13. CASE RecvComplete
    BY Zenon, <1>13 DEF RecvComplete, RecvDone, sendVars, ncclVars, creditVars, listenVars
  <1>14. CASE ListenOom
    BY Zenon, <1>14 DEF ListenOom, Release, MarkFailed, Monus, sendVars, ncclVars, creditVars, listenVars
  <1>15. CASE ListenError
    BY Zenon, <1>15 DEF ListenError, sendVars, ncclVars, creditVars, listenVars
  <1>16. CASE RecvError
    BY Zenon, <1>16 DEF RecvError, RecvDone, Release, MarkFailed, Monus, sendVars, ncclVars, creditVars, listenVars
  <1>17. CASE ConsumerRestart
    BY Zenon, <1>17 DEF ConsumerRestart, sendVars, ncclVars, creditVars, listenVars
  <1>18. ASSUME NEW p \in Payload, Send(p) PROVE Aligned'
    BY Zenon, <1>18 DEF Send, sendVars, ncclVars, creditVars, listenVars
  <1>19. ASSUME NEW p \in Payload, ReleaseReceived(p) PROVE Aligned'
    BY Zenon, <1>19 DEF ReleaseReceived, Release, Monus, sendVars, ncclVars, creditVars, listenVars
  <1>20. CASE DrainReceived
    BY Zenon, <1>20 DEF DrainReceived, sendVars, ncclVars, creditVars, listenVars
  <1>21. ASSUME NEW S \in SUBSET Rid, SetExpectedRequests(S) PROVE Aligned'
    BY Zenon, <1>21 DEF SetExpectedRequests, sendVars, ncclVars, creditVars, listenVars
  <1>22. CASE UNCHANGED vars
    BY ZenonT(60), <1>22 DEF vars, sendVars, ncclVars, creditVars, listenVars
  <1> QED
    BY Zenon, <1>1, <1>2, <1>3, <1>4, <1>5, <1>6, <1>7, <1>8, <1>9, <1>10, <1>11, <1>12, <1>13, <1>14, <1>15, <1>16, <1>17, <1>18, <1>19, <1>20, <1>21, <1>22
    DEF Next, ProducerThreads, ConsumerThreads, ConsumerFaults, Clients

\* Every step keeps received data in its own buffer.
LEMMA LandedStep ==
    ASSUME TypeOK, Handshake, Aligned, Landed, [Next]_vars
    PROVE  Landed'
  <1> USE PayloadAssumption DEF TypeOK, Landed, PublishedIntact, Delivered, Published
  <1>1. CASE SendPop
    BY Zenon, <1>1 DEF SendPop, sendVars, ncclVars, creditVars, listenVars
  <1>2. CASE SendRetry
    BY Zenon, <1>2 DEF SendRetry, sendVars, ncclVars, creditVars, listenVars
  <1>3. CASE SendRetire
    BY Zenon, <1>3 DEF SendRetire, FinishSendItem, sendVars, ncclVars, creditVars, listenVars
  <1>4. CASE SendPost
    BY Zenon, <1>4 DEF SendPost, sendVars, ncclVars, creditVars, listenVars
  <1>5. CASE SendComplete
    BY Zenon, <1>5 DEF SendComplete, FinishSendItem, sendVars, ncclVars, creditVars, listenVars
  <1>6. CASE NcclTransfer
    <2> DEFINE h == Head(recvStream)
    <2>1. comm # "lost" /\ h \in Payload /\ Range(recvStream) = {h} \cup Range(Tail(recvStream))
      BY Zenon, <1>6, HeadTailRange DEF NcclTransfer, Handshake
    <2>2. Head(sendStream) = h
      <3>1. ASSUME NEW e \in Payload
            PROVE  /\ Head(Append(sendStream, e)) = Head(sendStream)
                   /\ Head(Append(recvStream, e)) = Head(recvStream)
        <4>1. /\ sendStream \in Seq(Payload) /\ sendStream # <<>>
              /\ recvStream \in Seq(Payload) /\ recvStream # <<>>
          BY Zenon, <1>6 DEF NcclTransfer
        <4> QED
          BY ONLY <4>1, e \in Payload, AppendHeadTail
      <3>2. ack = "OK" => sendCur \in Payload
        BY Zenon DEF Handshake
      <3>3. listenPc = "acked" => listenCur \in Payload
        BY Zenon DEF Handshake
      <3> DEFINE lhs == IF ack = "OK" /\ sendCur \notin Unsupported
                          THEN Append(sendStream, sendCur) ELSE sendStream
                 rhs == IF listenPc = "acked" /\ listenCur \notin Unsupported
                          THEN Append(recvStream, listenCur) ELSE recvStream
      <3>4. lhs = rhs
        BY Zenon, <2>1 DEF Aligned
      <3>5. Head(lhs) = Head(sendStream)
        BY Zenon, <3>1, <3>2
      <3>6. Head(rhs) = h
        BY Zenon, <3>1, <3>3
      <3> HIDE DEF lhs, rhs
      <3> QED
        BY ONLY <3>4, <3>5, <3>6 DEF h
    <2>3. landed' = [landed EXCEPT ![h] = h]
      BY Zenon, <1>6, <2>2 DEF NcclTransfer
    <2>4. \A p \in Payload : landed'[p] = IF p = h THEN h ELSE landed[p]
      BY Zenon, <2>1, <2>3
    <2>5. \A p \in Range(recvCompletions) : p \in Payload
      BY Zenon, SeqElements
    <2> HIDE DEF h
    <2>6. \A p \in Range(recvCompletions)' : p \in Range(recvStream)' \/ landed'[p] = p
      BY Zenon, <1>6, <2>1, <2>4, <2>5 DEF NcclTransfer, h
    <2> QED
      BY ZenonT(60), <1>6, <2>4, <2>6 DEF NcclTransfer, sendVars, ncclVars, creditVars, listenVars
  <1>7. CASE ListenInit
    BY Zenon, <1>7 DEF ListenInit, sendVars, ncclVars, creditVars, listenVars
  <1>8. CASE ListenPutBeforeInit
    <2>1. putMsg \in Payload /\ RidOf[putMsg] \in Rid
      BY Zenon, <1>8 DEF ListenPutBeforeInit
    <2>2. /\ received' = [received EXCEPT ![RidOf[putMsg]] = Append(@, Failed)]
          /\ held' = held
      BY Zenon, <1>8 DEF ListenPutBeforeInit, MarkFailed
    <2>3. Delivered' \subseteq (Delivered \cup {Failed}) \cap Payload
      BY ONLY Zenon, TypeOK, <2>1, <2>2, PublishEffect
    <2>4. \A p \in Delivered' : p \in Delivered
      BY ONLY <2>3, Failed \notin Payload
    <2> QED
      BY Zenon, <1>8, <2>4 DEF ListenPutBeforeInit, sendVars, ncclVars, creditVars, listenVars
  <1>9. CASE ListenPutRetry
    BY Zenon, <1>9 DEF ListenPutRetry, sendVars, ncclVars, creditVars, listenVars
  <1>10. CASE ListenPutReserve
    BY Zenon, <1>10 DEF ListenPutReserve, Reserve, sendVars, ncclVars, creditVars, listenVars
  <1>11. CASE ListenAck
    BY Zenon, <1>11 DEF ListenAck, sendVars, ncclVars, creditVars, listenVars
  <1>12. CASE ListenPost
    <2>1. listenCur \in Payload
      BY Zenon, <1>12 DEF ListenPost, Handshake
    <2>2. /\ Range(recvStream') = Range(recvStream) \cup {listenCur}
          /\ Range(recvCompletions') = Range(recvCompletions) \cup {listenCur}
      BY SMTT(60), Z3T(60), <1>12, <2>1, AppendRange DEF ListenPost
    <2> QED
      BY Zenon, <1>12, <2>2 DEF ListenPost, sendVars, ncclVars, creditVars, listenVars
  <1>13. CASE RecvComplete
    <2> DEFINE h == Head(recvCompletions)
    <2>1. /\ h \in Payload /\ RidOf[h] \in Rid
          /\ Range(recvCompletions) = {h} \cup Range(recvCompletions')
      BY Zenon, <1>13, HeadTailRange DEF RecvComplete, RecvDone
    <2>2. landed[h] = h
      BY Zenon, <1>13, <2>1 DEF RecvComplete, RecvDone
    <2>3. received' = [received EXCEPT ![RidOf[h]] = Append(@, h)] /\ held' = held
      BY Zenon, <1>13 DEF RecvComplete
    <2> HIDE DEF h
    <2>4. Delivered' \subseteq (Delivered \cup {h}) \cap Payload
      BY ONLY Zenon, TypeOK, <2>1, <2>3, PublishEffect
    <2> QED
      BY Zenon, <1>13, <2>1, <2>2, <2>4 DEF RecvComplete, sendVars, ncclVars, creditVars, listenVars
  <1>14. CASE ListenOom
    <2>1. listenCur \in Payload /\ RidOf[listenCur] \in Rid
      BY Zenon, <1>14 DEF ListenOom, Handshake
    <2>2. /\ received' = [received EXCEPT ![RidOf[listenCur]] = Append(@, Failed)]
          /\ held' = held
      BY Zenon, <1>14 DEF ListenOom, MarkFailed
    <2>3. Delivered' \subseteq (Delivered \cup {Failed}) \cap Payload
      BY ONLY Zenon, TypeOK, <2>1, <2>2, PublishEffect
    <2>4. \A p \in Delivered' : p \in Delivered
      BY ONLY <2>3, Failed \notin Payload
    <2> QED
      BY Zenon, <1>14, <2>4 DEF ListenOom, sendVars, ncclVars, creditVars, listenVars
  <1>15. CASE ListenError
    BY Zenon, <1>15 DEF ListenError, sendVars, ncclVars, creditVars, listenVars
  <1>16. CASE RecvError
    <2> DEFINE h == Head(recvCompletions)
    <2>1. /\ h \in Payload /\ RidOf[h] \in Rid
          /\ Range(recvCompletions) = {h} \cup Range(recvCompletions')
      BY Zenon, <1>16, HeadTailRange DEF RecvError, RecvDone
    <2>2. received' = [received EXCEPT ![RidOf[h]] = Append(@, Failed)] /\ held' = held
      BY Zenon, <1>16 DEF RecvError, MarkFailed
    <2> HIDE DEF h
    <2>3. Delivered' \subseteq (Delivered \cup {Failed}) \cap Payload
      BY ONLY Zenon, TypeOK, <2>1, <2>2, PublishEffect
    <2>4. \A p \in Delivered' : p \in Delivered
      BY ONLY <2>3, Failed \notin Payload
    <2> QED
      BY Zenon, <1>16, <2>1, <2>4 DEF RecvError, sendVars, ncclVars, creditVars, listenVars
  <1>17. CASE ConsumerRestart
    <2>1. Range(<<>>) = {}
      BY SMTT(60), Z3T(60) DEF Range
    <2>2. Delivered' = {}
      BY Zenon, <1>17, <2>1 DEF ConsumerRestart
    <2> QED
      BY Zenon, <1>17, <2>1, <2>2 DEF ConsumerRestart, sendVars, ncclVars, creditVars, listenVars
  <1>18. ASSUME NEW p \in Payload, Send(p) PROVE Landed'
    BY Zenon, <1>18 DEF Send, sendVars, ncclVars, creditVars, listenVars
  <1>19. ASSUME NEW p \in Payload, ReleaseReceived(p) PROVE Landed'
    BY Zenon, <1>19 DEF ReleaseReceived, Release, Monus, sendVars, ncclVars, creditVars, listenVars
  <1>20. CASE DrainReceived
    <2>1. Range(<<>>) = {}
      BY SMTT(60), Z3T(60) DEF Range
    <2>2. Delivered' = Delivered
      BY Zenon, <1>20, <2>1 DEF DrainReceived
    <2> QED
      BY Zenon, <1>20, <2>2 DEF DrainReceived, sendVars, ncclVars, creditVars, listenVars
  <1>21. ASSUME NEW S \in SUBSET Rid, SetExpectedRequests(S) PROVE Landed'
    BY Zenon, <1>21 DEF SetExpectedRequests, sendVars, ncclVars, creditVars, listenVars
  <1>22. CASE UNCHANGED vars
    BY Zenon, <1>22 DEF vars, sendVars, ncclVars, creditVars, listenVars
  <1> QED
    BY Zenon, <1>1, <1>2, <1>3, <1>4, <1>5, <1>6, <1>7, <1>8, <1>9, <1>10, <1>11, <1>12, <1>13, <1>14, <1>15, <1>16, <1>17, <1>18, <1>19, <1>20, <1>21, <1>22
    DEF Next, ProducerThreads, ConsumerThreads, ConsumerFaults, Clients

\* Every step keeps the send bookkeeping.
LEMMA SendsTrackedStep ==
    ASSUME TypeOK, Handshake, SendsTracked, [Next]_vars
    PROVE  SendsTracked'
  <1> USE PayloadAssumption DEF TypeOK, Handshake, SendsTracked
  <1>1. CASE SendPop
    BY SMTT(60), Z3T(60), <1>1, HeadTailRange DEF SendPop, sendVars, ncclVars, creditVars, listenVars
  <1>2. CASE SendRetry
    BY SMTT(60), Z3T(60), <1>2 DEF SendRetry, sendVars, ncclVars, creditVars, listenVars
  <1>3. CASE SendRetire
    BY SMTT(60), Z3T(60), <1>3 DEF SendRetire, FinishSendItem, sendVars, ncclVars, creditVars, listenVars
  <1>4. CASE SendPost
    BY SMTT(60), Z3T(60), <1>4, AppendRange DEF SendPost, sendVars, ncclVars, creditVars, listenVars
  <1>5. CASE SendComplete
    BY SMTT(60), Z3T(60), <1>5, HeadTailRange DEF SendComplete, FinishSendItem, sendVars, ncclVars, creditVars, listenVars
  <1>6. CASE NcclTransfer
    BY Zenon, <1>6, HeadTailRange DEF NcclTransfer, sendVars, ncclVars, creditVars, listenVars
  <1>7. CASE ListenInit
    BY Zenon, <1>7 DEF ListenInit, sendVars, ncclVars, creditVars, listenVars
  <1>8. CASE ListenPutBeforeInit
    BY Zenon, <1>8 DEF ListenPutBeforeInit, MarkFailed, sendVars, ncclVars, creditVars, listenVars
  <1>9. CASE ListenPutRetry
    BY Zenon, <1>9 DEF ListenPutRetry, sendVars, ncclVars, creditVars, listenVars
  <1>10. CASE ListenPutReserve
    BY Zenon, <1>10 DEF ListenPutReserve, Reserve, sendVars, ncclVars, creditVars, listenVars
  <1>11. CASE ListenAck
    BY Zenon, <1>11 DEF ListenAck, sendVars, ncclVars, creditVars, listenVars
  <1>12. CASE ListenPost
    BY Zenon, <1>12 DEF ListenPost, sendVars, ncclVars, creditVars, listenVars
  <1>13. CASE RecvComplete
    BY Zenon, <1>13 DEF RecvComplete, RecvDone, sendVars, ncclVars, creditVars, listenVars
  <1>14. CASE ListenOom
    BY Zenon, <1>14 DEF ListenOom, Release, MarkFailed, Monus, sendVars, ncclVars, creditVars, listenVars
  <1>15. CASE ListenError
    BY Zenon, <1>15 DEF ListenError, sendVars, ncclVars, creditVars, listenVars
  <1>16. CASE RecvError
    BY Zenon, <1>16 DEF RecvError, RecvDone, Release, MarkFailed, Monus, sendVars, ncclVars, creditVars, listenVars
  <1>17. CASE ConsumerRestart
    BY Zenon, <1>17 DEF ConsumerRestart, sendVars, ncclVars, creditVars, listenVars
  <1>18. ASSUME NEW p \in Payload, Send(p) PROVE SendsTracked'
    BY Zenon, <1>18 DEF Send, sendVars, ncclVars, creditVars, listenVars
  <1>19. ASSUME NEW p \in Payload, ReleaseReceived(p) PROVE SendsTracked'
    BY Zenon, <1>19 DEF ReleaseReceived, Release, Monus, sendVars, ncclVars, creditVars, listenVars
  <1>20. CASE DrainReceived
    BY Zenon, <1>20 DEF DrainReceived, sendVars, ncclVars, creditVars, listenVars
  <1>21. ASSUME NEW S \in SUBSET Rid, SetExpectedRequests(S) PROVE SendsTracked'
    BY Zenon, <1>21 DEF SetExpectedRequests, sendVars, ncclVars, creditVars, listenVars
  <1>22. CASE UNCHANGED vars
    BY Zenon, <1>22 DEF vars, sendVars, ncclVars, creditVars, listenVars
  <1> QED
    BY Zenon, <1>1, <1>2, <1>3, <1>4, <1>5, <1>6, <1>7, <1>8, <1>9, <1>10, <1>11, <1>12, <1>13, <1>14, <1>15, <1>16, <1>17, <1>18, <1>19, <1>20, <1>21, <1>22
    DEF Next, ProducerThreads, ConsumerThreads, ConsumerFaults, Clients

\* Giving credit back keeps the overflow marked.
LEMMA ReleaseMarked ==
    ASSUME UniformSizes, TypeOK, OverflowMarked, NEW q \in Payload, Release(q)
    PROVE  OverflowMarked'
  <1>1. /\ reserved' \in Nat /\ reserved \in Nat /\ reserved' <= reserved
        /\ reserved' = 0 \/ reserved' = reserved - Bytes[q]
        /\ priority' = (IF priority = RidOf[q] THEN None ELSE priority)
    BY Zenon, ReleaseEffect DEF TypeOK
  <1>2. \A p \in Payload : Bytes[p] \in Nat
    BY SMTT(60), Z3T(60), BytesAssumption
  <1>3. Budget \in Nat
    BY Zenon, BytesAssumption, CapacityAssumption DEF Budget
  <1>4. CASE priority = RidOf[q]
    <2>1. priority' = None /\ reserved - Bytes[q] <= Budget
      BY Zenon, <1>1, <1>4 DEF OverflowMarked
    <2>2. reserved' <= Budget
      BY SMTT(60), Z3T(60), <1>1, <1>2, <1>3, <2>1
    <2>3. \A p \in Payload : RidOf[p] # None
      BY Zenon, PayloadAssumption
    <2> QED
      BY Zenon, <2>1, <2>2, <2>3 DEF OverflowMarked, Budget
  <1>5. CASE priority # RidOf[q]
    <2>1. priority' = priority
      BY Zenon, <1>1, <1>5
    <2>2. priority = None => reserved' <= Budget
      BY SMTT(60), Z3T(60), <1>1, <1>3 DEF OverflowMarked
    <2>3. \A p \in Payload : priority = RidOf[p] => reserved' - Bytes[p] <= Budget
      <3> SUFFICES ASSUME NEW p \in Payload, priority = RidOf[p]
                   PROVE  reserved' - Bytes[p] <= Budget
        OBVIOUS
      <3>1. reserved - Bytes[p] <= Budget
        BY ZenonT(60) DEF OverflowMarked
      <3> QED
        BY SMTT(60), Z3T(60), <1>1, <1>2, <1>3, <3>1
    <2> QED
      BY Zenon, <2>1, <2>2, <2>3 DEF OverflowMarked, Budget
  <1> QED
    BY Zenon, <1>4, <1>5

\* Every step keeps the overflow marked, when the payloads of a key have one
\* size: only a payload of the marked key clears the mark, and releasing it
\* gives back as much as the overflow took.
LEMMA OverflowStep ==
    ASSUME UniformSizes, TypeOK, Handshake, OverflowMarked, [Next]_vars
    PROVE  OverflowMarked'
  <1> USE PayloadAssumption, BytesAssumption, CapacityAssumption DEF TypeOK, Handshake, OverflowMarked, Budget
  <1>1. CASE SendPop
    BY Zenon, <1>1 DEF SendPop, sendVars, ncclVars, creditVars, listenVars
  <1>2. CASE SendRetry
    BY Zenon, <1>2 DEF SendRetry, sendVars, ncclVars, creditVars, listenVars
  <1>3. CASE SendRetire
    BY Zenon, <1>3 DEF SendRetire, FinishSendItem, sendVars, ncclVars, creditVars, listenVars
  <1>4. CASE SendPost
    BY Zenon, <1>4 DEF SendPost, sendVars, ncclVars, creditVars, listenVars
  <1>5. CASE SendComplete
    BY Zenon, <1>5 DEF SendComplete, FinishSendItem, sendVars, ncclVars, creditVars, listenVars
  <1>6. CASE NcclTransfer
    BY Zenon, <1>6 DEF NcclTransfer, sendVars, ncclVars, creditVars, listenVars
  <1>7. CASE ListenInit
    BY Zenon, <1>7 DEF ListenInit, sendVars, ncclVars, creditVars, listenVars
  <1>8. CASE ListenPutBeforeInit
    BY Zenon, <1>8 DEF ListenPutBeforeInit, MarkFailed, sendVars, ncclVars, creditVars, listenVars
  <1>9. CASE ListenPutRetry
    BY Zenon, <1>9 DEF ListenPutRetry, sendVars, ncclVars, creditVars, listenVars
  <1>10. CASE ListenPutReserve
    <2>1. putMsg \in Payload /\ Reserve(putMsg)
      BY Zenon, <1>10 DEF ListenPutReserve
    <2>2. Bytes[putMsg] \in 1..MaxBytes /\ RidOf[putMsg] \in Rid
      BY Zenon, <2>1
    <2>3. CASE Blocked(putMsg)
      <3>1. priority = None /\ priority' = RidOf[putMsg] /\ reserved' = reserved + Bytes[putMsg]
        BY Zenon, <2>1, <2>3 DEF Reserve, MayOverflow
      <3>2. \A p \in Payload : RidOf[p] = RidOf[putMsg] => Bytes[p] = Bytes[putMsg]
        BY Zenon, <2>1 DEF UniformSizes
      <3> QED
        BY SMTT(60), Z3T(60), <2>1, <2>2, <3>1, <3>2
    <2>4. CASE ~ Blocked(putMsg)
      <3>1. priority' = priority /\ reserved' = reserved + Bytes[putMsg]
        BY Zenon, <2>1, <2>4 DEF Reserve
      <3>2. reserved' <= Budget
        BY SMTT(60), Z3T(60), <2>2, <2>4, <3>1 DEF Blocked
      <3>a. \A p \in Payload : Bytes[p] \in Nat
        BY ONLY SMTT(60), BytesAssumption
      <3>b. reserved \in Nat
        OBVIOUS
      <3>c. reserved' \in Nat
        BY ONLY SMTT(60), <3>a, <3>b, <2>1, <3>1
      <3>d. Budget \in Nat
        BY ONLY BytesAssumption, CapacityAssumption DEF Budget
      <3>3. /\ Budget \in Nat /\ reserved' \in Nat
            /\ \A p \in Payload : Bytes[p] \in Nat
        BY ONLY SMTT(60), <3>a, <3>c, <3>d
      <3>4. \A p \in Payload : reserved' - Bytes[p] <= Budget
        BY ONLY SMTT(60), <3>2, <3>3
      <3> QED
        BY Zenon, <3>1, <3>2, <3>4
    <2> QED
      BY Zenon, <2>3, <2>4
  <1>11. CASE ListenAck
    BY Zenon, <1>11 DEF ListenAck, sendVars, ncclVars, creditVars, listenVars
  <1>12. CASE ListenPost
    BY Zenon, <1>12 DEF ListenPost, sendVars, ncclVars, creditVars, listenVars
  <1>13. CASE RecvComplete
    BY Zenon, <1>13 DEF RecvComplete, RecvDone, sendVars, ncclVars, creditVars, listenVars
  <1>14. CASE ListenOom
    <2>1. listenCur \in Payload /\ Release(listenCur)
      BY Zenon, <1>14 DEF ListenOom
    <2> QED
      BY Zenon, <2>1, ReleaseMarked
  <1>15. CASE ListenError
    BY Zenon, <1>15 DEF ListenError, sendVars, ncclVars, creditVars, listenVars
  <1>16. CASE RecvError
    <2>1. Head(recvCompletions) \in Payload /\ Release(Head(recvCompletions))
      BY Zenon, <1>16, HeadTailRange DEF RecvError, RecvDone
    <2> QED
      BY Zenon, <2>1, ReleaseMarked
  <1>17. CASE ConsumerRestart
    BY SMTT(60), Z3T(60), <1>17 DEF ConsumerRestart, sendVars, ncclVars, creditVars, listenVars
  <1>18. ASSUME NEW p \in Payload, Send(p) PROVE OverflowMarked'
    BY Zenon, <1>18 DEF Send, sendVars, ncclVars, creditVars, listenVars
  <1>19. ASSUME NEW p \in Payload, ReleaseReceived(p) PROVE OverflowMarked'
    <2>1. Release(p)
      BY Zenon, <1>19 DEF ReleaseReceived
    <2> QED
      BY Zenon, <2>1, ReleaseMarked
  <1>20. CASE DrainReceived
    BY Zenon, <1>20 DEF DrainReceived, sendVars, ncclVars, creditVars, listenVars
  <1>21. ASSUME NEW S \in SUBSET Rid, SetExpectedRequests(S) PROVE OverflowMarked'
    BY Zenon, <1>21 DEF SetExpectedRequests, sendVars, ncclVars, creditVars, listenVars
  <1>22. CASE UNCHANGED vars
    BY Zenon, <1>22 DEF vars, sendVars, ncclVars, creditVars, listenVars
  <1> QED
    BY Zenon, <1>1, <1>2, <1>3, <1>4, <1>5, <1>6, <1>7, <1>8, <1>9, <1>10, <1>11, <1>12, <1>13, <1>14, <1>15, <1>16, <1>17, <1>18, <1>19, <1>20, <1>21, <1>22
    DEF Next, ProducerThreads, ConsumerThreads, ConsumerFaults, Clients

-----------------------------------------------------------------------------
\* The initial state satisfies the inductive invariant.
LEMMA InitInv == Init => TransportInv
  <1>1. Range(<<>>) = {}
    BY SMTT(60), Z3T(60) DEF Range
  <1> QED
    BY SMTT(60), Z3T(60), <1>1, PayloadAssumption
    DEF Init, TransportInv, TypeOK, Handshake, Aligned, Landed, PublishedIntact,
        Delivered, Published, SendsTracked

\* TransportInv is an invariant of the transport: types, the one-PUT-at-a-time
\* handshake, the alignment of the two NCCL streams, the contents of the
\* receive buffers and the send bookkeeping.
THEOREM TransportInvariant == Spec => []TransportInv
  <1>1. TransportInv /\ [Next]_vars => TransportInv'
    BY Zenon, TypeStep, HandshakeStep, AlignedStep, LandedStep, SendsTrackedStep
    DEF TransportInv
  <1> QED
    BY InitInv, <1>1, PTL DEF Spec

\* Type correctness of the endpoints' state.
THEOREM TypeCorrect == Spec => []TypeOK
  <1>1. TransportInv => TypeOK
    BY Zenon DEF TransportInv
  <1> QED
    BY <1>1, TransportInvariant, PTL

\* Whatever the consumer's worker can read was received into its own buffer,
\* although the acknowledgement is sent before the receive is posted and both
\* ends post from threads of their own (_listen_loop, _send_one).
THEOREM DataIntegrity == Spec => []PublishedIntact
  <1>1. TransportInv => PublishedIntact
    BY Zenon DEF TransportInv, Landed
  <1> QED
    BY <1>1, TransportInvariant, PTL

\* When the condition wait_for_sent waits for holds, nothing is on the wire or
\* on the send stream.
THEOREM SentMeansDrained == Spec => []WaitForSentDrained
  <1>1. TransportInv => WaitForSentDrained
    <2> SUFFICES ASSUME TransportInv, sendQueue = <<>>, sendInflight = 0
                 PROVE  sendStream = <<>> /\ putMsg = None /\ ack = None
      BY Zenon DEF WaitForSentDrained
    <2>1. Len(sendCompletions) \in Nat
      BY Zenon, SeqElements DEF TransportInv, TypeOK
    <2>2. Len(sendCompletions) = 0 /\ sendCur = None
      BY SMTT(60), Z3T(60), <2>1 DEF TransportInv, SendsTracked
    <2>3. sendCompletions = <<>>
      BY SMTT(60), Z3T(60), <2>2, SeqElements DEF TransportInv, TypeOK
    <2>4. Range(sendStream) = {}
      BY SMTT(60), Z3T(60), <2>3 DEF TransportInv, SendsTracked, Range
    <2>5. sendStream = <<>>
      <3>1. sendStream \in Seq(Payload)
        BY Zenon DEF TransportInv, TypeOK
      <3>2. ASSUME sendStream # <<>> PROVE FALSE
        <4>1. Range(sendStream) = {Head(sendStream)} \cup Range(Tail(sendStream))
          BY ONLY <3>1, <3>2, HeadTailRange
        <4> QED
          BY ONLY <4>1, <2>4
      <3> QED
        BY Zenon, <3>2
    <2> QED
      BY Zenon, <2>2, <2>5 DEF TransportInv, Handshake
  <1> QED
    BY <1>1, TransportInvariant, PTL

\* The receiver's staging never exceeds the budget (or one oversized payload)
\* by more than one payload (_reserve_received, release_received), when the
\* payloads of a key have one size.
THEOREM StagingBounded ==
    ASSUME UniformSizes
    PROVE  Spec => []OverflowBounded
  <1> DEFINE I == TransportInv /\ OverflowMarked
  <1>1. Init => I
    BY SMTT(60), Z3T(60), InitInv, PayloadAssumption, BytesAssumption, CapacityAssumption
    DEF Init, OverflowMarked, Budget
  <1>2. I /\ [Next]_vars => I'
    <2>1. TransportInv /\ [Next]_vars => TransportInv'
      BY Zenon, TypeStep, HandshakeStep, AlignedStep, LandedStep, SendsTrackedStep
      DEF TransportInv
    <2>2. I /\ [Next]_vars => OverflowMarked'
      BY Zenon, OverflowStep DEF TransportInv
    <2> QED
      BY Zenon, <2>1, <2>2
  <1>3. I => OverflowBounded
    <2> SUFFICES ASSUME I PROVE reserved <= Budget + MaxBytes
      BY Zenon DEF OverflowBounded
    <2>1. /\ reserved \in Nat
          /\ Budget \in Nat /\ MaxBytes \in Nat
          /\ \A p \in Payload : Bytes[p] \in 1..MaxBytes
      BY Zenon, BytesAssumption, CapacityAssumption DEF TransportInv, TypeOK, Budget
    <2>2. CASE priority = None
      <3>1. reserved <= Budget
        BY Zenon, <2>2 DEF OverflowMarked
      <3> QED
        BY ONLY <2>1, <3>1
    <2>3. CASE priority # None
      <3>1. PICK p \in Payload : priority = RidOf[p]
        BY Zenon, <2>3 DEF OverflowMarked
      <3>2. reserved - Bytes[p] <= Budget /\ Bytes[p] \in 1..MaxBytes
        BY Zenon, <3>1, <2>1 DEF OverflowMarked
      <3> QED
        BY ONLY <2>1, <3>2
    <2> QED
      BY Zenon, <2>2, <2>3
  <1> QED
    BY <1>1, <1>2, <1>3, PTL DEF Spec

-----------------------------------------------------------------------------
\* Queues that hold no payload twice

\* A queue whose payloads are distinct keeps them so when a new one is added.
LEMMA NoRepeatAppend ==
    ASSUME NEW S, NEW q \in Seq(S), NEW e \in S, NoRepeat(q),
           e = Failed \/ e \notin Range(q)
    PROVE  NoRepeat(Append(q, e))
  <1>1. /\ Len(q) \in Nat /\ DOMAIN q = 1..Len(q)
        /\ DOMAIN Append(q, e) = 1..(Len(q) + 1)
        /\ \A i \in 1..Len(q) : Append(q, e)[i] = q[i]
        /\ Append(q, e)[Len(q) + 1] = e
    BY SMTT(60), Z3T(60)
  <1>2. \A i \in 1..(Len(q) + 1) : i \in 1..Len(q) \/ i = Len(q) + 1
    BY ONLY SMTT(60), <1>1
  <1>3. \A i \in 1..Len(q) : q[i] \in Range(q)
    BY Zenon, <1>1 DEF Range
  <1> QED
    BY <1>1, <1>2, <1>3 DEF NoRepeat

\* The head of such a queue is not met again.
LEMMA NoRepeatTail ==
    ASSUME NEW S, NEW q \in Seq(S), q # <<>>, NoRepeat(q)
    PROVE  /\ NoRepeat(Tail(q))
           /\ Head(q) = Failed \/ Head(q) \notin Range(Tail(q))
  <1>1. /\ Len(q) \in Nat \ {0} /\ DOMAIN q = 1..Len(q)
        /\ DOMAIN Tail(q) = 1..(Len(q) - 1)
        /\ \A i \in 1..(Len(q) - 1) : Tail(q)[i] = q[i + 1]
        /\ Head(q) = q[1]
    BY SMTT(60), Z3T(60)
  <1>2. /\ \A i \in 1..(Len(q) - 1) : i + 1 \in 1..Len(q) /\ i + 1 # 1
        /\ \A i, j \in 1..(Len(q) - 1) : i + 1 = j + 1 => i = j
        /\ 1 \in 1..Len(q)
    BY ONLY SMTT(60), <1>1
  <1>3. ASSUME NEW x \in Range(Tail(q)) PROVE \E i \in 1..(Len(q) - 1) : x = q[i + 1]
    BY Zenon, <1>1 DEF Range
  <1> QED
    BY <1>1, <1>2, <1>3 DEF NoRepeat

\* Two such queues without a common payload, one after the other
LEMMA NoRepeatConcat ==
    ASSUME NEW S, NEW q \in Seq(S), NEW r \in Seq(S)
    PROVE  /\ q \o r \in Seq(S)
           /\ Range(q \o r) = Range(q) \cup Range(r)
           /\ NoRepeat(q) /\ NoRepeat(r) /\ Range(q) \cap Range(r) \subseteq {Failed}
                => NoRepeat(q \o r)
  <1> DEFINE n == Len(q)
             m == Len(r)
             c == q \o r
  <1>1. n \in Nat /\ DOMAIN q = 1..n /\ m \in Nat /\ DOMAIN r = 1..m
    BY Zenon, SeqElements
  <1>2. /\ c \in Seq(S) /\ DOMAIN c = 1..(n + m)
        /\ \A i \in 1..n : c[i] = q[i]
        /\ \A i \in 1..m : c[n + i] = r[i]
    BY ConcatElements
  <1> HIDE DEF n, m, c
  <1>3. /\ \A i \in 1..n : i \in 1..(n + m)
        /\ \A i \in 1..m : n + i \in 1..(n + m)
    BY ONLY <1>1
  <1>4. ASSUME NEW i \in 1..(n + m) PROVE i \in 1..n \/ \E k \in 1..m : i = n + k
    <2>1. i \in 1..n \/ i - n \in 1..m
      BY ONLY <1>1, <1>4
    <2>2. i = n + (i - n)
      BY ONLY <1>1, <1>4
    <2> QED
      BY Zenon, <2>1, <2>2
  <1>5. Range(c) = Range(q) \cup Range(r)
    <2>1. ASSUME NEW x \in Range(c) PROVE x \in Range(q) \cup Range(r)
      <3>1. PICK i \in 1..(n + m) : x = c[i]
        BY Zenon, <1>2 DEF Range
      <3> QED
        BY Zenon, <3>1, <1>1, <1>2, <1>4 DEF Range
    <2>2. ASSUME NEW x \in Range(q) \cup Range(r) PROVE x \in Range(c)
      BY Zenon, <2>2, <1>1, <1>2, <1>3 DEF Range
    <2> QED
      BY Zenon, <2>1, <2>2
  <1>6. ASSUME NoRepeat(q), NoRepeat(r), Range(q) \cap Range(r) \subseteq {Failed},
               NEW i \in 1..(n + m), NEW j \in 1..(n + m), c[i] = c[j], c[i] # Failed
        PROVE  i = j
    <2>1. /\ \A k \in 1..n : q[k] \in Range(q)
          /\ \A k \in 1..m : r[k] \in Range(r)
      BY Zenon, <1>1 DEF Range
    <2>2. CASE i \in 1..n
      <3>1. j \in 1..n
        BY ZenonT(60), <2>1, <2>2, <1>2, <1>4, <1>6
      <3> QED
        BY Zenon, <3>1, <2>2, <1>1, <1>2, <1>6 DEF NoRepeat
    <2>3. CASE i \notin 1..n
      <3>1. PICK k \in 1..m : i = n + k
        BY Zenon, <2>3, <1>4
      <3>2. PICK l \in 1..m : j = n + l
        BY ZenonT(60), <3>1, <2>1, <1>2, <1>4, <1>6
      <3>3. k = l
        BY ZenonT(60), <3>1, <3>2, <1>1, <1>2, <1>6 DEF NoRepeat
      <3> QED
        BY Zenon, <3>1, <3>2, <3>3
    <2> QED
      BY Zenon, <2>2, <2>3
  <1> QED
    BY Zenon, <1>2, <1>5, <1>6 DEF NoRepeat, c

\* A retried item joins the queue and nothing else changes in it.
LEMMA InsertRetryRange ==
    ASSUME NEW q \in Seq(Payload), NEW p \in Payload, NoRepeat(q), p \notin Range(q)
    PROVE  /\ Range(InsertRetry(q, p)) = Range(q) \cup {p}
           /\ NoRepeat(InsertRetry(q, p))
  <1> DEFINE i == RetryIndex(q, p)
             a == SubSeq(q, 1, i - 1)
             b == SubSeq(q, i, Len(q))
  <1>1. i \in 1..(Len(q) + 1)
    BY Zenon, RetryIndexRange
  <1> HIDE DEF i
  <1>2. Len(q) \in Nat /\ DOMAIN q = 1..Len(q) /\ \A n \in 1..Len(q) : q[n] \in Payload
    BY SMTT(60), Z3T(60)
  <1>3. /\ a \in Seq(Payload) /\ DOMAIN a = 1..(i - 1)
        /\ \A n \in 1..(i - 1) : n \in 1..Len(q) /\ a[n] = q[n]
    BY SMTT(60), Z3T(60), <1>1, <1>2, SubSeqElements
  <1>4. /\ b \in Seq(Payload) /\ DOMAIN b = 1..(Len(q) - i + 1)
        /\ \A n \in 1..(Len(q) - i + 1) : b[n] = q[i + n - 1]
    BY SMTT(60), Z3T(60), <1>1, <1>2, SubSeqElements
  <1>5. /\ \A n \in 1..(Len(q) - i + 1) : i + n - 1 \in 1..Len(q) /\ i + n - 1 \notin 1..(i - 1)
        /\ \A n, m \in 1..(Len(q) - i + 1) : i + n - 1 = i + m - 1 => n = m
        /\ \A n \in 1..Len(q) : \/ n \in 1..(i - 1)
                                \/ (n - i) + 1 \in 1..(Len(q) - i + 1) /\ i + ((n - i) + 1) - 1 = n
    BY ONLY SMTT(60), <1>1, <1>2
  <1> HIDE DEF a, b
  <1>6. Range(q) = Range(a) \cup Range(b)
    <2>1. ASSUME NEW x \in Range(q) PROVE x \in Range(a) \cup Range(b)
      <3>1. PICK n \in 1..Len(q) : x = q[n]
        BY Zenon, <1>2 DEF Range
      <3>2. CASE n \in 1..(i - 1)
        BY Zenon, <3>1, <3>2, <1>3 DEF Range
      <3>3. CASE (n - i) + 1 \in 1..(Len(q) - i + 1) /\ i + ((n - i) + 1) - 1 = n
        <4>1. b[(n - i) + 1] = x
          BY Zenon, <3>1, <3>3, <1>4
        <4> QED
          BY Zenon, <3>3, <4>1, <1>4 DEF Range
      <3> QED
        BY Zenon, <3>2, <3>3, <1>5
    <2>2. ASSUME NEW x \in Range(a) PROVE x \in Range(q)
      BY Zenon, <1>2, <1>3 DEF Range
    <2>3. ASSUME NEW x \in Range(b) PROVE x \in Range(q)
      BY <1>2, <1>4, <1>5 DEF Range
    <2> QED
      BY Zenon, <2>1, <2>2, <2>3
  <1>7. NoRepeat(a) /\ NoRepeat(b)
    BY <1>2, <1>3, <1>4, <1>5 DEF NoRepeat
  <1>8. Range(a) \cap Range(b) \subseteq {Failed}
    <2> SUFFICES ASSUME NEW x \in Range(a), x \in Range(b), x # Failed PROVE FALSE
      BY Zenon
    <2>1. PICK n \in 1..(i - 1) : x = q[n] /\ n \in 1..Len(q)
      BY Zenon, <1>3 DEF Range
    <2>2. PICK m \in 1..(Len(q) - i + 1) : x = q[i + m - 1]
      BY Zenon, <1>4 DEF Range
    <2>3. i + m - 1 \in 1..Len(q) /\ i + m - 1 \notin 1..(i - 1)
      BY Zenon, <1>5
    <2>4. n = i + m - 1
      BY Zenon, <2>1, <2>2, <2>3, <1>2 DEF NoRepeat
    <2> QED
      BY Zenon, <2>3, <2>4
  <1> DEFINE one == <<p>>
  <1>9. one \in Seq(Payload) /\ Range(one) = {p} /\ NoRepeat(one)
    BY SMTT(60), Z3T(60) DEF Range, NoRepeat
  <1> HIDE DEF one
  <1>10. /\ a \o one \in Seq(Payload) /\ Range(a \o one) = Range(a) \cup Range(one)
         /\ NoRepeat(a \o one)
    <2>1. Range(a) \cap Range(one) \subseteq {Failed}
      BY Zenon, <1>6, <1>9
    <2> QED
      BY <1>3, <1>7, <1>9, <2>1, NoRepeatConcat
  <1>11. /\ Range((a \o one) \o b) = Range(a \o one) \cup Range(b)
         /\ NoRepeat((a \o one) \o b)
    <2> DEFINE c == a \o one
    <2>1. Range(c) \cap Range(b) \subseteq {Failed} /\ c \in Seq(Payload) /\ NoRepeat(c)
      BY Zenon, <1>6, <1>8, <1>9, <1>10
    <2> HIDE DEF c
    <2>2. Range(c \o b) = Range(c) \cup Range(b) /\ NoRepeat(c \o b)
      BY <1>4, <1>7, <2>1, NoRepeatConcat
    <2> QED
      BY Zenon, <2>2 DEF c
  <1>12. Range((a \o one) \o b) = Range(q) \cup {p}
    BY Zenon, <1>6, <1>9, <1>10, <1>11
  <1> QED
    BY Zenon, <1>11, <1>12 DEF InsertRetry, a, b, i, one

-----------------------------------------------------------------------------
\* Each payload is in one place

\* Publishing one more entry of a key: the entry is the only change.
LEMMA PublishOnce ==
    ASSUME TypeOK, NEW k \in Rid, NEW e \in Payload \cup {Failed},
           received' = [received EXCEPT ![k] = Append(@, e)],
           \A r \in Rid : NoRepeat(received[r]),
           \A r \in Rid : \A p \in Payload \cap Range(received[r]) : RidOf[p] = r,
           e \in Payload => e \notin Published /\ RidOf[e] = k
    PROVE  /\ \A r \in Rid : NoRepeat(received'[r])
           /\ \A r \in Rid : \A p \in Payload \cap Range(received'[r]) : RidOf[p] = r
           /\ Published' = Published \cup ({e} \cap Payload)
  <1>1. received[k] \in Seq(Payload \cup {Failed})
    BY Zenon DEF TypeOK
  <1>2. Range(Append(received[k], e)) = Range(received[k]) \cup {e}
    BY SMTT(60), Z3T(60), <1>1, AppendRange
  <1>3. \A r \in Rid : received'[r] = IF r = k THEN Append(received[k], e) ELSE received[r]
    BY Zenon DEF TypeOK
  <1>4. e = Failed \/ e \notin Range(received[k])
    BY Zenon DEF Published
  <1>5. NoRepeat(Append(received[k], e))
    BY <1>1, <1>4, NoRepeatAppend
  <1>6. Published' = Published \cup ({e} \cap Payload)
    <2>1. ASSUME NEW p \in Published' PROVE p \in Published \cup ({e} \cap Payload)
      BY Zenon, <1>2, <1>3 DEF Published
    <2>2. ASSUME NEW p \in Published PROVE p \in Published'
      BY Zenon, <1>2, <1>3 DEF Published
    <2>3. ASSUME e \in Payload PROVE e \in Published'
      BY Zenon, <2>3, <1>2, <1>3 DEF Published
    <2> QED
      BY Zenon, <2>1, <2>2, <2>3
  <1> QED
    BY Zenon, <1>2, <1>3, <1>5, <1>6

-----------------------------------------------------------------------------
\* How a step moves payloads from one place of the pipeline to the next, and
\* what it does to the credit.
Receives == Range(recvCompletions)
Beyond == <<Receives, held, Published, lost>>

QueueMove ==
    /\ Upstream' \subseteq Upstream
    /\ UNCHANGED <<submitted, Current, Beyond, reserved>>
SendMove ==
    \E p \in Payload \ submitted :
        /\ submitted' = submitted \cup {p} /\ Upstream' = Upstream \cup {p}
        /\ UNCHANGED <<Current, Beyond, reserved>>
ReserveMove ==
    \E p \in Upstream :
        /\ p \in Payload /\ Upstream' = Upstream \ {p}
        /\ Current = {} /\ Current' = {p} /\ reserved' = reserved + Bytes[p]
        /\ UNCHANGED <<submitted, Beyond>>
PostMove ==
    \E p \in Payload :
        /\ Current = {p} /\ Current' = {} /\ Receives' = Receives \cup {p}
        /\ UNCHANGED <<submitted, Upstream, held, Published, lost, reserved>>
PublishMove ==
    \E p \in Receives :
        /\ Receives' = Receives \ {p} /\ Published' = Published \cup {p}
        /\ UNCHANGED <<submitted, Upstream, Current, held, lost, reserved>>
DrainMove ==
    /\ held' = held \cup Published /\ Published' = {}
    /\ UNCHANGED <<submitted, Upstream, Current, Receives, lost, reserved>>
LoseMove ==
    \E p \in Payload :
        /\ Current = {p} /\ Current' = {} /\ lost' = lost \cup {p}
        /\ UNCHANGED <<submitted, Upstream, Receives, held, Published, reserved>>
ReleaseMove ==
    \E p \in Payload :
        /\ \/ Current = {p} /\ Current' = {} /\ UNCHANGED <<Receives, held>>
           \/ p \in Receives /\ Receives' = Receives \ {p} /\ UNCHANGED <<Current, held>>
           \/ p \in held /\ held' = held \ {p} /\ UNCHANGED <<Current, Receives>>
        /\ reserved' = Monus(reserved, Bytes[p])
        /\ UNCHANGED <<submitted, Upstream, Published, lost>>
RestartMove ==
    /\ Upstream' \subseteq Upstream
    /\ Current' = {} /\ Receives' = {} /\ held' = {} /\ Published' = {} /\ lost' = {}
    /\ reserved' = 0 /\ UNCHANGED submitted

StageMove ==
    \/ QueueMove \/ SendMove \/ ReserveMove \/ PostMove \/ PublishMove
    \/ DrainMove \/ LoseMove \/ ReleaseMove \/ RestartMove

\* A move keeps each payload in one place.
LEMMA MoveDisjoint ==
    ASSUME StagesDisjoint, StageMove
    PROVE  StagesDisjoint'
  <1> USE DEF StagesDisjoint, Staged, Delivered, Receives, Beyond
  <1>1. CASE QueueMove
    BY ZenonT(60), <1>1 DEF QueueMove
  <1>2. CASE SendMove
    BY ZenonT(60), <1>2 DEF SendMove
  <1>3. CASE ReserveMove
    BY ZenonT(60), <1>3 DEF ReserveMove
  <1>4. CASE PostMove
    BY ZenonT(60), <1>4 DEF PostMove
  <1>5. CASE PublishMove
    BY ZenonT(60), <1>5 DEF PublishMove
  <1>6. CASE DrainMove
    BY ZenonT(60), <1>6 DEF DrainMove
  <1>7. CASE LoseMove
    BY ZenonT(60), <1>7 DEF LoseMove
  <1>8. CASE ReleaseMove
    BY ZenonT(60), <1>8 DEF ReleaseMove
  <1>9. CASE RestartMove
    BY ZenonT(60), <1>9 DEF RestartMove
  <1> QED
    BY ZenonT(60), <1>1, <1>2, <1>3, <1>4, <1>5, <1>6, <1>7, <1>8, <1>9 DEF StageMove

\* What has left the pipeline does not come back.
LEMMA MoveForward ==
    ASSUME StagesDisjoint, StageMove
    PROVE  Upstream' \cup Staged' \subseteq Upstream \cup Staged \cup (submitted' \ submitted)
  <1> USE DEF Staged, Delivered, Receives, Beyond
  <1>1. CASE QueueMove
    BY Zenon, <1>1 DEF QueueMove
  <1>2. CASE SendMove
    BY Zenon, <1>2 DEF SendMove
  <1>3. CASE ReserveMove
    BY Zenon, <1>3 DEF ReserveMove
  <1>4. CASE PostMove
    BY ZenonT(60), <1>4 DEF PostMove
  <1>5. CASE PublishMove
    BY Zenon, <1>5 DEF PublishMove
  <1>6. CASE DrainMove
    BY Zenon, <1>6 DEF DrainMove
  <1>7. CASE LoseMove
    BY ZenonT(60), <1>7 DEF LoseMove
  <1>8. CASE ReleaseMove
    BY ZenonT(60), <1>8 DEF ReleaseMove
  <1>9. CASE RestartMove
    BY Zenon, <1>9 DEF RestartMove
  <1> QED
    BY Zenon, <1>1, <1>2, <1>3, <1>4, <1>5, <1>6, <1>7, <1>8, <1>9 DEF StageMove

\* A step that leaves the receiver's side alone
LEMMA QuietMove ==
    ASSUME UNCHANGED <<submitted, listenPc, listenCur, recvCompletions, received, held,
                       lost, reserved>>,
           Upstream' \subseteq Upstream
    PROVE  StageMove
  <1>1. UNCHANGED <<Current, Beyond>>
    BY Zenon DEF Current, Beyond, Receives, Published
  <1> QED
    BY Zenon, <1>1 DEF StageMove, QueueMove

\* Publishing a failure mark publishes no payload.
LEMMA MarkFailedMove ==
    ASSUME TypeOK, QueuesOnce, NEW p \in Payload, MarkFailed(p)
    PROVE  /\ Published' = Published
           /\ \A r \in Rid : NoRepeat(received'[r])
           /\ \A r \in Rid : \A q \in Payload \cap Range(received'[r]) : RidOf[q] = r
  <1>1. RidOf[p] \in Rid /\ Failed \notin Payload
    BY Zenon, PayloadAssumption
  <1>2. received' = [received EXCEPT ![RidOf[p]] = Append(@, Failed)]
    BY Zenon DEF MarkFailed
  <1>3. /\ Published' = Published \cup ({Failed} \cap Payload)
        /\ \A r \in Rid : NoRepeat(received'[r])
        /\ \A r \in Rid : \A q \in Payload \cap Range(received'[r]) : RidOf[q] = r
    BY Zenon, <1>1, <1>2, PublishOnce DEF QueuesOnce
  <1> QED
    BY Zenon, <1>1, <1>3

\* Taking the oldest receive off the list of completions
LEMMA CompletionTaken ==
    ASSUME TypeOK, QueuesOnce, recvCompletions # <<>>,
           recvCompletions' = Tail(recvCompletions)
    PROVE  /\ Head(recvCompletions) \in Payload
           /\ RidOf[Head(recvCompletions)] \in Rid
           /\ Head(recvCompletions) \in Receives
           /\ Receives' = Receives \ {Head(recvCompletions)}
           /\ NoRepeat(recvCompletions')
  <1>1. recvCompletions \in Seq(Payload) /\ Failed \notin Payload
    BY Zenon, PayloadAssumption DEF TypeOK
  <1>2. /\ Head(recvCompletions) \in Payload
        /\ Range(recvCompletions) = {Head(recvCompletions)} \cup Range(recvCompletions')
    BY Zenon, <1>1, HeadTailRange
  <1>3. /\ NoRepeat(recvCompletions')
        /\ Head(recvCompletions) \notin Range(recvCompletions')
    BY <1>1, <1>2, NoRepeatTail DEF QueuesOnce
  <1> QED
    BY Zenon, <1>2, <1>3, PayloadAssumption DEF Receives

\* Every step of the transport is such a move.
LEMMA StepMoves ==
    ASSUME TypeOK, Handshake, QueuesOnce, StagesDisjoint, [Next]_vars
    PROVE  StageMove
  <1> USE PayloadAssumption
  <1>1. CASE SendPop
    <2>1. UNCHANGED <<submitted, listenPc, listenCur, recvCompletions, received, held, lost, reserved>>
      BY Zenon, <1>1 DEF SendPop, sendVars, ncclVars, listenVars, creditVars
    <2>2. Upstream' \subseteq Upstream
      <3>1. sendCur = None /\ putMsg = None /\ ack = None
        BY Zenon, <1>1 DEF SendPop, Handshake
      <3>2. Range(sendQueue) = {Head(sendQueue)} \cup Range(sendQueue')
        BY Zenon, <1>1, HeadTailRange DEF SendPop, TypeOK
      <3> QED
        BY Zenon, <1>1, <3>1, <3>2 DEF SendPop, Upstream
    <2> QED
      BY Zenon, <2>1, <2>2, QuietMove
  <1>2. CASE SendRetry
    <2>1. UNCHANGED <<submitted, listenPc, listenCur, recvCompletions, received, held, lost, reserved>>
      BY Zenon, <1>2 DEF SendRetry, sendVars, ncclVars, listenVars, creditVars
    <2>2. Upstream' \subseteq Upstream
      <3>1. sendCur \in Payload /\ putMsg = None
        BY Zenon, <1>2 DEF SendRetry, Handshake, TypeOK
      <3>2. Range(sendQueue') = Range(sendQueue) \cup {sendCur}
        BY Zenon, <1>2, <3>1, InsertRetryRange DEF SendRetry, TypeOK, QueuesOnce
      <3> QED
        BY Zenon, <1>2, <3>1, <3>2 DEF SendRetry, Upstream
    <2> QED
      BY Zenon, <2>1, <2>2, QuietMove
  <1>3. CASE SendRetire
    <2>1. UNCHANGED <<submitted, listenPc, listenCur, recvCompletions, received, held, lost, reserved>>
      BY Zenon, <1>3 DEF SendRetire, FinishSendItem, sendVars, ncclVars, listenVars, creditVars
    <2>2. Upstream' \subseteq Upstream
      BY Zenon, <1>3 DEF SendRetire, sendVars, ncclVars, listenVars, creditVars, Upstream
    <2> QED
      BY Zenon, <2>1, <2>2, QuietMove
  <1>4. CASE SendPost
    <2>1. UNCHANGED <<submitted, listenPc, listenCur, recvCompletions, received, held, lost, reserved>>
      BY Zenon, <1>4 DEF SendPost, sendVars, ncclVars, listenVars, creditVars
    <2>2. Upstream' \subseteq Upstream
      BY Zenon, <1>4 DEF SendPost, sendVars, ncclVars, listenVars, creditVars, Upstream
    <2> QED
      BY Zenon, <2>1, <2>2, QuietMove
  <1>5. CASE SendComplete
    <2>1. UNCHANGED <<submitted, listenPc, listenCur, recvCompletions, received, held, lost, reserved>>
      BY Zenon, <1>5 DEF SendComplete, FinishSendItem, sendVars, ncclVars, listenVars, creditVars
    <2>2. Upstream' \subseteq Upstream
      BY Zenon, <1>5 DEF SendComplete, sendVars, ncclVars, listenVars, creditVars, Upstream
    <2> QED
      BY Zenon, <2>1, <2>2, QuietMove
  <1>6. CASE NcclTransfer
    <2>1. UNCHANGED <<submitted, listenPc, listenCur, recvCompletions, received, held, lost, reserved>>
      BY Zenon, <1>6 DEF NcclTransfer, sendVars, ncclVars, listenVars, creditVars
    <2>2. Upstream' \subseteq Upstream
      BY Zenon, <1>6 DEF NcclTransfer, sendVars, ncclVars, listenVars, creditVars, Upstream
    <2> QED
      BY Zenon, <2>1, <2>2, QuietMove
  <1>7. CASE ListenInit
    <2>1. UNCHANGED <<submitted, listenPc, listenCur, recvCompletions, received, held, lost, reserved>>
      BY Zenon, <1>7 DEF ListenInit, sendVars, ncclVars, listenVars, creditVars
    <2>2. Upstream' \subseteq Upstream
      BY Zenon, <1>7 DEF ListenInit, sendVars, ncclVars, listenVars, creditVars, Upstream
    <2> QED
      BY Zenon, <2>1, <2>2, QuietMove
  <1>8. CASE ListenPutBeforeInit
    <2>1. putMsg \in Payload /\ MarkFailed(putMsg)
      BY Zenon, <1>8 DEF ListenPutBeforeInit, TypeOK
    <2>2. Published' = Published
      BY Zenon, <2>1, MarkFailedMove
    <2>3. Upstream' \subseteq Upstream
      BY Zenon, <1>8 DEF ListenPutBeforeInit, sendVars, Upstream
    <2> QED
      BY Zenon, <1>8, <2>2, <2>3
      DEF ListenPutBeforeInit, sendVars, ncclVars, listenVars, creditVars, StageMove, QueueMove, Current, Beyond, Receives
  <1>9. CASE ListenPutRetry
    <2>1. UNCHANGED <<submitted, listenPc, listenCur, recvCompletions, received, held, lost, reserved>>
      BY Zenon, <1>9 DEF ListenPutRetry, sendVars, ncclVars, listenVars, creditVars
    <2>2. Upstream' \subseteq Upstream
      <3>1. sendCur = putMsg
        BY Zenon, <1>9 DEF ListenPutRetry, Handshake
      <3> QED
        BY Zenon, <1>9, <3>1 DEF ListenPutRetry, sendVars, Upstream
    <2> QED
      BY Zenon, <2>1, <2>2, QuietMove
  <1>10. CASE ListenPutReserve
    <2>1. /\ putMsg \in Payload /\ sendCur = putMsg /\ ack = None /\ listenPc = "idle"
          /\ putMsg \notin Range(sendQueue)
      BY Zenon, <1>10 DEF ListenPutReserve, TypeOK, Handshake, QueuesOnce
    <2>2. putMsg \in Upstream /\ Upstream' = Upstream \ {putMsg}
      BY Zenon, <1>10, <2>1 DEF ListenPutReserve, sendVars, Upstream
    <2>3. Current = {} /\ Current' = {putMsg} /\ reserved' = reserved + Bytes[putMsg]
      BY Zenon, <1>10, <2>1 DEF ListenPutReserve, Reserve, Current
    <2>4. UNCHANGED <<submitted, Beyond>>
      BY Zenon, <1>10 DEF ListenPutReserve, Beyond, Receives, Published
    <2> QED
      BY Zenon, <2>1, <2>2, <2>3, <2>4 DEF StageMove, ReserveMove
  <1>11. CASE ListenAck
    <2>1. UNCHANGED <<submitted, listenCur, recvCompletions, received, held, lost, reserved>>
      BY Zenon, <1>11 DEF ListenAck, sendVars, ncclVars, listenVars, creditVars
    <2>2. Upstream' \subseteq Upstream
      BY Zenon, <1>11 DEF ListenAck, sendVars, Upstream
    <2>3. Current' = Current
      BY Zenon, <1>11 DEF ListenAck, Current
    <2> QED
      BY Zenon, <2>1, <2>2, <2>3 DEF StageMove, QueueMove, Beyond, Receives, Published
  <1>12. CASE ListenPost
    <2>1. listenCur \in Payload /\ Current = {listenCur} /\ Current' = {}
      BY Zenon, <1>12 DEF ListenPost, TypeOK, Handshake, Current
    <2>2. Receives' = Receives \cup {listenCur}
      BY SMTT(60), Z3T(60), <1>12, <2>1, AppendRange DEF ListenPost, TypeOK, Receives
    <2>3. UNCHANGED <<submitted, Upstream, held, Published, lost, reserved>>
      BY Zenon, <1>12 DEF ListenPost, sendVars, creditVars, Upstream, Published
    <2> QED
      BY Zenon, <2>1, <2>2, <2>3 DEF StageMove, PostMove
  <1>13. CASE RecvComplete
    <2> DEFINE h == Head(recvCompletions)
    <2>1. h \in Payload /\ RidOf[h] \in Rid /\ h \in Receives /\ Receives' = Receives \ {h}
      BY Zenon, <1>13, CompletionTaken DEF RecvComplete, RecvDone
    <2>2. h \notin Published
      BY Zenon, <2>1 DEF StagesDisjoint, Delivered, Receives
    <2>3. received' = [received EXCEPT ![RidOf[h]] = Append(@, h)]
      BY Zenon, <1>13 DEF RecvComplete
    <2> HIDE DEF h
    <2>4. Published' = Published \cup ({h} \cap Payload)
      BY Zenon, <2>1, <2>2, <2>3, PublishOnce DEF QueuesOnce
    <2>5. Published' = Published \cup {h}
      BY Zenon, <2>1, <2>4
    <2>6. UNCHANGED <<submitted, Upstream, Current, held, lost, reserved>>
      BY Zenon, <1>13 DEF RecvComplete, sendVars, ncclVars, listenVars, creditVars, Upstream, Current
    <2> QED
      BY Zenon, <2>1, <2>5, <2>6 DEF StageMove, PublishMove
  <1>14. CASE ListenOom
    <2>1. /\ listenCur \in Payload /\ Current = {listenCur} /\ Current' = {}
          /\ MarkFailed(listenCur)
      BY Zenon, <1>14 DEF ListenOom, TypeOK, Handshake, Current
    <2>2. Published' = Published
      BY Zenon, <2>1, MarkFailedMove
    <2>3. ack = None
      BY Zenon, <1>14 DEF ListenOom, Handshake
    <2>4. UNCHANGED <<submitted, Upstream, Receives, held, lost>>
      BY Zenon, <1>14, <2>3 DEF ListenOom, sendVars, Upstream, Receives
    <2>5. reserved' = Monus(reserved, Bytes[listenCur])
      BY Zenon, <1>14 DEF ListenOom, Release
    <2> QED
      BY Zenon, <2>1, <2>2, <2>4, <2>5 DEF StageMove, ReleaseMove
  <1>15. CASE ListenError
    <2>1. listenCur \in Payload /\ Current = {listenCur} /\ Current' = {}
      BY Zenon, <1>15 DEF ListenError, TypeOK, Handshake, Current
    <2>2. UNCHANGED <<submitted, Upstream, Receives, held, Published, reserved>>
      BY Zenon, <1>15 DEF ListenError, sendVars, creditVars, Upstream, Receives, Published
    <2>3. lost' = lost \cup {listenCur}
      BY Zenon, <1>15 DEF ListenError
    <2> QED
      BY Zenon, <2>1, <2>2, <2>3 DEF StageMove, LoseMove
  <1>16. CASE RecvError
    <2> DEFINE h == Head(recvCompletions)
    <2>1. h \in Payload /\ h \in Receives /\ Receives' = Receives \ {h} /\ MarkFailed(h)
      BY Zenon, <1>16, CompletionTaken DEF RecvError, RecvDone
    <2>2. Published' = Published
      BY Zenon, <2>1, MarkFailedMove
    <2>3. UNCHANGED <<submitted, Upstream, Current, held, lost>>
      BY Zenon, <1>16 DEF RecvError, sendVars, listenVars, Upstream, Current
    <2>4. reserved' = Monus(reserved, Bytes[h])
      BY Zenon, <1>16 DEF RecvError, Release
    <2> HIDE DEF h
    <2> QED
      BY Zenon, <2>1, <2>2, <2>3, <2>4 DEF StageMove, ReleaseMove
  <1>17. CASE ConsumerRestart
    <2>1. Range(<<>>) = {}
      BY SMTT(60), Z3T(60) DEF Range
    <2>2. Receives' = {} /\ Published' = {}
      BY Zenon, <1>17, <2>1 DEF ConsumerRestart, Receives, Published
    <2>3. Upstream' \subseteq Upstream
      BY Zenon, <1>17 DEF ConsumerRestart, sendVars, Upstream
    <2> QED
      BY Zenon, <1>17, <2>2, <2>3 DEF ConsumerRestart, StageMove, RestartMove, Current
  <1>18. ASSUME NEW p \in Payload, Send(p) PROVE StageMove
    <2>1. Range(sendQueue') = Range(sendQueue) \cup {p}
      BY SMTT(60), Z3T(60), <1>18, AppendRange DEF Send, TypeOK
    <2>2. Upstream' = Upstream \cup {p}
      BY Zenon, <1>18, <2>1 DEF Send, Upstream
    <2>3. /\ p \notin submitted /\ submitted' = submitted \cup {p}
          /\ UNCHANGED <<Current, Beyond, reserved>>
      BY Zenon, <1>18 DEF Send, listenVars, creditVars, Current, Beyond, Receives, Published
    <2> QED
      BY Zenon, <2>2, <2>3 DEF StageMove, SendMove
  <1>19. ASSUME NEW p \in Payload, ReleaseReceived(p) PROVE StageMove
    <2>1. /\ p \in held /\ held' = held \ {p} /\ reserved' = Monus(reserved, Bytes[p])
          /\ UNCHANGED <<sendVars, putMsg, ack, listenVars, recvCompletions, received,
                         submitted, lost>>
      BY Zenon, <1>19 DEF ReleaseReceived, Release
    <2>2. UNCHANGED <<submitted, Upstream, Current, Receives, Published, lost>>
      BY Zenon, <2>1 DEF sendVars, listenVars, Upstream, Current, Receives, Published
    <2> QED
      BY Zenon, <2>1, <2>2 DEF StageMove, ReleaseMove
  <1>20. CASE DrainReceived
    <2>1. Range(<<>>) = {}
      BY SMTT(60), Z3T(60) DEF Range
    <2>2. Published' = {} /\ held' = held \cup Published
      BY Zenon, <1>20, <2>1 DEF DrainReceived, Published
    <2>3. UNCHANGED <<submitted, Upstream, Current, Receives, lost, reserved>>
      BY Zenon, <1>20 DEF DrainReceived, sendVars, ncclVars, listenVars, creditVars, Upstream, Current, Receives
    <2> QED
      BY Zenon, <2>2, <2>3 DEF StageMove, DrainMove
  <1>21. ASSUME NEW S \in SUBSET Rid, SetExpectedRequests(S) PROVE StageMove
    <2>1. UNCHANGED <<submitted, listenPc, listenCur, recvCompletions, received, held, lost, reserved>>
      BY Zenon, <1>21 DEF SetExpectedRequests, sendVars, ncclVars, listenVars, creditVars
    <2>2. Upstream' \subseteq Upstream
      BY Zenon, <1>21 DEF SetExpectedRequests, sendVars, Upstream
    <2> QED
      BY Zenon, <2>1, <2>2, QuietMove
  <1>22. CASE UNCHANGED vars
    <2>1. UNCHANGED <<submitted, listenPc, listenCur, recvCompletions, received, held, lost, reserved>>
      BY Zenon, <1>22 DEF vars, sendVars, ncclVars, listenVars, creditVars
    <2>2. Upstream' \subseteq Upstream
      BY Zenon, <1>22 DEF vars, sendVars, ncclVars, listenVars, creditVars, Upstream
    <2> QED
      BY Zenon, <2>1, <2>2, QuietMove
  <1> QED
    BY Zenon, <1>1, <1>2, <1>3, <1>4, <1>5, <1>6, <1>7, <1>8, <1>9, <1>10, <1>11, <1>12, <1>13, <1>14, <1>15, <1>16, <1>17, <1>18, <1>19, <1>20, <1>21, <1>22
    DEF Next, ProducerThreads, ConsumerThreads, ConsumerFaults, Clients

\* Every step keeps the queues free of repetitions.
LEMMA QueuesOnceStep ==
    ASSUME TypeOK, Handshake, QueuesOnce, StagesDisjoint, [Next]_vars
    PROVE  QueuesOnce'
  <1> USE PayloadAssumption
  <1>1. CASE SendPop
    <2>1. sendQueue \in Seq(Payload) /\ sendQueue # <<>> /\ Failed \notin Payload
      BY Zenon, <1>1 DEF SendPop, TypeOK
    <2>2. /\ Head(sendQueue) \in Payload
          /\ Range(sendQueue) = {Head(sendQueue)} \cup Range(Tail(sendQueue))
      BY Zenon, <2>1, HeadTailRange
    <2>3. NoRepeat(Tail(sendQueue)) /\ Head(sendQueue) \notin Range(Tail(sendQueue))
      BY <2>1, <2>2, NoRepeatTail DEF QueuesOnce
    <2>4. Head(sendQueue) \in submitted
      BY Zenon, <2>2 DEF StagesDisjoint, Upstream
    <2> QED
      BY Zenon, <1>1, <2>3, <2>4 DEF SendPop, ncclVars, QueuesOnce
  <1>2. CASE SendRetry
    <2>1. sendCur \in Payload
      BY Zenon, <1>2 DEF SendRetry, Handshake, TypeOK
    <2>2. NoRepeat(sendQueue') /\ Range(sendQueue') = Range(sendQueue) \cup {sendCur}
      BY Zenon, <1>2, <2>1, InsertRetryRange DEF SendRetry, TypeOK, QueuesOnce
    <2>3. sendQueue' \in Seq(Payload) /\ None \notin Range(sendQueue')
      <3>1. sendQueue' \in Seq(Payload)
        BY Zenon, <1>2, <2>1, InsertRetryType DEF SendRetry, TypeOK
      <3> QED
        BY Zenon, <3>1, SeqElements
    <2> QED
      BY Zenon, <1>2, <2>2, <2>3 DEF SendRetry, ncclVars, QueuesOnce
  <1>3. CASE SendRetire
    <2>1. None \notin Range(sendQueue)
      BY Zenon, SeqElements DEF TypeOK
    <2> QED
      BY Zenon, <1>3, <2>1 DEF SendRetire, ncclVars, QueuesOnce
  <1>4. CASE SendPost
    <2>1. None \notin Range(sendQueue)
      BY Zenon, SeqElements DEF TypeOK
    <2> QED
      BY Zenon, <1>4, <2>1 DEF SendPost, QueuesOnce
  <1>5. CASE SendComplete
    BY Zenon, <1>5 DEF SendComplete, FinishSendItem, sendVars, ncclVars, creditVars, listenVars, QueuesOnce
  <1>6. CASE NcclTransfer
    <2>1. Range(recvStream) = {Head(recvStream)} \cup Range(Tail(recvStream))
      BY Zenon, <1>6, HeadTailRange DEF NcclTransfer, TypeOK
    <2> QED
      BY Zenon, <1>6, <2>1 DEF NcclTransfer, sendVars, QueuesOnce
  <1>7. CASE ListenInit
    BY Zenon, <1>7 DEF ListenInit, sendVars, ncclVars, creditVars, listenVars, QueuesOnce
  <1>8. CASE ListenPutBeforeInit
    <2>1. /\ \A r \in Rid : NoRepeat(received'[r])
          /\ \A r \in Rid : \A p \in Payload \cap Range(received'[r]) : RidOf[p] = r
      BY Zenon, <1>8, MarkFailedMove DEF ListenPutBeforeInit, TypeOK
    <2> QED
      BY Zenon, <1>8, <2>1 DEF ListenPutBeforeInit, sendVars, ncclVars, QueuesOnce
  <1>9. CASE ListenPutRetry
    BY Zenon, <1>9 DEF ListenPutRetry, sendVars, ncclVars, creditVars, listenVars, QueuesOnce
  <1>10. CASE ListenPutReserve
    BY Zenon, <1>10 DEF ListenPutReserve, Reserve, sendVars, ncclVars, creditVars, listenVars, QueuesOnce
  <1>11. CASE ListenAck
    BY Zenon, <1>11 DEF ListenAck, sendVars, ncclVars, creditVars, listenVars, QueuesOnce
  <1>12. CASE ListenPost
    <2>1. listenCur \in Payload /\ listenCur \in Current
      BY Zenon, <1>12 DEF ListenPost, TypeOK, Handshake, Current
    <2>2. listenCur \notin Range(recvCompletions)
      BY Zenon, <2>1 DEF StagesDisjoint
    <2>3. recvStream \in Seq(Payload) /\ recvCompletions \in Seq(Payload)
      BY Zenon DEF TypeOK
    <2>4. NoRepeat(Append(recvCompletions, listenCur))
      BY <2>1, <2>2, <2>3, NoRepeatAppend DEF QueuesOnce
    <2>5. /\ Range(Append(recvStream, listenCur)) = Range(recvStream) \cup {listenCur}
          /\ Range(Append(recvCompletions, listenCur)) = Range(recvCompletions) \cup {listenCur}
      BY SMTT(60), Z3T(60), <2>1, <2>3, AppendRange
    <2> QED
      BY Zenon, <1>12, <2>4, <2>5 DEF ListenPost, sendVars, QueuesOnce
  <1>13. CASE RecvComplete
    <2> DEFINE h == Head(recvCompletions)
    <2>1. /\ h \in Payload /\ RidOf[h] \in Rid /\ h \in Receives
          /\ Receives' = Receives \ {h} /\ NoRepeat(recvCompletions')
      BY Zenon, <1>13, CompletionTaken DEF RecvComplete, RecvDone
    <2>2. h \notin Published
      BY Zenon, <2>1 DEF StagesDisjoint, Delivered, Receives
    <2>3. received' = [received EXCEPT ![RidOf[h]] = Append(@, h)]
      BY Zenon, <1>13 DEF RecvComplete
    <2>4. h \notin Range(recvStream)
      BY Zenon, <1>13 DEF RecvComplete, RecvDone
    <2> HIDE DEF h
    <2>5. /\ \A r \in Rid : NoRepeat(received'[r])
          /\ \A r \in Rid : \A p \in Payload \cap Range(received'[r]) : RidOf[p] = r
      BY Zenon, <2>1, <2>2, <2>3, PublishOnce DEF QueuesOnce
    <2> QED
      BY Zenon, <1>13, <2>1, <2>4, <2>5 DEF RecvComplete, sendVars, ncclVars, QueuesOnce, Receives
  <1>14. CASE ListenOom
    <2>1. /\ \A r \in Rid : NoRepeat(received'[r])
          /\ \A r \in Rid : \A p \in Payload \cap Range(received'[r]) : RidOf[p] = r
      BY Zenon, <1>14, MarkFailedMove DEF ListenOom, TypeOK, Handshake
    <2> QED
      BY Zenon, <1>14, <2>1 DEF ListenOom, sendVars, ncclVars, QueuesOnce
  <1>15. CASE ListenError
    BY Zenon, <1>15 DEF ListenError, sendVars, ncclVars, creditVars, listenVars, QueuesOnce
  <1>16. CASE RecvError
    <2> DEFINE h == Head(recvCompletions)
    <2>1. /\ h \in Payload /\ h \in Receives
          /\ Receives' = Receives \ {h} /\ NoRepeat(recvCompletions')
      BY Zenon, <1>16, CompletionTaken DEF RecvError, RecvDone
    <2>2. h \notin Range(recvStream) /\ MarkFailed(h)
      BY Zenon, <1>16 DEF RecvError, RecvDone
    <2> HIDE DEF h
    <2>3. /\ \A r \in Rid : NoRepeat(received'[r])
          /\ \A r \in Rid : \A p \in Payload \cap Range(received'[r]) : RidOf[p] = r
      BY Zenon, <2>1, <2>2, MarkFailedMove
    <2> QED
      BY Zenon, <1>16, <2>1, <2>2, <2>3 DEF RecvError, sendVars, ncclVars, QueuesOnce, Receives
  <1>17. CASE ConsumerRestart
    <2>1. Range(<<>>) = {} /\ NoRepeat(<<>>)
      BY SMTT(60), Z3T(60) DEF Range, NoRepeat
    <2> QED
      BY Zenon, <1>17, <2>1 DEF ConsumerRestart, sendVars, QueuesOnce
  <1>18. ASSUME NEW p \in Payload, Send(p) PROVE QueuesOnce'
    <2>1. p \notin Range(sendQueue) /\ sendCur # p
      BY Zenon, <1>18 DEF Send, StagesDisjoint, Upstream, QueuesOnce
    <2>2. sendQueue \in Seq(Payload)
      BY Zenon DEF TypeOK
    <2>3. NoRepeat(Append(sendQueue, p))
      BY <2>1, <2>2, NoRepeatAppend DEF QueuesOnce
    <2>4. Range(Append(sendQueue, p)) = Range(sendQueue) \cup {p}
      BY SMTT(60), Z3T(60), <2>2, AppendRange
    <2> QED
      BY Zenon, <1>18, <2>1, <2>3, <2>4 DEF Send, ncclVars, QueuesOnce
  <1>19. ASSUME NEW p \in Payload, ReleaseReceived(p) PROVE QueuesOnce'
    BY Zenon, <1>19 DEF ReleaseReceived, sendVars, ncclVars, QueuesOnce
  <1>20. CASE DrainReceived
    <2>1. Range(<<>>) = {} /\ NoRepeat(<<>>)
      BY SMTT(60), Z3T(60) DEF Range, NoRepeat
    <2> QED
      BY Zenon, <1>20, <2>1 DEF DrainReceived, sendVars, ncclVars, QueuesOnce
  <1>21. ASSUME NEW S \in SUBSET Rid, SetExpectedRequests(S) PROVE QueuesOnce'
    BY Zenon, <1>21 DEF SetExpectedRequests, sendVars, ncclVars, QueuesOnce
  <1>22. CASE UNCHANGED vars
    BY Zenon, <1>22 DEF vars, sendVars, ncclVars, QueuesOnce
  <1> QED
    BY Zenon, <1>1, <1>2, <1>3, <1>4, <1>5, <1>6, <1>7, <1>8, <1>9, <1>10, <1>11, <1>12, <1>13, <1>14, <1>15, <1>16, <1>17, <1>18, <1>19, <1>20, <1>21, <1>22
    DEF Next, ProducerThreads, ConsumerThreads, ConsumerFaults, Clients

-----------------------------------------------------------------------------
\* The bytes of a set of submitted payloads, one payload more or less
LEMMA BytesOfStaged ==
    ASSUME NEW S \in SUBSET Payload, Listed(S)
    PROVE  /\ SumFunctionOnSet(Bytes, S) \in Nat
           /\ S = {} => SumFunctionOnSet(Bytes, S) = 0
           /\ \A p \in S : /\ SumFunctionOnSet(Bytes, S \ {p}) \in Nat
                           /\ SumFunctionOnSet(Bytes, S)
                                = Bytes[p] + SumFunctionOnSet(Bytes, S \ {p})
  <1>1. \A p \in Payload : Bytes[p] \in Nat
    BY SMTT(60), Z3T(60), BytesAssumption
  <1>2. \A p \in S : S \ {p} \in SUBSET Payload /\ Listed(S \ {p})
    <2> SUFFICES ASSUME NEW p \in S
                 PROVE  S \ {p} \in SUBSET Payload /\ Listed(S \ {p})
      BY Zenon
    <2>1. S \ {p} \in SUBSET S
      BY Zenon
    <2> QED
      BY Zenon, <2>1, ListedSubset
  <1>3. \A R \in SUBSET Payload : Listed(R) => SumFunctionOnSet(Bytes, R) \in Nat
    <2> SUFFICES ASSUME NEW R \in SUBSET Payload, Listed(R)
                 PROVE  SumFunctionOnSet(Bytes, R) \in Nat
      BY Zenon
    <2>1. \A p \in R : Bytes[p] \in Nat
      BY Zenon, <1>1
    <2> QED
      BY Zenon, <2>1, SumRemove
  <1>4. \A p \in S : Bytes[p] \in Nat
    BY Zenon, <1>1
  <1>5. /\ S = {} => SumFunctionOnSet(Bytes, S) = 0
        /\ \A p \in S : SumFunctionOnSet(Bytes, S) = Bytes[p] + SumFunctionOnSet(Bytes, S \ {p})
    BY Zenon, <1>4, SumRemove
  <1> QED
    BY Zenon, <1>2, <1>3, <1>5

\* Every move keeps the credit equal to what is staged.
LEMMA CreditStep ==
    ASSUME TypeOK, TypeOK', StagesDisjoint, StagesDisjoint', Listed(submitted),
           Listed(submitted'), CreditAccounting, StageMove
    PROVE  CreditAccounting'
  <1> DEFINE sum(S) == SumFunctionOnSet(Bytes, S)
  <1>1. /\ Staged \in SUBSET Payload /\ Listed(Staged)
        /\ Staged' \in SUBSET Payload /\ Listed(Staged')
    <2>1. /\ submitted \in SUBSET Payload /\ Staged \in SUBSET submitted
          /\ submitted' \in SUBSET Payload /\ Staged' \in SUBSET submitted'
      BY Zenon DEF TypeOK, StagesDisjoint
    <2>2. Listed(Staged)
      BY Zenon, <2>1, ListedSubset
    <2>3. PICK S : S = submitted'
      BY Zenon
    <2>4. PICK R : R = Staged'
      BY Zenon
    <2>5. Listed(S) /\ R \in SUBSET S
      BY Zenon, <2>1, <2>3, <2>4
    <2>6. Listed(R)
      BY Zenon, <2>5, ListedSubset
    <2> QED
      BY Zenon, <2>1, <2>2, <2>4, <2>6
  <1>2. PICK A \in SUBSET Payload : A = Staged /\ Listed(A)
    BY Zenon, <1>1
  <1>3. PICK B \in SUBSET Payload : B = Staged' /\ Listed(B)
    BY Zenon, <1>1
  <1>4. reserved = sum(A)
    BY Zenon, <1>2 DEF CreditAccounting
  <1>5. reserved \in Nat /\ \A p \in Payload : Bytes[p] \in Nat
    BY SMTT(60), Z3T(60), BytesAssumption DEF TypeOK
  <1>6. SUFFICES reserved' = sum(B)
    BY Zenon, <1>3 DEF CreditAccounting
  <1>7. ASSUME B = A, reserved' = reserved PROVE reserved' = sum(B)
    BY Zenon, <1>4, <1>7
  <1>8. ASSUME NEW p \in Payload, p \notin A, B = A \cup {p}, reserved' = reserved + Bytes[p]
        PROVE  reserved' = sum(B)
    <2>1. B \ {p} = A /\ p \in B
      BY Zenon, <1>8
    <2>2. sum(B) = Bytes[p] + sum(A)
      BY Zenon, <1>3, <2>1, BytesOfStaged
    <2> HIDE DEF sum
    <2> QED
      BY ONLY <1>4, <1>5, <1>8, <2>2
  <1>9. ASSUME NEW p \in A, B = A \ {p}, reserved' = Monus(reserved, Bytes[p])
        PROVE  reserved' = sum(B)
    <2>1. sum(A) = Bytes[p] + sum(B) /\ sum(B) \in Nat /\ p \in Payload
      BY Zenon, <1>2, <1>9, BytesOfStaged
    <2> HIDE DEF sum
    <2>2. Bytes[p] \in Nat
      BY Zenon, <1>5, <2>1
    <2> QED
      BY ONLY <1>4, <1>5, <1>9, <2>1, <2>2 DEF Monus
  <1>10. CASE QueueMove
    <2>1. Staged' = Staged /\ reserved' = reserved
      BY Zenon, <1>10 DEF QueueMove, Staged, Delivered, Beyond, Receives
    <2> QED
      BY Zenon, <1>2, <1>3, <1>7, <2>1
  <1>11. CASE SendMove
    <2>1. Staged' = Staged /\ reserved' = reserved
      BY Zenon, <1>11 DEF SendMove, Staged, Delivered, Beyond, Receives
    <2> QED
      BY Zenon, <1>2, <1>3, <1>7, <2>1
  <1>12. CASE ReserveMove
    <2>1. PICK p \in Upstream :
            /\ p \in Payload /\ Current = {} /\ Current' = {p}
            /\ reserved' = reserved + Bytes[p] /\ UNCHANGED Beyond
      BY Zenon, <1>12 DEF ReserveMove
    <2>2. Staged' = Staged \cup {p}
      BY Zenon, <2>1 DEF Staged, Delivered, Beyond, Receives
    <2>3. p \notin Staged
      BY Zenon DEF StagesDisjoint
    <2> QED
      BY Zenon, <1>2, <1>3, <1>8, <2>1, <2>2, <2>3
  <1>13. CASE PostMove
    <2>1. Staged' = Staged /\ reserved' = reserved
      BY ZenonT(60), <1>13 DEF PostMove, Staged, Delivered, Beyond, Receives
    <2> QED
      BY Zenon, <1>2, <1>3, <1>7, <2>1
  <1>14. CASE PublishMove
    <2>1. Staged' = Staged /\ reserved' = reserved
      BY ZenonT(60), <1>14 DEF PublishMove, Staged, Delivered, Beyond, Receives
    <2> QED
      BY Zenon, <1>2, <1>3, <1>7, <2>1
  <1>15. CASE DrainMove
    <2>1. Staged' = Staged /\ reserved' = reserved
      BY ZenonT(60), <1>15 DEF DrainMove, Staged, Delivered, Beyond, Receives
    <2> QED
      BY Zenon, <1>2, <1>3, <1>7, <2>1
  <1>16. CASE LoseMove
    <2>1. Staged' = Staged /\ reserved' = reserved
      BY ZenonT(60), <1>16 DEF LoseMove, Staged, Delivered, Beyond, Receives
    <2> QED
      BY Zenon, <1>2, <1>3, <1>7, <2>1
  <1>17. CASE ReleaseMove
    <2>1. PICK p \in Payload :
            /\ \/ Current = {p} /\ Current' = {} /\ UNCHANGED <<Receives, held>>
               \/ p \in Receives /\ Receives' = Receives \ {p} /\ UNCHANGED <<Current, held>>
               \/ p \in held /\ held' = held \ {p} /\ UNCHANGED <<Current, Receives>>
            /\ reserved' = Monus(reserved, Bytes[p])
            /\ UNCHANGED <<Published, lost>>
      BY Zenon, <1>17 DEF ReleaseMove
    <2>2. p \in Staged
      BY Zenon, <2>1 DEF Staged, Delivered, Receives
    <2>3. Staged' = Staged \ {p}
      <3>1. /\ Staged = Current \cup Receives \cup held \cup Published \cup lost
            /\ Staged' = Current' \cup Receives' \cup held' \cup Published \cup lost
        BY Zenon, <2>1 DEF Staged, Delivered, Receives
      <3>2. CASE Current = {p} /\ Current' = {} /\ UNCHANGED <<Receives, held>>
        <4>1. p \notin Receives /\ p \notin held /\ p \notin Published /\ p \notin lost
          BY Zenon, <3>2 DEF StagesDisjoint, Delivered, Receives
        <4> QED
          BY Zenon, <3>1, <3>2, <4>1
      <3>3. CASE p \in Receives /\ Receives' = Receives \ {p} /\ UNCHANGED <<Current, held>>
        <4>1. p \notin Current /\ p \notin held /\ p \notin Published /\ p \notin lost
          BY Zenon, <3>3 DEF StagesDisjoint, Delivered, Receives
        <4> QED
          BY Zenon, <3>1, <3>3, <4>1
      <3>4. CASE p \in held /\ held' = held \ {p} /\ UNCHANGED <<Current, Receives>>
        <4>1. p \notin Current /\ p \notin Receives /\ p \notin Published /\ p \notin lost
          BY Zenon, <3>4 DEF StagesDisjoint, Delivered, Receives
        <4> QED
          BY Zenon, <3>1, <3>4, <4>1
      <3> QED
        BY Zenon, <2>1, <3>2, <3>3, <3>4
    <2> QED
      BY Zenon, <1>2, <1>3, <1>9, <2>1, <2>2, <2>3
  <1>18. CASE RestartMove
    <2>1. B = {} /\ reserved' = 0
      BY Zenon, <1>3, <1>18 DEF RestartMove, Staged, Delivered, Receives
    <2>2. sum(B) = 0
      BY Zenon, <1>3, <2>1, BytesOfStaged
    <2> QED
      BY Zenon, <2>1, <2>2
  <1> QED
    BY Zenon, <1>10, <1>11, <1>12, <1>13, <1>14, <1>15, <1>16, <1>17, <1>18 DEF StageMove

\* Nothing is staged at the start.
LEMMA InitCredit == Init => EachOnce /\ Listed(submitted) /\ CreditAccounting
  <1> SUFFICES ASSUME Init PROVE EachOnce /\ Listed(submitted) /\ CreditAccounting
    BY Zenon
  <1>1. Range(<<>>) = {} /\ NoRepeat(<<>>)
    BY SMTT(60), Z3T(60) DEF Range, NoRepeat
  <1>2. Upstream = {} /\ Published = {} /\ Current = {} /\ held = {} /\ lost = {} /\ submitted = {}
    BY Zenon, <1>1, PayloadAssumption DEF Init, Upstream, Published, Current
  <1>3. Staged = {}
    BY Zenon, <1>1, <1>2 DEF Init, Staged, Delivered
  <1>4. Listed({})
    <2>1. {} \subseteq {<<>>[i] : i \in 1..0} /\ 0 \in Nat
      OBVIOUS
    <2> QED
      BY Zenon, <2>1 DEF Listed
  <1>5. SumFunctionOnSet(Bytes, {}) = 0
    BY Zenon, <1>4, BytesOfStaged
  <1>6. CreditAccounting
    BY Zenon, <1>3, <1>5 DEF CreditAccounting, Init
  <1>7. QueuesOnce
    BY Zenon, <1>1 DEF Init, QueuesOnce
  <1>8. StagesDisjoint
    BY Zenon, <1>1, <1>2, <1>3 DEF StagesDisjoint, Delivered, Init
  <1> QED
    BY Zenon, <1>2, <1>4, <1>6, <1>7, <1>8 DEF EachOnce

\* Only finitely many payloads have been submitted.
LEMMA ListedStep ==
    ASSUME Listed(submitted), StageMove
    PROVE  Listed(submitted')
  <1>1. CASE submitted' = submitted
    BY Zenon, <1>1
  <1>2. CASE SendMove
    <2>1. PICK p \in Payload : submitted' = submitted \cup {p}
      BY Zenon, <1>2 DEF SendMove
    <2>2. Listed(submitted \cup {p})
      BY Zenon, ListedAdd
    <2> QED
      BY Zenon, <2>1, <2>2
  <1> QED
    BY Zenon, <1>1, <1>2 DEF StageMove, QueueMove, ReserveMove, PostMove, PublishMove, DrainMove, LoseMove, ReleaseMove, RestartMove

\* One step of the transport
LEMMA TransportStep ==
    ASSUME TransportInv, EachOnce, [Next]_vars
    PROVE  TransportInv' /\ EachOnce' /\ StageMove
  <1>1. TransportInv'
    BY Zenon, TypeStep, HandshakeStep, AlignedStep, LandedStep, SendsTrackedStep
    DEF TransportInv
  <1>2. StageMove
    BY Zenon, StepMoves DEF TransportInv, EachOnce
  <1>3. QueuesOnce' /\ StagesDisjoint'
    BY Zenon, <1>2, QueuesOnceStep, MoveDisjoint DEF TransportInv, EachOnce
  <1> QED
    BY Zenon, <1>1, <1>2, <1>3 DEF EachOnce

\* A payload is in one place only between send and release_received: in a
\* queue of the producer, with the listener, among the posted receives, among
\* the published ones, with the worker, or given up by the listener.
THEOREM OnePlace == Spec => []EachOnce
  <1>1. Init => TransportInv /\ EachOnce
    BY Zenon, InitInv, InitCredit
  <1>2. TransportInv /\ EachOnce /\ [Next]_vars => TransportInv' /\ EachOnce'
    BY Zenon, TransportStep
  <1> QED
    BY <1>1, <1>2, PTL DEF Spec

\* _recv_reserved_bytes is the size of exactly the payloads that occupy
\* receiver staging: no path of the listener, of the completion loop or of the
\* worker returns a reservation twice or forgets one, and the clamp at zero in
\* release_received never hides a difference.
THEOREM CreditExact == Spec => []CreditAccounting
  <1> DEFINE I == TransportInv /\ EachOnce /\ Listed(submitted) /\ CreditAccounting
  <1>1. Init => I
    BY Zenon, InitInv, InitCredit
  <1>2. I /\ [Next]_vars => I'
    <2> SUFFICES ASSUME I, [Next]_vars PROVE I'
      BY Zenon
    <2>1. TransportInv' /\ EachOnce' /\ StageMove
      BY Zenon, TransportStep
    <2>2. Listed(submitted')
      BY Zenon, <2>1, ListedStep
    <2>3. CreditAccounting'
      BY Zenon, <2>1, <2>2, CreditStep DEF TransportInv, EachOnce
    <2> QED
      BY Zenon, <2>1, <2>2, <2>3
  <1>3. I => CreditAccounting
    BY Zenon
  <1> QED
    BY <1>1, <1>2, <1>3, PTL DEF Spec

-----------------------------------------------------------------------------
\* The connector.

\* Payloads in _worker_received_kv
BufferedSet == {p \in Payload : \E k \in Rid : p \in Range(buffered[k])}

\* Every step of the connector is one of the transport, or leaves it alone.
LEMMA ConnUsesTransport ==
    ASSUME ConnTypeOK, LoadProgress, [ConnNext]_connVars
    PROVE  [Next]_vars
  <1>1. CASE UNCHANGED connVars
    BY Zenon, <1>1 DEF connVars
  <1>2. CASE Transport
    BY Zenon, <1>2 DEF Transport, Next, ConsumerFaults
  <1>3. CASE Prefill
    BY Zenon, <1>3 DEF Prefill, SaveStep, SaveSend, SaveWait, Next, Clients
  <1>4. CASE \/ \E S \in SUBSET Payload : LoadStart(S)
             \/ \E r \in Payload : LoadTake(r)
             \/ LoadPoll
    BY Zenon, <1>4 DEF LoadStart, LoadTake, LoadPoll, Next, Clients
  <1>5. CASE LoadExpect \/ LoadTimeout \/ LoadDone
    <2>1. {RidOf[r] : r \in pending} \in SUBSET Rid /\ {} \in SUBSET Rid
      BY SMTT(60), Z3T(60), PayloadAssumption DEF ConnTypeOK
    <2>2. \E S \in SUBSET Rid : SetExpectedRequests(S)
      BY Zenon, <1>5, <2>1 DEF LoadExpect, LoadTimeout, LoadDone
    <2> QED
      BY Zenon, <2>2 DEF Next, Clients
  <1>6. CASE LoadInject \/ LoadInjectError
    <2>1. loadPc = "inject" /\ ReleaseReceived(loading[2])
      BY Zenon, <1>6 DEF LoadInject, LoadInjectError
    <2>2. loading \in Payload \X Payload
      BY Zenon, <2>1 DEF ConnTypeOK, LoadProgress
    <2>3. loading[2] \in Payload
      BY SMTT(60), Z3T(60), <2>2
    <2> QED
      BY Zenon, <2>1, <2>3 DEF Next, Clients
  <1> QED
    BY Zenon, <1>1, <1>2, <1>3, <1>4, <1>5, <1>6 DEF ConnNext, Decode

\* What a step does to the buffer: nothing, a drain, or the release of the
\* payload in hand; LoadTake is the fourth kind.
KeepStep == UNCHANGED <<held, buffered, loading, injected>>
DrainStep ==
    /\ DrainReceived /\ loading = None
    /\ buffered' = Drained /\ UNCHANGED <<loading, injected>>
GiveStep ==
    /\ loading # None /\ ReleaseReceived(loading[2])
    /\ loading' = None /\ UNCHANGED buffered
    /\ \/ injected' = [injected EXCEPT ![loading[1]] = loading[2]]
       \/ UNCHANGED injected
\* Every step is of one of these kinds.
LEMMA ConnCases ==
    ASSUME LoadProgress, [ConnNext]_connVars
    PROVE  KeepStep \/ DrainStep \/ GiveStep \/ \E r \in Payload : LoadTake(r)
  <1>1. CASE UNCHANGED connVars
    BY Zenon, <1>1 DEF connVars, vars, loadVars, KeepStep
  <1>2. CASE Transport
    <2>1. UNCHANGED held
      BY Zenon, <1>2 DEF Transport, ProducerThreads, ConsumerThreads, SendPop, SendRetry, SendRetire,
        SendPost, SendComplete, NcclTransfer, ListenInit, ListenPutBeforeInit, ListenPutRetry,
        ListenPutReserve, ListenAck, ListenPost, RecvComplete, ListenOom, ListenError, RecvError
    <2> QED
      BY Zenon, <1>2, <2>1 DEF Transport, loadVars, KeepStep
  <1>3. CASE Prefill
    BY Zenon, <1>3 DEF Prefill, SaveStep, SaveSend, SaveWait, Send, vars, loadVars, KeepStep
  <1>4. CASE (\E S \in SUBSET Payload : LoadStart(S)) \/ LoadPoll
    <2>1. loadPc \in {"run", "loop"} /\ loading = None
      BY Zenon, <1>4 DEF LoadStart, LoadPoll, LoadProgress
    <2> QED
      BY Zenon, <1>4, <2>1 DEF LoadStart, LoadPoll, DrainStep
  <1>5. CASE LoadExpect \/ LoadTimeout \/ LoadDone
    BY Zenon, <1>5 DEF LoadExpect, LoadTimeout, LoadDone, SetExpectedRequests, KeepStep
  <1>6. CASE LoadInject \/ LoadInjectError
    BY Zenon, <1>6 DEF LoadInject, LoadInjectError, LoadProgress, GiveStep
  <1> QED
    BY Zenon, <1>1, <1>2, <1>3, <1>4, <1>5, <1>6 DEF ConnNext, Decode

\* What the buffer holds after a drain: what it held and what was published,
\* each once and under its own key.
LEMMA DrainedBuffer ==
    ASSUME TypeOK, EachOnce, ConnTypeOK, CreditOwed, BufferedOnce
    PROVE  /\ Drained \in [Rid -> Seq(Payload \cup {Failed})]
           /\ \A k \in Rid : /\ Range(Drained[k]) = Range(buffered[k]) \cup Range(received[k])
                             /\ NoRepeat(Drained[k])
                             /\ \A p \in Payload \cap Range(Drained[k]) : RidOf[p] = k
           /\ {p \in Payload : \E k \in Rid : p \in Range(Drained[k])} = BufferedSet \cup Published
  <1>1. ASSUME NEW k \in Rid
        PROVE  /\ Drained[k] \in Seq(Payload \cup {Failed})
               /\ Range(Drained[k]) = Range(buffered[k]) \cup Range(received[k])
               /\ NoRepeat(Drained[k])
               /\ \A p \in Payload \cap Range(Drained[k]) : RidOf[p] = k
    <2>1. Drained[k] = buffered[k] \o received[k]
      BY Zenon DEF Drained
    <2>2. /\ buffered[k] \in Seq(Payload \cup {Failed}) /\ received[k] \in Seq(Payload \cup {Failed})
          /\ NoRepeat(buffered[k]) /\ NoRepeat(received[k])
          /\ \A p \in Payload \cap Range(buffered[k]) : RidOf[p] = k
          /\ \A p \in Payload \cap Range(received[k]) : RidOf[p] = k
      BY Zenon DEF TypeOK, ConnTypeOK, EachOnce, QueuesOnce, BufferedOnce
    <2>3. Range(buffered[k]) \subseteq Payload \cup {Failed}
      BY Zenon, <2>2, SeqElements
    <2>4. \A p \in Payload : ~ (p \in Range(buffered[k]) /\ p \in Range(received[k]))
      <3> SUFFICES ASSUME NEW p \in Payload, p \in Range(buffered[k]), p \in Range(received[k])
                   PROVE  FALSE
        BY Zenon
      <3>1. p \in held
        BY Zenon DEF CreditOwed
      <3>2. p \in Published
        BY Zenon DEF Published
      <3> QED
        BY Zenon, <3>1, <3>2 DEF EachOnce, StagesDisjoint
    <2>5. Range(buffered[k]) \cap Range(received[k]) \subseteq {Failed}
      BY Zenon, <2>3, <2>4
    <2>6. /\ Drained[k] \in Seq(Payload \cup {Failed})
          /\ Range(Drained[k]) = Range(buffered[k]) \cup Range(received[k])
          /\ NoRepeat(Drained[k])
      BY <2>1, <2>2, <2>5, NoRepeatConcat
    <2> QED
      BY Zenon, <2>2, <2>6
  <1>2. Drained \in [Rid -> Seq(Payload \cup {Failed})]
    <2>1. \A k \in Rid : Drained[k] \in Seq(Payload \cup {Failed})
      BY Zenon, <1>1
    <2>2. Drained = [k \in Rid |-> buffered[k] \o received[k]]
      BY Zenon DEF Drained
    <2> QED
      BY Zenon, <2>1, <2>2
  <1>3. {p \in Payload : \E k \in Rid : p \in Range(Drained[k])} = BufferedSet \cup Published
    BY Zenon, <1>1 DEF BufferedSet, Published
  <1> QED
    BY Zenon, <1>1, <1>2, <1>3

\* LoadTake: the first entry of one key leaves the drained buffer.
LEMMA TakeEffect ==
    ASSUME TypeOK, EachOnce, ConnTypeOK, CreditOwed, BufferedOnce, LoadProgress,
           NEW r \in Payload, LoadTake(r)
    PROVE  \E x \in Payload \cup {Failed} :
             /\ buffered' \in [Rid -> Seq(Payload \cup {Failed})]
             /\ loading = None
             /\ loading' = IF x = Failed THEN None ELSE <<r, x>>
             /\ loadPc' = IF x = Failed THEN "stopped" ELSE "inject"
             /\ x # Failed => RidOf[x] = RidOf[r]
             /\ \A k \in Rid :
                   /\ NoRepeat(buffered'[k])
                   /\ \A p \in Payload \cap Range(buffered'[k]) : RidOf[p] = k /\ p # x
             /\ BufferedSet' = (BufferedSet \cup Published) \ {x}
             /\ x # Failed => x \in BufferedSet \cup Published
  <1> DEFINE k0 == RidOf[r]
             q == Drained[k0]
             x == Head(q)
  <1>1. r \in Payload /\ k0 \in Rid /\ Failed \notin Payload
    BY Zenon, PayloadAssumption
  <1>2. /\ loading = None /\ q # <<>>
        /\ loading' = IF x = Failed THEN None ELSE <<r, x>>
        /\ loadPc' = IF x = Failed THEN "stopped" ELSE "inject"
    BY Zenon DEF LoadTake, Ready, LoadOutcome, LoadProgress
  <1>3. buffered' = [Drained EXCEPT ![k0] = Tail(q)]
    BY Zenon DEF LoadTake
  <1>4. /\ Drained \in [Rid -> Seq(Payload \cup {Failed})]
        /\ \A k \in Rid : /\ NoRepeat(Drained[k])
                          /\ \A p \in Payload \cap Range(Drained[k]) : RidOf[p] = k
        /\ {p \in Payload : \E k \in Rid : p \in Range(Drained[k])} = BufferedSet \cup Published
    BY Zenon, DrainedBuffer
  <1>5. q \in Seq(Payload \cup {Failed}) /\ NoRepeat(q)
    BY Zenon, <1>1, <1>4
  <1> HIDE DEF q
  <1>6. /\ x \in Payload \cup {Failed} /\ Tail(q) \in Seq(Payload \cup {Failed})
        /\ Range(q) = {x} \cup Range(Tail(q))
    BY Zenon, <1>2, <1>5, HeadTailRange
  <1>7. NoRepeat(Tail(q)) /\ (x = Failed \/ x \notin Range(Tail(q)))
    BY Zenon, <1>2, <1>5, NoRepeatTail
  <1> HIDE DEF x
  <1>8. buffered' \in [Rid -> Seq(Payload \cup {Failed})]
    BY Zenon, <1>3, <1>4, <1>6
  <1>9. /\ buffered'[k0] = Tail(q)
        /\ \A k \in Rid \ {k0} : buffered'[k] = Drained[k]
    BY Zenon, <1>1, <1>3, <1>4
  <1> HIDE DEF k0
  <1>10. Drained[k0] = q
    BY Zenon DEF q
  <1>11. x # Failed => RidOf[x] = k0 /\ x \in BufferedSet \cup Published /\ x \in Payload
    BY Zenon, <1>1, <1>4, <1>6, <1>10
  <1>12. ASSUME NEW k \in Rid
         PROVE  /\ NoRepeat(buffered'[k])
                /\ \A p \in Payload \cap Range(buffered'[k]) : RidOf[p] = k /\ p # x
    <2>1. CASE k = k0
      <3>1. NoRepeat(buffered'[k]) /\ Range(buffered'[k]) = Range(Tail(q))
        BY Zenon, <1>7, <1>9, <2>1
      <3> QED
        BY Zenon, <1>1, <1>4, <1>6, <1>7, <1>10, <2>1, <3>1
    <2>2. CASE k # k0
      <3>1. buffered'[k] = Drained[k]
        BY Zenon, <1>9, <2>2
      <3> QED
        BY Zenon, <1>1, <1>4, <1>11, <2>2, <3>1
    <2> QED
      BY Zenon, <2>1, <2>2
  <1>13. BufferedSet' = (BufferedSet \cup Published) \ {x}
    <2>1. BufferedSet' = {p \in Payload : \E k \in Rid : p \in Range(buffered'[k])}
      BY Zenon DEF BufferedSet
    <2>2. ASSUME NEW p \in Payload
          PROVE  (\E k \in Rid : p \in Range(buffered'[k]))
                 <=> (\E k \in Rid : p \in Range(Drained[k])) /\ p # x
      <3>1. ASSUME NEW k \in Rid, p \in Range(buffered'[k]) PROVE p \in Range(Drained[k]) /\ p # x
        <4>1. p # x
          BY Zenon, <1>12, <3>1
        <4>2. CASE k = k0
          BY Zenon, <1>6, <1>9, <1>10, <3>1, <4>1, <4>2
        <4>3. CASE k # k0
          BY Zenon, <1>9, <3>1, <4>1, <4>3
        <4> QED
          BY Zenon, <4>2, <4>3
      <3>2. ASSUME NEW k \in Rid, p \in Range(Drained[k]), p # x PROVE p \in Range(buffered'[k])
        <4>2. CASE k = k0
          BY Zenon, <1>6, <1>9, <1>10, <3>2, <4>2
        <4>3. CASE k # k0
          BY Zenon, <1>9, <3>2, <4>3
        <4> QED
          BY Zenon, <4>2, <4>3
      <3> QED
        BY Zenon, <3>1, <3>2
    <2>3. \A p \in Payload : p \in BufferedSet' <=> p \in BufferedSet \cup Published /\ p # x
      <3> SUFFICES ASSUME NEW p \in Payload
                   PROVE  p \in BufferedSet' <=> p \in BufferedSet \cup Published /\ p # x
        BY Zenon
      <3>1. p \in BufferedSet' <=> \E k \in Rid : p \in Range(buffered'[k])
        BY Zenon, <2>1
      <3>2. p \in BufferedSet \cup Published <=> \E k \in Rid : p \in Range(Drained[k])
        BY Zenon, <1>4
      <3> QED
        BY Zenon, <2>2, <3>1, <3>2
    <2>4. BufferedSet' \subseteq Payload /\ BufferedSet \cup Published \subseteq Payload
      BY Zenon, <2>1 DEF BufferedSet, Published
    <2> QED
      BY Zenon, <2>3, <2>4
  <1>14. x # Failed => RidOf[x] = RidOf[r]
    BY Zenon, <1>11 DEF k0
  <1> QED
    BY Zenon, <1>2, <1>6, <1>8, <1>11, <1>12, <1>13, <1>14

-----------------------------------------------------------------------------
\* A pair and its parts
LEMMA PairParts ==
    ASSUME NEW A, NEW a \in A, NEW b \in A
    PROVE  <<a, b>> \in A \X A /\ <<a, b>>[1] = a /\ <<a, b>>[2] = b
  OBVIOUS

\* The types of the engines' state are kept.
LEMMA ConnTypeStep ==
    ASSUME TypeOK, EachOnce, ConnTypeOK, CreditOwed, BufferedOnce, LoadProgress,
           [ConnNext]_connVars
    PROVE  ConnTypeOK'
  <1> USE DEF ConnTypeOK, saveVars, loadVars
  <1>1. CASE UNCHANGED connVars \/ Transport
    BY Zenon, <1>1 DEF connVars, Transport
  <1>2. CASE Prefill
    BY Zenon, <1>2 DEF Prefill, SaveStep, SaveSend, SaveWait
  <1>3. Drained \in [Rid -> Seq(Payload \cup {Failed})]
    BY Zenon, DrainedBuffer
  <1>4. CASE (\E S \in SUBSET Payload : LoadStart(S)) \/ LoadPoll
    BY Zenon, <1>3, <1>4 DEF LoadStart, LoadPoll
  <1>5. CASE LoadExpect \/ LoadTimeout \/ LoadDone
    BY Zenon, <1>5 DEF LoadExpect, LoadTimeout, LoadDone
  <1>6. ASSUME NEW r \in Payload, LoadTake(r) PROVE ConnTypeOK'
    <2>1. PICK x \in Payload \cup {Failed} :
             /\ buffered' \in [Rid -> Seq(Payload \cup {Failed})]
             /\ loading' = IF x = Failed THEN None ELSE <<r, x>>
             /\ loadPc' = IF x = Failed THEN "stopped" ELSE "inject"
      BY Zenon, <1>6, TakeEffect
    <2>2. loading' \in (Payload \X Payload) \cup {None}
      BY Zenon, <2>1, PairParts
    <2>3. pending' \subseteq Payload /\ UNCHANGED <<savePc, toSave, scheduled, injected>>
      BY Zenon, <1>6 DEF LoadTake
    <2>4. loadPc' \in {"run", "start", "loop", "inject", "stopped"}
      BY Zenon, <2>1
    <2> QED
      BY Zenon, <2>1, <2>2, <2>3, <2>4
  <1>7. CASE LoadInject \/ LoadInjectError
    <2>1. loading \in Payload \X Payload
      BY Zenon, <1>7 DEF LoadInject, LoadInjectError, LoadProgress
    <2>2. loading[1] \in Payload /\ loading[2] \in Payload
      BY SMTT(60), Z3T(60), <2>1
    <2>3. injected' \in [Payload -> Payload \cup {None}]
      BY Zenon, <1>7, <2>2 DEF LoadInject, LoadInjectError
    <2> QED
      BY Zenon, <1>7, <2>3 DEF LoadInject, LoadInjectError
  <1> QED
    BY Zenon, <1>1, <1>2, <1>4, <1>5, <1>6, <1>7 DEF ConnNext, Decode

\* What the connector has drained is what it owes credit for.
LEMMA BufferStep ==
    ASSUME TypeOK, EachOnce, ConnTypeOK, CreditOwed, BufferedOnce, LoadProgress,
           [ConnNext]_connVars
    PROVE  CreditOwed' /\ BufferedOnce'
  <1> DEFINE InHand == IF loading = None THEN {} ELSE {loading[2]}
  <1>1. held = BufferedSet \cup InHand
    BY Zenon DEF CreditOwed, BufferedSet
  <1>2. CreditOwed' <=> held' = BufferedSet' \cup InHand'
    BY Zenon DEF CreditOwed, BufferedSet
  <1>3. CASE KeepStep
    BY Zenon, <1>3 DEF KeepStep, CreditOwed, BufferedOnce
  <1>4. CASE DrainStep
    <2>1. BufferedSet' = {p \in Payload : \E k \in Rid : p \in Range(Drained[k])}
      BY Zenon, <1>4 DEF DrainStep, BufferedSet
    <2>2. BufferedSet' = BufferedSet \cup Published
      BY Zenon, <2>1, DrainedBuffer
    <2>3. held' = held \cup Published /\ loading = None /\ loading' = None
      BY Zenon, <1>4 DEF DrainStep, DrainReceived, Published
    <2>4. CreditOwed'
      BY Zenon, <1>1, <1>2, <2>2, <2>3
    <2>5. BufferedOnce'
      BY Zenon, <1>4, <2>3, DrainedBuffer DEF DrainStep, BufferedOnce
    <2> QED
      BY Zenon, <2>4, <2>5
  <1>5. CASE GiveStep
    <2>1. loading # None /\ loading' = None /\ held' = held \ {loading[2]} /\ buffered' = buffered
      BY Zenon, <1>5 DEF GiveStep, ReleaseReceived
    <2>2. loading[2] \notin BufferedSet
      BY Zenon, <2>1 DEF BufferedOnce, BufferedSet
    <2>3. BufferedSet' = BufferedSet
      BY Zenon, <2>1 DEF BufferedSet
    <2>4. CreditOwed'
      BY Zenon, <1>1, <1>2, <2>1, <2>2, <2>3
    <2>5. BufferedOnce'
      BY Zenon, <2>1 DEF BufferedOnce
    <2> QED
      BY Zenon, <2>4, <2>5
  <1>6. ASSUME NEW r \in Payload, LoadTake(r) PROVE CreditOwed' /\ BufferedOnce'
    <2>1. PICK x \in Payload \cup {Failed} :
             /\ loading = None
             /\ loading' = IF x = Failed THEN None ELSE <<r, x>>
             /\ \A k \in Rid :
                   /\ NoRepeat(buffered'[k])
                   /\ \A p \in Payload \cap Range(buffered'[k]) : RidOf[p] = k /\ p # x
             /\ BufferedSet' = (BufferedSet \cup Published) \ {x}
             /\ x # Failed => x \in BufferedSet \cup Published
      BY Zenon, <1>6, TakeEffect
    <2>2. held' = held \cup Published
      BY Zenon, <1>6 DEF LoadTake, DrainReceived, Published
    <2>3. Failed \notin Payload /\ None \notin Payload \X Payload
      BY Zenon, PayloadAssumption, ConnectorAssumption
    <2>4. BufferedSet \cup Published \subseteq Payload
      BY Zenon DEF BufferedSet, Published
    <2>5. CASE x = Failed
      <3>3. Failed \notin BufferedSet \cup Published
        BY Zenon, <2>3, <2>4
      <3>4. BufferedSet' = BufferedSet \cup Published
        BY Zenon, <2>1, <2>5, <3>3
      <3>5. InHand = {} /\ InHand' = {}
        BY Zenon, <2>1, <2>5
      <3>1. CreditOwed'
        BY Zenon, <1>1, <1>2, <2>2, <3>4, <3>5
      <3>2. BufferedOnce'
        BY Zenon, <2>1, <2>5 DEF BufferedOnce
      <3> QED
        BY Zenon, <3>1, <3>2
    <2>6. CASE x # Failed
      <3>1. x \in Payload /\ loading' = <<r, x>>
        BY Zenon, <2>1, <2>6
      <3>2. <<r, x>> \in Payload \X Payload /\ <<r, x>>[2] = x
        BY Zenon, <3>1, PairParts
      <3>3. loading' # None /\ loading'[2] = x
        BY Zenon, <2>3, <3>1, <3>2
      <3>6. InHand = {} /\ InHand' = {x}
        BY Zenon, <2>1, <3>3
      <3>7. /\ held' = BufferedSet \cup Published
            /\ BufferedSet' = (BufferedSet \cup Published) \ {x}
            /\ x \in BufferedSet \cup Published
        BY Zenon, <1>1, <2>1, <2>2, <2>6, <3>6
      <3>4. CreditOwed'
        BY Zenon, <1>2, <3>6, <3>7
      <3>5. BufferedOnce'
        BY Zenon, <2>1, <3>3 DEF BufferedOnce
      <3> QED
        BY Zenon, <3>4, <3>5
    <2> QED
      BY Zenon, <2>5, <2>6
  <1> QED
    BY Zenon, <1>3, <1>4, <1>5, <1>6, ConnCases

\* A scheduled request is not forgotten.
LEMMA ProgressStep ==
    ASSUME TypeOK, EachOnce, ConnTypeOK, CreditOwed, BufferedOnce, LoadProgress,
           [ConnNext]_connVars
    PROVE  LoadProgress'
  <1> USE DEF LoadProgress, Stopped
  <1>1. CASE UNCHANGED connVars \/ Transport \/ Prefill
    <2>1. UNCHANGED loadVars
      BY Zenon, <1>1 DEF connVars, Transport, Prefill, SaveStep, SaveSend, SaveWait
    <2> QED
      BY Zenon, <2>1 DEF loadVars
  <1>2. CASE (\E S \in SUBSET Payload : LoadStart(S)) \/ LoadPoll
    BY Zenon, <1>2 DEF LoadStart, LoadPoll
  <1>3. CASE LoadExpect \/ LoadTimeout \/ LoadDone
    BY Zenon, <1>3 DEF LoadExpect, LoadTimeout, LoadDone
  <1>4. ASSUME NEW r \in Payload, LoadTake(r) PROVE LoadProgress'
    <2>1. PICK x \in Payload \cup {Failed} :
             /\ loading = None
             /\ loading' = IF x = Failed THEN None ELSE <<r, x>>
             /\ loadPc' = IF x = Failed THEN "stopped" ELSE "inject"
             /\ x # Failed => RidOf[x] = RidOf[r]
      BY Zenon, <1>4, TakeEffect
    <2>2. loadPc = "loop" /\ pending' = pending \ {r} /\ UNCHANGED <<scheduled, injected>>
      BY Zenon, <1>4 DEF LoadTake
    <2>3. CASE x = Failed
      BY Zenon, <2>1, <2>2, <2>3
    <2>4. CASE x # Failed
      <3>1. x \in Payload /\ loading' = <<r, x>> /\ loadPc' = "inject"
        BY Zenon, <2>1, <2>4
      <3>2. <<r, x>> \in Payload \X Payload /\ <<r, x>>[1] = r /\ <<r, x>>[2] = x
        BY Zenon, <3>1, PairParts
      <3>3. loading' # None /\ loading'[1] = r /\ loading'[2] = x
        BY Zenon, <3>1, <3>2, ConnectorAssumption
      <3> QED
        BY Zenon, <2>1, <2>2, <2>4, <3>1, <3>3
    <2> QED
      BY Zenon, <2>3, <2>4
  <1>5. CASE LoadInject
    <2>1. /\ loadPc = "inject" /\ loadPc' = "loop" /\ loading' = None
          /\ injected' = [injected EXCEPT ![loading[1]] = loading[2]]
          /\ UNCHANGED <<pending, scheduled>>
      BY Zenon, <1>5 DEF LoadInject
    <2>2. loading \in Payload \X Payload
      BY Zenon, <2>1 DEF ConnTypeOK
    <2>3. loading[1] \in Payload /\ loading[2] \in Payload /\ None \notin Payload
      BY SMTT(60), Z3T(60), <2>2, PayloadAssumption
    <2>4. /\ injected'[loading[1]] # None
          /\ \A r \in Payload \ {loading[1]} : injected'[r] = injected[r]
      BY Zenon, <2>1, <2>3 DEF ConnTypeOK
    <2>5. ASSUME NEW r \in scheduled' PROVE injected'[r] # None \/ r \in pending'
      <3>1. r \in Payload /\ r \in scheduled
        BY Zenon, <2>1 DEF ConnTypeOK
      <3>2. injected[r] # None \/ r \in pending \/ loading[1] = r
        BY Zenon, <2>1, <3>1
      <3> QED
        BY Zenon, <2>1, <2>4, <3>1, <3>2
    <2> QED
      BY Zenon, <2>1, <2>5
  <1>6. CASE LoadInjectError
    BY Zenon, <1>6 DEF LoadInjectError
  <1> QED
    BY Zenon, <1>1, <1>2, <1>3, <1>4, <1>5, <1>6 DEF ConnNext, Decode

\* A received buffer is written again only while its receive is under way.
LEMMA LandedStable ==
    ASSUME TypeOK, QueuesOnce, [Next]_vars, NEW p \in Payload, p \notin Staged
    PROVE  landed'[p] = landed[p]
  <1>1. CASE NcclTransfer
    <2>1. /\ recvStream \in Seq(Payload) /\ recvStream # <<>>
          /\ landed' = [landed EXCEPT ![Head(recvStream)] = Head(sendStream)]
      BY Zenon, <1>1 DEF NcclTransfer, TypeOK
    <2>2. Head(recvStream) \in Range(recvStream)
      BY Zenon, <2>1, HeadTailRange
    <2>3. Head(recvStream) # p
      BY Zenon, <2>2 DEF QueuesOnce, Staged
    <2> QED
      BY Zenon, <2>1, <2>3 DEF TypeOK
  <1>2. CASE ~ NcclTransfer
    <2>1. UNCHANGED landed
      BY Zenon, <1>2 DEF Next, vars, ncclVars, Clients, ConsumerFaults, ProducerThreads, ConsumerThreads,
        SendPop, SendRetry, SendRetire,
        SendPost, SendComplete, ListenInit, ListenPutBeforeInit, ListenPutRetry,
        ListenPutReserve, ListenAck, ListenPost, RecvComplete, ListenOom, ListenError, RecvError,
        ConsumerRestart, Send, ReleaseReceived, DrainReceived, SetExpectedRequests
    <2> QED
      BY Zenon, <2>1
  <1> QED
    BY Zenon, <1>1, <1>2

\* What was submitted stays so.
LEMMA SubmittedGrows ==
    ASSUME StageMove
    PROVE  submitted \subseteq submitted'
  BY Zenon DEF StageMove, QueueMove, SendMove, ReserveMove, PostMove, PublishMove, DrainMove,
    LoseMove, ReleaseMove, RestartMove

\* What is injected is intact, of the right key, in one request only and gone
\* from the transport.
LEMMA InjectedStep ==
    ASSUME TransportInv, EachOnce, ConnTypeOK, CreditOwed, BufferedOnce, LoadProgress,
           InjectedGone, [ConnNext]_connVars
    PROVE  InjectedGone'
  <1> DEFINE Gone(x) == landed[x] = x /\ x \in submitted /\ x \notin Upstream \cup Staged
  <1>1. [Next]_vars
    BY Zenon, ConnUsesTransport
  <1>2. StageMove
    BY Zenon, <1>1, TransportStep
  <1>3. ASSUME NEW x \in Payload, Gone(x) PROVE Gone(x)'
    <2>1. landed'[x] = landed[x]
      BY Zenon, <1>1, <1>3, LandedStable DEF TransportInv, EachOnce
    <2>2. Upstream' \cup Staged' \subseteq Upstream \cup Staged \cup (submitted' \ submitted)
      BY Zenon, <1>2, MoveForward DEF EachOnce
    <2>3. x \in submitted'
      BY Zenon, <1>2, <1>3, SubmittedGrows
    <2> QED
      BY Zenon, <1>3, <2>1, <2>2, <2>3
  <1>4. ASSUME NEW r \in Payload, injected[r] # None
        PROVE  injected[r] \in Payload /\ Gone(injected[r]) /\ RidOf[injected[r]] = RidOf[r]
    BY Zenon, <1>4 DEF ConnTypeOK, InjectedGone
  <1>5. CASE UNCHANGED injected
    <2> SUFFICES ASSUME NEW r \in Payload, injected'[r] # None
                 PROVE  /\ RidOf[injected'[r]] = RidOf[r]
                        /\ landed'[injected'[r]] = injected'[r]
                        /\ injected'[r] \in submitted' /\ injected'[r] \notin Upstream' \cup Staged'
                        /\ \A q \in Payload : injected'[q] = injected'[r] => q = r
      BY Zenon DEF InjectedGone
    <2>1. PICK x \in Payload : x = injected[r] /\ Gone(x) /\ RidOf[x] = RidOf[r]
      BY Zenon, <1>4, <1>5
    <2>2. Gone(x)'
      BY Zenon, <1>3, <2>1
    <2>3. \A q \in Payload : injected[q] = injected[r] => q = r
      BY Zenon, <1>5 DEF InjectedGone
    <2> QED
      BY Zenon, <1>5, <2>1, <2>2, <2>3
  <1>6. CASE GiveStep /\ injected' = [injected EXCEPT ![loading[1]] = loading[2]]
    <2>1. loading \in Payload \X Payload
      BY Zenon, <1>6 DEF GiveStep, ConnTypeOK
    <2>2. PICK s \in Payload, y \in Payload : s = loading[1] /\ y = loading[2]
      <3>1. loading[1] \in Payload /\ loading[2] \in Payload
        BY SMTT(60), Z3T(60), <2>1
      <3> QED
        BY Zenon, <3>1
    <2>3. RidOf[y] = RidOf[s] /\ ReleaseReceived(y)
      BY Zenon, <1>6, <2>2 DEF GiveStep, LoadProgress
    <2>4. y \in held /\ held' = held \ {y}
      BY Zenon, <2>3 DEF ReleaseReceived
    <2>5. landed'[y] = y
      BY Zenon, <2>3, <2>4 DEF ReleaseReceived, ncclVars, TransportInv, Landed, PublishedIntact, Delivered
    <2>6. y \in Staged
      BY Zenon, <2>4 DEF Staged, Delivered
    <2>7. y \in submitted' /\ y \notin Upstream' \cup Staged'
      <3>1. UNCHANGED <<submitted, Upstream, Current, Published, lost, recvCompletions>>
        BY Zenon, <2>3 DEF ReleaseReceived, sendVars, listenVars, Upstream, Current, Published
      <3>2. y \in submitted /\ y \notin Upstream
        BY Zenon, <2>6 DEF EachOnce, StagesDisjoint
      <3>3. y \notin Current /\ y \notin Range(recvCompletions) /\ y \notin lost /\ y \notin Published
        BY Zenon, <2>4 DEF EachOnce, StagesDisjoint, Delivered
      <3> QED
        BY Zenon, <2>4, <3>1, <3>2, <3>3 DEF Staged, Delivered
    <2>8. \A q \in Payload : injected[q] # y
      <3>1. y # None
        BY Zenon, <2>2, PayloadAssumption
      <3> QED
        BY Zenon, <1>4, <2>6, <3>1
    <2>9. injected'[s] = y /\ \A q \in Payload \ {s} : injected'[q] = injected[q]
      BY Zenon, <1>6, <2>2 DEF ConnTypeOK
    <2> SUFFICES ASSUME NEW r \in Payload, injected'[r] # None
                 PROVE  /\ RidOf[injected'[r]] = RidOf[r]
                        /\ landed'[injected'[r]] = injected'[r]
                        /\ injected'[r] \in submitted' /\ injected'[r] \notin Upstream' \cup Staged'
                        /\ \A q \in Payload : injected'[q] = injected'[r] => q = r
      BY Zenon DEF InjectedGone
    <2>10. CASE r = s
      <3>1. injected'[r] = y
        BY Zenon, <2>9, <2>10
      <3>2. \A q \in Payload : injected'[q] = y => q = r
        BY Zenon, <2>8, <2>9, <2>10
      <3> QED
        BY Zenon, <2>3, <2>5, <2>7, <2>10, <3>1, <3>2
    <2>11. CASE r # s
      <3>1. PICK x \in Payload : x = injected[r] /\ x = injected'[r] /\ Gone(x) /\ RidOf[x] = RidOf[r]
        BY Zenon, <1>4, <2>9, <2>11
      <3>2. Gone(x)'
        BY Zenon, <1>3, <3>1
      <3>3. \A q \in Payload : injected[q] = injected[r] => q = r
        BY Zenon, <2>9, <2>11 DEF InjectedGone
      <3>4. y # x
        BY Zenon, <2>8, <3>1
      <3>5. \A q \in Payload : injected'[q] = x => q = r
        BY Zenon, <2>9, <3>1, <3>3, <3>4
      <3> QED
        BY Zenon, <3>1, <3>2, <3>5
    <2> QED
      BY Zenon, <2>10, <2>11
  <1> QED
    <2>1. UNCHANGED injected \/ (GiveStep /\ injected' = [injected EXCEPT ![loading[1]] = loading[2]])
      BY Zenon, ConnCases DEF KeepStep, DrainStep, GiveStep, LoadTake
    <2> QED
      BY Zenon, <1>5, <1>6, <2>1

\* Nothing is buffered, scheduled or injected at the start.
LEMMA ConnInitInv == ConnInit => ConnInv
  <1> SUFFICES ASSUME ConnInit PROVE ConnInv
    BY Zenon
  <1>1. TransportInv /\ EachOnce
    BY Zenon, InitInv, InitCredit DEF ConnInit
  <1>2. Range(<<>>) = {} /\ NoRepeat(<<>>) /\ <<>> \in Seq(Payload \cup {Failed})
    BY SMTT(60), Z3T(60) DEF Range, NoRepeat
  <1>3. \A k \in Rid : buffered[k] = <<>>
    BY Zenon DEF ConnInit
  <1>4. \A r \in Payload : injected[r] = None
    BY Zenon DEF ConnInit
  <1>5. ConnTypeOK
    BY Zenon, <1>2 DEF ConnInit, ConnTypeOK
  <1>6. CreditOwed
    <2>1. held = {} /\ loading = None
      BY Zenon DEF ConnInit, Init
    <2> QED
      BY Zenon, <1>2, <1>3, <2>1 DEF CreditOwed
  <1>7. BufferedOnce
    BY Zenon, <1>2, <1>3 DEF BufferedOnce
  <1>8. LoadProgress
    BY Zenon DEF ConnInit, LoadProgress
  <1>9. InjectedGone
    BY Zenon, <1>4 DEF InjectedGone
  <1> QED
    BY Zenon, <1>1, <1>5, <1>6, <1>7, <1>8, <1>9 DEF ConnInv

\* ConnInv is an invariant of the two engines on top of the transport.
THEOREM ConnectorInvariant == ConnSpec => []ConnInv
  <1>1. ConnInv /\ [ConnNext]_connVars => ConnInv'
    <2> SUFFICES ASSUME ConnInv, [ConnNext]_connVars PROVE ConnInv'
      BY Zenon
    <2> USE DEF ConnInv
    <2>1. TransportInv' /\ EachOnce'
      BY Zenon, ConnUsesTransport, TransportStep
    <2>2. ConnTypeOK' /\ CreditOwed' /\ BufferedOnce' /\ LoadProgress'
      BY Zenon, ConnTypeStep, BufferStep, ProgressStep DEF TransportInv
    <2>3. InjectedGone'
      BY Zenon, InjectedStep
    <2> QED
      BY Zenon, <2>1, <2>2, <2>3
  <1> QED
    BY ConnInitInv, <1>1, PTL DEF ConnSpec

\* The connector calls the transport only as the transport specifies: its
\* steps are steps of the transport, so what is proved of every behaviour of
\* the transport holds underneath the connector.
THEOREM ConnectorUsesTransport == ConnSpec => Spec
  <1>1. ConnInit => Init
    BY Zenon DEF ConnInit
  <1>2. ConnInv /\ [ConnNext]_connVars => [Next]_vars
    BY Zenon, ConnUsesTransport DEF ConnInv
  <1> QED
    BY <1>1, <1>2, ConnectorInvariant, PTL DEF ConnSpec, Spec

\* When start_load_kv returns, every request it was ever given has the intact
\* KV of its own key and no payload serves two requests; a transfer that fails
\* or does not arrive stops the engine instead.
THEOREM LoadedOrStopped == ConnSpec => []NoMissingKV
  <1>1. ConnInv => NoMissingKV
    <2> SUFFICES ASSUME ConnInv PROVE NoMissingKV
      BY Zenon
    <2>1. loadPc = "run" => \A r \in scheduled : injected[r] # None
      BY Zenon DEF ConnInv, LoadProgress, Stopped
    <2> QED
      BY Zenon, <2>1 DEF ConnInv, InjectedGone, NoMissingKV
  <1> QED
    BY <1>1, ConnectorInvariant, PTL

\* Every path of start_load_kv, also the ones that raise, returns the credit of
\* what it took: the connector owes exactly what it has buffered or in hand.
THEOREM CreditReturned == ConnSpec => []CreditOwed
  <1>1. ConnInv => CreditOwed
    BY Zenon DEF ConnInv
  <1> QED
    BY <1>1, ConnectorInvariant, PTL
=============================================================================
