-------------------------- MODULE MCSessionRanks --------------------------
(***************************************************************************)
(* Two instances of the session helper in one run: two decode ranks pull    *)
(* one block table, in two chunks and in one.  In the instance of the cfg   *)
(* every chunk can have a slot, so that a session fails and aborts while    *)
(* another chunk of it is encoded.  In Scarce a rank has one slot and so    *)
(* has the producer, and what a session waits for must come.                *)
(***************************************************************************)
EXTENDS SessionConsumer

CONSTANTS s1, s2, t1, k1, k2, r1, r2, r3
VARIABLE shape

OneTransfer == [s \in {s1, s2} |-> t1]
Chunks == [s \in {s1, s2} |-> IF s = s1 THEN 2 ELSE 1]
SlotPerChunk == [s \in {s1, s2} |-> IF s = s1 THEN {r1, r2} ELSE {r3}]
SlotPerRank == [s \in {s1, s2} |-> IF s = s1 THEN {r1} ELSE {r3}]

Scarce == INSTANCE SessionConsumer WITH SenderSlot <- {k1}, SlotsOf <- SlotPerRank

mcVars == <<sessionVars, shape>>

MCInit == \/ shape = "ample" /\ ConsInit
          \/ shape = "scarce" /\ Scarce!ConsInit

MCNext ==
    /\ UNCHANGED shape
    /\ \/ shape = "ample" /\ ConsNext
       \/ shape = "scarce" /\ Scarce!ConsNext

\* The fairness of FairSessionSpec, for the instance with scarce slots
Helper(A) == shape = "scarce" /\ A /\ UNCHANGED <<consVars, shape>>
Rank(A) == shape = "scarce" /\ A /\ UNCHANGED shape

MCFairSpec ==
    /\ MCInit /\ [][MCNext]_mcVars
    /\ \A s \in Session :
          /\ WF_mcVars(Rank(Scarce!SessionCoroutine(s)))
          /\ WF_mcVars(Rank(Scarce!Issuer(s)))
          /\ WF_mcVars(Rank(Scarce!Decoder(s)))
          /\ WF_mcVars(Helper(Scarce!OpenTask(s)))
          /\ WF_mcVars(Helper(Scarce!ChunkTask(s)))
          /\ WF_mcVars(Helper(Scarce!AbortTask(s)))
    /\ \A t \in Transfer : WF_mcVars(Helper(Scarce!Sweep(t)))

\* SlotsConserved in both instances: no error path loses a slot or puts one back
\* twice.
SlotsKept == IF shape = "ample" THEN SlotsConserved ELSE Scarce!SlotsConserved

\* SessionEnds where slots are scarce: every session that is started is reported
\* to the engine.
SessionsEnd ==
    \A s \in Session : (shape = "scarce" /\ cpc[s] = "opening") ~> cpc[s] = "done"

\* BlocksFreed where slots are scarce: the blocks of an announced request are
\* given back to the engine, pulled or not.
TablesFreed ==
    \A t \in Transfer : (shape = "scarce" /\ eng[t] = "announced") ~> finals[t] > 0
=============================================================================
