------------------------- MODULE MCMooncakeSession -------------------------
\* Instance of MooncakeSession for TLC: one decode worker pulls a request from
\* two prefill workers, one of which has only raw groups to send.
EXTENDS MooncakeSession, TLC

CONSTANTS s1, s2, t1, t2, q1, k1, j1, j2

WorkersTransfer == s1 :> t1 @@ s2 :> t2
WorkersPull == s1 :> q1 @@ s2 :> q1
WorkersChunks == s1 :> 2 @@ s2 :> 0
WorkersSend == s1 :> {k1} @@ s2 :> {}
WorkersRecv == s1 :> {j1, j2} @@ s2 :> {j1, j2}
WorkersFaults ==
    s1 :> {"open", "encode", "write", "decode", "writeback", "timeout", "noack"} @@
    s2 :> {"open"}

\* The receiver's slots are interchangeable.
SlotSymmetry == Permutations(ReceiverSlot)
=============================================================================
