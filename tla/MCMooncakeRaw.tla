--------------------------- MODULE MCMooncakeRaw ---------------------------
(* Two instances of MooncakeRaw for TLC, of which a behaviour is one: two   *)
(* decode workers pull a batch of two requests from a prefill worker (the   *)
(* constants of the module itself), or one decode worker pulls a request    *)
(* from two prefill workers, where everything may fail.                     *)
EXTENDS MooncakeRaw, TLC

CONSTANTS p1, p2, d1, d2, r1, r2, b1

OneBatch == b1 :> {r1, r2}
Workers == INSTANCE MooncakeRaw
    WITH PW <- {p1, p2}, DW <- {d1}, Req <- {r1}, ReqsOf <- b1 :> {r1}, EmptyReq <- {},
         NeedSend <- 1, SenderTasks <- 1,
         RawFaults <- {"transfer", "raise", "config", "bootstrap", "crash"}

VARIABLE shape
BatchInit == shape = "batch" /\ RawInit
WorkersInit == shape = "workers" /\ Workers!RawInit
MCInit == BatchInit \/ WorkersInit
BatchNext == shape = "batch" /\ RawNext /\ UNCHANGED shape
WorkersNext == shape = "workers" /\ Workers!RawNext /\ UNCHANGED shape
MCNext == BatchNext \/ WorkersNext
MCSpec == MCInit /\ [][MCNext]_<<rawVars, shape>>

\* RawBlocksHeld of both: a P worker reports a request as sent at most once, and
\* only when no task transfers its blocks.
PulledBlocksHeld == IF shape = "batch" THEN RawBlocksHeld ELSE Workers!RawBlocksHeld

\* FinishedMeansWritten of both: a request reported finished without invalid
\* blocks has been written by every P worker, and none still writes it.
PulledMeansWritten == IF shape = "batch" THEN FinishedMeansWritten ELSE Workers!FinishedMeansWritten

\* RawNoneWaiting of both: when no loop has a step left every pull is reported
\* and the announced blocks are given back.
PullsNoneWaiting == IF shape = "batch" THEN RawNoneWaiting ELSE Workers!RawNoneWaiting
=============================================================================
