---------------------------- MODULE MCStoreLoad ----------------------------
(***************************************************************************)
(* Two instances of the store's load path in one run.  The cfg gives the    *)
(* one with a disk-offload budget of one key per sub-batch on one rank with *)
(* two receiving threads; Ranks is two ranks that read a load in one batch, *)
(* each in its own rotation.                                                *)
(***************************************************************************)
EXTENDS StoreLoad

CONSTANTS q1, q2
VARIABLE shape

Ranks == INSTANCE StoreLoad WITH
            TpSize <- 2, Thread <- {1}, BatchKeys <- 3, Tokens <- 3, MaxPuts <- 1,
            LocalHits <- {0}, MaxEpoch <- 0, MaxPreempts <- 0

mcVars == <<loadVars, shape>>

MCInit == \/ shape = "split" /\ LoadInit
          \/ shape = "ranks" /\ Ranks!LoadInit

MCNext ==
    /\ UNCHANGED shape
    /\ \/ shape = "split" /\ LoadNext
       \/ shape = "ranks" /\ Ranks!LoadNext

\* The fairness of FairLoadSpec, for the one rank and its two threads
SplitMeta == shape = "split" /\ BuildConnectorMeta /\ UNCHANGED shape
SplitRank(k) == shape = "split" /\ RankStep(k) /\ UNCHANGED shape

MCFairSpec ==
    /\ MCInit /\ [][MCNext]_mcVars
    /\ WF_mcVars(SplitMeta) /\ \A k \in Rank : WF_mcVars(SplitRank(k))

\* PrefixLoaded in both instances: on one rank although the rest of a load is
\* given up after one failed sub-batch, and on two ranks that read in different
\* orders.
LoadedPrefix == IF shape = "split" THEN PrefixLoaded ELSE Ranks!PrefixLoaded

\* LoadsAwaited in both instances.
LoadedAwaited == IF shape = "split" THEN LoadsAwaited ELSE Ranks!LoadsAwaited

\* LoadEnds of the one rank: every load ends, and the request runs or its blocks
\* are freed.
LoadedEnds ==
    \A r \in Req : (shape = "split" /\ phase[r] \in {"loading", "aborted"})
                      ~> phase[r] \notin {"loading", "aborted"}
=============================================================================
