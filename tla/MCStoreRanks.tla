---------------------------- MODULE MCStoreRanks ---------------------------
(* Two instances of StoreSave for TLC, of which a behaviour is one: one     *)
(* rank of a hybrid model with a sliding window (the constants of the       *)
(* module itself), or two ranks under pressure with one block that two      *)
(* requests need in turn.                                                   *)
EXTENDS MCStoreSave

Ranks == INSTANCE StoreSave
    WITH Worker <- {w1, w2}, Block <- {b1}, Prompt <- r1 :> <<1>> @@ r2 :> <<2>>, BlockSize <- 1,
         StepTokens <- {1}, MaxJobs <- 2, Hybrid <- FALSE, Sliding <- FALSE, SaveFaults <- {"pressure"}

VARIABLE shape
MCInit == \/ shape = "hybrid" /\ SaveInit
          \/ shape = "ranks" /\ Ranks!SaveInit
HybridNext == shape = "hybrid" /\ SaveNext /\ UNCHANGED shape
RanksNext == shape = "ranks" /\ Ranks!SaveNext /\ UNCHANGED shape
MCSpec == MCInit /\ [][HybridNext \/ RanksNext]_<<vars, shape>>

\* StoredFaithful of both: every value in the store, but for the KV blocks of
\* finish-time tails, is the KV its key promises to a later reader.
SavedFaithful == IF shape = "hybrid" THEN StoredFaithful ELSE Ranks!StoredFaithful

\* OffsetStored of both: a rank's resume offset never passes a block of a running
\* request that it has neither stored nor lost to the window.
SavedOffset == IF shape = "hybrid" THEN OffsetStored ELSE Ranks!OffsetStored

\* PinsExact of both: references are exact, and a job is pinned for exactly the
\* ranks that still have it to report, so that no blocks are given back early and
\* none stay pinned for a report nobody owes (update_connector_output).
SavedPins == IF shape = "hybrid" THEN PinsExact ELSE Ranks!PinsExact
=============================================================================
