------------------------- MODULE MCSessionConsumer -------------------------
(* Small instances of the session helper for TLC: one session. *)
EXTENDS SessionConsumer
CONSTANTS s1, t1, k1, k2, r1, r2, r3, r4

\* One session with two chunk pairs and a slot for each chunk.
OneTransfer == [s \in {s1} |-> t1]
FourSlots == [s \in {s1} |-> {r1, r2, r3, r4}]
FourChunks == [s \in {s1} |-> 4]
TwoChunks == [s \in {s1} |-> 2]
TwoSlots == [s \in {s1} |-> {r1, r2}]
=============================================================================
