---------------------- MODULE MCCompressedKVConnector ----------------------
(* Instances of CompressedKVConnector for TLC. *)
EXTENDS CompressedKVConnector, TLC

CONSTANTS p1, p2, p3, a, b, c

MCPayload == {p1, p2, p3}

\* Three requests of one transfer id each
MCRidDistinct == {a, b, c}
MCRidOfDistinct == p1 :> a @@ p2 :> b @@ p3 :> c

\* Each payload fills the budget of 2 or half of it; p3 is larger than it
MCBytes == p1 :> 2 @@ p2 :> 1 @@ p3 :> 3
=============================================================================
