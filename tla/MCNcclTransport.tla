-------------------------- MODULE MCNcclTransport --------------------------
(* Instances of NcclTransport for TLC. *)
EXTENDS NcclTransport, TLC

CONSTANTS p1, p2, p3, a, b

\* p1 and p2 share the key a and each fills the budget of 2 on its own; p3 is
\* half of it, and NCCL refuses its dtype.
MCPayload == {p1, p2, p3}
MCRid == {a, b}
MCRidOf == p1 :> a @@ p2 :> a @@ p3 :> b
MCBytes == p1 :> 2 @@ p2 :> 2 @@ p3 :> 1
=============================================================================
