-------------------------- MODULE MCHelperProcess --------------------------
(* One receive whose two sessions share one GPU worker. *)
EXTENDS HelperProcess
MCOf == [s \in Session |-> "r1"]
=============================================================================
