------------------------------ MODULE MCReleaseRun ------------------------------
(* Instances of ReleaseRun for TLC: one author task and its review. *)
EXTENDS ReleaseRun

MCAuthorOf == [t \in 1..2 |-> t - 1]
=============================================================================
