----------------------------- MODULE MCRaftCheck -----------------------------
(* RaftCheck for TLC.  Its run checks liveness, so there is no symmetry. *)
EXTENDS RaftCheck, TLC

=============================================================================
