----------------------------- MODULE MCRaftLoop -----------------------------
(* RaftLoop for TLC.  Its runs check liveness, so there is no symmetry. *)
EXTENDS RaftLoop, TLC

=============================================================================
