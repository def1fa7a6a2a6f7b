------------------------------ MODULE MCEngage ------------------------------
(* Engage for TLC.  Its run checks liveness, so there is no symmetry. *)
EXTENDS Engage, TLC

CONSTANT r1

MCRunnables == <<r1>>

=============================================================================
