---------------------------- MODULE MCKubeElector ----------------------------
(* KubeElector for TLC.  Its run checks liveness, so there is no symmetry. *)
EXTENDS KubeElector, TLC

=============================================================================
