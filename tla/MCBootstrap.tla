----------------------------- MODULE MCBootstrap -----------------------------
(* Bootstrap for TLC.  Its clusters have an order, so there is no symmetry. *)
EXTENDS Bootstrap, TLC

=============================================================================
