---------------------------- MODULE MCMultiLock ----------------------------
(* MultiLock for TLC. *)
EXTENDS MultiLock, TLC

NodeSymmetry == Permutations(Nodes)

=============================================================================
