------------------------------ MODULE MCReplay ------------------------------
(* A small instance of ReplayStore for TLC. *)
EXTENDS ReplayStore, TLC

Symmetry == Permutations(Slots) \cup Permutations(Nonces)

=============================================================================
