------------------------------ MODULE MCConnPool ------------------------------
(* Instances of ConnPool for TLC. *)
EXTENDS ConnPool, TLC

Symmetry == Permutations(Threads) \union Permutations(Overlays)
=============================================================================
