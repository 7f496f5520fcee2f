---------------------------- MODULE MCTxnManager ----------------------------
(* Instances of TxnManager for TLC. *)
EXTENDS TxnManager

Symmetry == Permutations(Threads)
=============================================================================
