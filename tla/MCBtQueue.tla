------------------------------ MODULE MCBtQueue ------------------------------
(* BtQueue on a small heap. *)
EXTENDS BtQueue, TLC

(* The addresses malloc returns are interchangeable. *)
Addresses == Permutations(Nodes)
=============================================================================
