---------------------------- MODULE MCSyncClient ----------------------------
EXTENDS SyncClient, TLC

(* The callers are interchangeable. *)
Callers == Permutations(Threads)
=============================================================================
