---------------------------- MODULE MCBasicMutex ----------------------------
EXTENDS BasicMutex

TwoThreads == {"main", "worker"}
=============================================================================
