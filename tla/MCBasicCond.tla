---------------------------- MODULE MCBasicCond ----------------------------
EXTENDS BasicCond

TwoThreads == {"main", "worker"}
=============================================================================
