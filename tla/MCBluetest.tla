----------------------------- MODULE MCBluetest -----------------------------
(* Bluetest on suites of two entries. *)
EXTENDS Bluetest

(* An entry with both kinds of assertions and one with a single kind. *)
Suite == <<[asserts |-> 1, dyns |-> 1], [asserts |-> 2, dyns |-> 0]>>
=============================================================================
