-------------------------- MODULE MCInMemoryQueue --------------------------
(* Instances of InMemoryQueue for TLC: publish() and shutdown() calls as     *)
(* model values.                                                            *)
EXTENDS InMemoryQueue

CONSTANTS m1, m2, m3, m4, bad, c1, c2
============================================================================
