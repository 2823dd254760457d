-------------------------- MODULE MCMessageDedup --------------------------
(* Instances of MessageDedup for TLC.                                       *)
EXTENDS MessageDedup

CONSTANTS m1, m2

============================================================================
