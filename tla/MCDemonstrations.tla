------------------------- MODULE MCDemonstrations -------------------------
(* An instance of Demonstrations for TLC.                                   *)
EXTENDS Demonstrations

CONSTANTS a, b, c

MCWorkers == <<a, b, c>>

===========================================================================
