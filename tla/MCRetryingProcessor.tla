------------------------ MODULE MCRetryingProcessor ------------------------
(* Instances of RetryingProcessor for TLC.                                  *)
EXTENDS RetryingProcessor

CONSTANTS m1, m2, m3

============================================================================
