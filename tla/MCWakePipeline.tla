--------------------------- MODULE MCWakePipeline ---------------------------
(* Boot configurations to follow.  A boot with neither model nor task, the *)
(* one outcome of main() that is missing, supervises without a mind.       *)
EXTENDS WakePipeline

Boot(d, t, m, k, o) == [desktop |-> d, tty |-> t, model |-> m, task |-> k, once |-> o]

TellingConfigs ==
    { Boot(TRUE,  FALSE, TRUE,  TRUE,  FALSE),    \* a boot task, then supervising
      Boot(FALSE, FALSE, TRUE,  TRUE,  TRUE),     \* a boot task, then halt
      Boot(FALSE, FALSE, FALSE, TRUE,  TRUE),     \* no model for the task
      Boot(FALSE, TRUE,  TRUE,  FALSE, FALSE) }   \* a shell
=============================================================================
