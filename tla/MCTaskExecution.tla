--------------------------- MODULE MCTaskExecution ---------------------------
(* TaskExecution: one session, two requests, a client, two workers.  The    *)
(* client may submit again while workers of its earlier calls still run.   *)
EXTENDS TaskExecution, TLC

CONSTANTS c1, w1, w2

MCWorkerSymmetry == Permutations({w1, w2})

=============================================================================
