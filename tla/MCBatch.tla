------------------------------- MODULE MCBatch -------------------------------
(* A small instance of Batch for TLC: jobs of one and of two tasks, in turn *)
(* and in parallel, and one that is disabled.                               *)
EXTENDS Batch, TLC

J(enabled, iterations, parallel, sync_start) ==
    [enabled |-> enabled, iterations |-> iterations, parallel |-> parallel,
     sync_start |-> sync_start, backoff |-> 1]

MCJobs == <<J(TRUE, 2, TRUE, TRUE), J(FALSE, 1, FALSE, FALSE), J(TRUE, 2, FALSE, TRUE)>>

=============================================================================
