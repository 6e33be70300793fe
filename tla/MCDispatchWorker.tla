------------------------- MODULE MCDispatchWorker -------------------------
(***************************************************************************)
(* The dispatch worker for TLC, in two instances: one in which the signing *)
(* key is rotated while transactions are retried, and one in which the     *)
(* process is restarted.  A behaviour is one of either.                    *)
(***************************************************************************)
EXTENDS DispatchWorker

CONSTANTS x1, x2, d1

VARIABLE part

(* All transactions are for the same server, so that they share a circuit. *)
MCDestOf == [x \in Txns |-> d1]

(* compute_backoff() with the intervals of the code, against its closed form. *)
ASSUME BackoffIsCappedDoubling ==
    \A n \in 0 .. 12 :
        ComputeBackoff(2000, 300000, n) =
            IF 2000 * 2 ^ n <= 300000 THEN 2000 * 2 ^ n ELSE 300000

Restarted == INSTANCE DispatchWorker WITH MaxRetries <- 1, MaxStarts <- 2, MaxRotations <- 0

MCInit == Init /\ part \in {"retried", "restarted"}

MCNext ==
    /\ UNCHANGED part
    /\ \/ part = "retried" /\ Next
       \/ part = "restarted" /\ Restarted!Next

(* The worker thread is scheduled, the clock runs, and a process that went *)
(* down is started again.                                                  *)
MCSpec ==
    /\ MCInit /\ [][MCNext]_<<vars, part>>
    /\ WF_vars(part = "retried" /\ Work) /\ WF_vars(part = "retried" /\ Tick)
    /\ WF_vars(part = "retried" /\ Start) /\ WF_vars(part = "retried" /\ Exit)
    /\ WF_vars(part = "restarted" /\ Restarted!Work) /\ WF_vars(part = "restarted" /\ Restarted!Tick)
    /\ WF_vars(part = "restarted" /\ Restarted!Start) /\ WF_vars(part = "restarted" /\ Restarted!Exit)

(* Every accepted transaction is settled, and every shutdown ends. *)
WorkerFinishes == EventuallySettled /\ ShutdownCompletes
===========================================================================
